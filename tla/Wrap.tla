-------------------------------- MODULE Wrap --------------------------------
(***************************************************************************)
(* The read and write functions of wrap.c on one blocking descriptor: what *)
(* a caller gets from a sequence of calls while bytes trickle in, signals  *)
(* interrupt the system calls and the peer ends or resets the connection.  *)
(* The bytes of the stream are numbered; LineEnds are the '\n's.           *)
(***************************************************************************)
EXTENDS Integers, Sequences

CONSTANTS
    Want,       \* the length the caller asks for
    ReadBuf,    \* read_buf of my_read                      (100 bytes)
    LineEnds,
    MaxBytes,   \* bound: bytes the peer sends
    MaxSignals, \* bound: signals
    MaxCalls    \* bound: calls

VARIABLES
    fn,         \* the function this caller uses
    calls, busy,    \* calls begun; one is under way
    buf,        \* what the call at hand has put where the caller wants it
    nleft,      \* Writen: still to be written
    ret,        \* what the last call returned
    given,      \* all that the calls before have handed over
    readBuf,    \* read_buf from read_ptr on, read_cnt bytes
    arrived, taken, peer,   \* the descriptor's receive side
    written,    \* ... and its send side
    signals

stream == <<arrived, peer>>
wrapVars == <<fn, calls, busy, buf, nleft, ret, given, readBuf, stream, taken, written, signals>>

Readers == {"Read", "Readn", "Readline"}
Writers == {"Write", "Writen"}

Init ==
    /\ fn = "none" /\ calls = 0 /\ busy = FALSE
    /\ buf = <<>> /\ nleft = 0 /\ ret = 0 /\ given = <<>> /\ readBuf = <<>>
    /\ arrived = 0 /\ taken = 0 /\ peer = "there" /\ written = <<>> /\ signals = 0

Bytes(from, k) == [j \in 1..k |-> from + j]

-----------------------------------------------------------------------------
(* Outside: the peer, and the caller, who stops after an end or an error.  *)

Arrive ==
    /\ fn \in Readers /\ peer = "there" /\ arrived < MaxBytes /\ arrived' = arrived + 1
    /\ UNCHANGED <<fn, calls, busy, buf, nleft, ret, given, readBuf, taken, peer, written, signals>>

PeerEnds ==
    /\ fn # "none" /\ peer = "there" /\ peer' \in {"fin", "rst"}
    /\ UNCHANGED <<fn, calls, busy, buf, nleft, ret, given, readBuf, arrived, taken, written, signals>>

Call(f) ==
    /\ ~busy /\ calls < MaxCalls /\ fn \in {"none", f}
    /\ calls > 0 => ret > 0
    /\ fn' = f /\ calls' = calls + 1 /\ busy' = TRUE
    /\ buf' = <<>> /\ nleft' = Want
    /\ UNCHANGED <<ret, given, readBuf, stream, taken, written, signals>>

In(f) == busy /\ fn = f

Return(r, b) == busy' = FALSE /\ ret' = r /\ given' = given \o b

-----------------------------------------------------------------------------
(* What read() and write() may do.                                         *)

Pending == arrived - taken
Eof == Pending = 0 /\ peer = "fin"
Failed == Pending = 0 /\ peer = "rst"

Got(k) == k <= Pending /\ taken' = taken + k

(* EINTR, while it waits. *)
Interrupted ==
    /\ signals < MaxSignals /\ signals' = signals + 1
    /\ fn \in Readers => Pending = 0 /\ peer = "there"

-----------------------------------------------------------------------------
(* Slip: Readn takes the 0 it makes of EINTR for the end of file. *)
AgainEnds ==
    /\ busy /\ Interrupted
    /\ Return(Len(buf), buf)
    /\ UNCHANGED <<fn, calls, buf, nleft, readBuf, stream, taken, written>>

(* Again: every function calls once more, with nothing counted.            *)
Again ==
    /\ busy /\ Interrupted
    /\ fn = "Readn" => Len(buf) < Want
    /\ fn = "Readline" => readBuf = <<>>
    /\ UNCHANGED <<fn, calls, busy, buf, nleft, ret, given, readBuf, stream, taken, written>>

Read ==
    /\ In("Read")
    /\ \/ \E k \in 1..Want : Got(k) /\ Return(k, Bytes(taken, k))
       \/ Eof /\ Return(0, <<>>) /\ UNCHANGED taken
       \/ Failed /\ Return(-1, <<>>) /\ UNCHANGED taken
    /\ UNCHANGED <<fn, calls, buf, nleft, readBuf, stream, written, signals>>

ReadnPart ==
    /\ In("Readn")
    /\ \E k \in 1..(Want - Len(buf)) : Got(k) /\ buf' = buf \o Bytes(taken, k)
    /\ UNCHANGED <<fn, calls, busy, nleft, ret, given, readBuf, stream, written, signals>>

(* n - nleft at the end; what a failing call had read is not handed over.  *)
ReadnReturns ==
    /\ In("Readn")
    /\ \/ (Len(buf) = Want \/ Eof) /\ Return(Len(buf), buf)
       \/ Len(buf) < Want /\ Failed /\ Return(-1, <<>>)
    /\ UNCHANGED <<fn, calls, buf, nleft, readBuf, stream, taken, written, signals>>

(* my_read: read_buf is empty. *)
Refill ==
    /\ In("Readline") /\ readBuf = <<>>
    /\ \E k \in 1..ReadBuf : Got(k) /\ readBuf' = Bytes(taken, k)
    /\ UNCHANGED <<fn, calls, busy, buf, nleft, ret, given, stream, written, signals>>

(* One byte more: the end of the line, or of the buffer, where n says one  *)
(* more than was stored.                                                   *)
LinePart ==
    /\ In("Readline") /\ readBuf # <<>> /\ Len(buf) < Want - 1
    /\ LET b == Append(buf, Head(readBuf))
       IN  CASE Head(readBuf) \in LineEnds -> Return(Len(b), b) /\ UNCHANGED buf
             [] Head(readBuf) \notin LineEnds /\ Len(b) = Want - 1 -> Return(Want, b) /\ UNCHANGED buf
             [] OTHER -> buf' = b /\ UNCHANGED <<busy, ret, given>>
    /\ readBuf' = Tail(readBuf)
    /\ UNCHANGED <<fn, calls, nleft, stream, taken, written, signals>>

(* rc = 0, or -1 for my_read's -1, with the line so far lost.              *)
LineEnd ==
    /\ In("Readline") /\ readBuf = <<>>
    /\ \/ Eof /\ Return(Len(buf), buf)
       \/ Failed /\ Return(-1, <<>>)
    /\ UNCHANGED <<fn, calls, buf, nleft, readBuf, stream, taken, written, signals>>

Ahead == Want - nleft + (calls - 1) * Want

Write ==
    /\ In("Write")
    /\ \/ /\ peer # "rst" /\ \E k \in 1..Want : Return(k, <<>>) /\ written' = written \o Bytes(Len(written), k)
       \/ peer = "rst" /\ Return(-1, <<>>) /\ UNCHANGED written
    /\ UNCHANGED <<fn, calls, buf, nleft, readBuf, stream, taken, signals>>

WritenPart ==
    /\ In("Writen") /\ peer # "rst"
    /\ \E k \in 1..nleft : written' = written \o Bytes(Ahead, k) /\ nleft' = nleft - k
    /\ UNCHANGED <<fn, calls, busy, buf, ret, given, readBuf, stream, taken, signals>>

WritenReturns ==
    /\ In("Writen")
    /\ \/ nleft = 0 /\ Return(Want, <<>>)
       \/ nleft > 0 /\ peer = "rst" /\ Return(-1, <<>>)
    /\ UNCHANGED <<fn, calls, buf, nleft, readBuf, stream, taken, written, signals>>

Next ==
    \/ Arrive \/ PeerEnds \/ Again
    \/ \E f \in Readers \cup Writers : Call(f)
    \/ Read \/ ReadnPart \/ ReadnReturns
    \/ Refill \/ LinePart \/ LineEnd
    \/ Write \/ WritenPart \/ WritenReturns

-----------------------------------------------------------------------------
(* Properties.                                                             *)

(* However short the reads and writes and however many signals: the calls  *)
(* hand over the stream in order, without a gap or a repetition, as long   *)
(* as none fails; a Readn() that returns less than asked has met the end   *)
(* of file; a Writen() that returns n has written n bytes; a line that is  *)
(* handed over ends at the first '\n' in it (wrap.c:107-196).              *)
Exact ==
    /\ ret # -1 /\ fn \in Readers =>
         given \o (IF busy THEN buf ELSE <<>>) \o readBuf = Bytes(0, taken)
    /\ fn = "Readn" /\ ~busy /\ ret \in 0..(Want - 1) /\ calls > 0 => Eof
    /\ written = Bytes(0, Len(written))
    /\ fn = "Writen" /\ ~busy /\ ret = Want => Len(written) = calls * Want
    /\ fn = "Readline" => \A j \in 1..(Len(buf) - 1) : busy => buf[j] \notin LineEnds
=============================================================================
