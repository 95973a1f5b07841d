---------------------------- MODULE BufferEvents ----------------------------
(***************************************************************************)
(* libevent's bufferevents, the clients on the other end, and the socket   *)
(* between them, as the programs that use them can tell.  Not code of this *)
(* repository.  bufferevent_write() only queues: the socket takes the      *)
(* output when the loop finds it writable; bufferevent_free() closes the   *)
(* socket and drops what is still queued.  All callbacks run in one loop,  *)
(* one at a time.                                                          *)
(***************************************************************************)
EXTENDS Integers, Sequences

CONSTANTS
    Clients,
    ReadMax     \* units one read event moves into the input buffer (4096 bytes)

VARIABLES
    program,    \* the program that runs
    loop,       \* of its event loop: running, exiting (loopexit set), down
    conn,       \* conn[c]: idle, queued, open, freed
    peer,       \* what the client did to its end: none, fin, rst, broken
    sent,       \* sent[c]: all the client has sent
    wire,       \* wire[c]: the part not read yet
    reading,    \* reading[c]: EV_READ enabled
    input,      \* the input evbuffer
    output,     \* the output evbuffer
    got         \* got[c]: what the client has received

bevVars == <<program, loop, conn, peer, sent, wire, reading, input, output, got>>

Empty == [c \in Clients |-> <<>>]

BevInit ==
    /\ conn = [c \in Clients |-> "idle"]
    /\ peer = [c \in Clients |-> "none"]
    /\ sent = Empty /\ wire = Empty
    /\ reading = [c \in Clients |-> FALSE]
    /\ input = Empty /\ output = Empty /\ got = Empty

-----------------------------------------------------------------------------
(* The clients.                                                            *)

There(c) == conn[c] \in {"queued", "open"} /\ peer[c] = "none"

Connect(c) ==
    /\ conn[c] = "idle"
    /\ conn' = [conn EXCEPT ![c] = "queued"]
    /\ UNCHANGED <<program, loop, peer, sent, wire, reading, input, output, got>>

Send(c, s) ==
    /\ There(c)
    /\ sent' = [sent EXCEPT ![c] = @ \o s]
    /\ wire' = [wire EXCEPT ![c] = @ \o s]
    /\ UNCHANGED <<program, loop, conn, peer, reading, input, output, got>>

(* FIN, reset, or reset after FIN.                                         *)
Leave(c) ==
    /\ conn[c] \in {"queued", "open"}
    /\ \E e \in {"fin", "rst", "broken"} :
         /\ peer[c] = (IF e = "broken" THEN "fin" ELSE "none")
         /\ peer' = [peer EXCEPT ![c] = e]
    /\ UNCHANGED <<program, loop, conn, sent, wire, reading, input, output, got>>

-----------------------------------------------------------------------------
(* The loop.                                                               *)

Live == loop # "down"

(* A listener callback that makes a bufferevent: its EV_READ and the       *)
(* output it starts with.                                                  *)
NewBev(c, read, hello) ==
    /\ Live /\ conn[c] = "queued"
    /\ conn' = [conn EXCEPT ![c] = "open"]
    /\ reading' = [reading EXCEPT ![c] = read]
    /\ output' = [output EXCEPT ![c] = hello]
    /\ UNCHANGED <<program, loop, peer, sent, wire, input, got>>

CanRead(c) == Live /\ conn[c] = "open" /\ reading[c] /\ wire[c] # <<>>

(* A sequence up to and behind its n-th unit.                              *)
Upto(s, n)   == SubSeq(s, 1, IF n < Len(s) THEN n ELSE Len(s))
Behind(s, n) == SubSeq(s, n + 1, Len(s))

(* The input buffer when the read callback is called.                      *)
Input(c) == input[c] \o Upto(wire[c], ReadMax)

(* A read event whose callback leaves rest in the input buffer and queues  *)
(* answer.                                                                 *)
ReadEvent(c, rest, answer) ==
    /\ CanRead(c)
    /\ wire' = [wire EXCEPT ![c] = Behind(@, ReadMax)]
    /\ input' = [input EXCEPT ![c] = rest]
    /\ output' = [output EXCEPT ![c] = @ \o answer]
    /\ UNCHANGED <<program, loop, conn, peer, sent, reading, got>>

(* A read event whose callback frees its bufferevent.                      *)
ReadAndFree(c) ==
    /\ CanRead(c)
    /\ conn' = [conn EXCEPT ![c] = "freed"]
    /\ wire' = [wire EXCEPT ![c] = <<>>]
    /\ input' = [input EXCEPT ![c] = <<>>]
    /\ output' = [output EXCEPT ![c] = <<>>]
    /\ UNCHANGED <<program, loop, peer, sent, reading, got>>

Gone(c) ==
    /\ conn' = [conn EXCEPT ![c] = "freed"]
    /\ input' = [input EXCEPT ![c] = <<>>]
    /\ output' = [output EXCEPT ![c] = <<>>]
    /\ UNCHANGED <<program, loop, sent, wire, reading, got>>

(* End of file or an error at a read: reading stops and the event callback *)
(* runs, if there is one; a reset is reported once.                        *)
AtEnd(c) == Live /\ conn[c] = "open" /\ reading[c] /\ wire[c] = <<>> /\ peer[c] # "none"

Reported(c) == peer' = [peer EXCEPT ![c] = IF @ = "rst" THEN "broken" ELSE @]

EndFrees(c) == AtEnd(c) /\ Reported(c) /\ Gone(c)

EndIgnored(c) ==
    /\ AtEnd(c) /\ Reported(c)
    /\ reading' = [reading EXCEPT ![c] = FALSE]
    /\ UNCHANGED <<program, loop, conn, sent, wire, input, output, got>>

CanWrite(c) == Live /\ conn[c] = "open" /\ output[c] # <<>>

(* The socket takes one unit more.                                         *)
Drain(c) ==
    /\ CanWrite(c) /\ peer[c] \in {"none", "fin"}
    /\ got' = [got EXCEPT ![c] = Append(@, Head(output[c]))]
    /\ output' = [output EXCEPT ![c] = Tail(@)]
    /\ UNCHANGED <<program, loop, conn, peer, sent, wire, reading, input>>

(* ... and it was the last one, and the write callback frees.              *)
DrainAndFree(c) ==
    /\ CanWrite(c) /\ Len(output[c]) = 1 /\ peer[c] \in {"none", "fin"}
    /\ got' = [got EXCEPT ![c] = Append(@, Head(output[c]))]
    /\ conn' = [conn EXCEPT ![c] = "freed"]
    /\ output' = [output EXCEPT ![c] = <<>>]
    /\ UNCHANGED <<program, loop, peer, sent, wire, reading, input>>

WriteFails(c) == CanWrite(c) /\ peer[c] = "rst"

WriteFrees(c) == WriteFails(c) /\ Reported(c) /\ Gone(c)

(* No event callback: writing stops.                                       *)
WriteIgnored(c) ==
    /\ WriteFails(c) /\ Reported(c)
    /\ output' = [output EXCEPT ![c] = <<>>]
    /\ UNCHANGED <<program, loop, conn, sent, wire, reading, input, got>>

Stop(l) ==
    /\ loop' = l
    /\ UNCHANGED <<program, conn, peer, sent, wire, reading, input, output, got>>

(* SIGPIPE is nowhere ignored.                                             *)
Sigpipe(c) == CanWrite(c) /\ peer[c] = "broken" /\ Stop("down")

=============================================================================
