------------------------------ MODULE Sockets ------------------------------
(***************************************************************************)
(* The kernel side of a TCP server and the clients on the other end, as    *)
(* far as the programs of this repository can tell: what accept(), read(), *)
(* close() and readiness notification answer.  None of it is code of the   *)
(* repository; it is what the servers call.                                *)
(*                                                                         *)
(* A stream is counted, not spelled out: sent[c] units of connection c     *)
(* have reached the server's kernel, the server has taken the first        *)
(* taken[c] of them.  A module that needs the contents gives each unit a   *)
(* meaning by its position.                                                *)
(***************************************************************************)
EXTENDS Integers, FiniteSets

CONSTANTS
    Conns,      \* the connections clients may open
    Fds,        \* descriptor numbers left for connections (RLIMIT_NOFILE)
    NoConn      \* "this descriptor is not open"

ASSUME SocketsAssumption ==
    /\ Fds \subseteq Nat
    /\ NoConn \notin Conns

VARIABLES
    phase,      \* phase[c]: idle, queued (not accepted yet), open or closed
    sent,       \* sent[c]: units that reached the server's receive queue
    taken,      \* taken[c]: units the server has read
    end,        \* end[c]: what the client did to its end of the connection
    fdtab       \* fdtab[f]: the connection descriptor f stands for

sockVars == <<phase, sent, taken, end, fdtab>>

Phases == {"idle", "queued", "open", "closed"}

(* none: still there.  fin: FIN received.  rst: reset, error not reported  *)
(* yet.  broken: reset and reported (or reset after FIN): reads answer 0   *)
(* and a write raises SIGPIPE.                                             *)
Ends == {"none", "fin", "rst", "broken"}

SockTypeOK ==
    /\ phase \in [Conns -> Phases]
    /\ sent \in [Conns -> Nat]
    /\ taken \in [Conns -> Nat]
    /\ end \in [Conns -> Ends]
    /\ fdtab \in [Fds -> Conns \cup {NoConn}]

SockInit ==
    /\ phase = [c \in Conns |-> "idle"]
    /\ sent = [c \in Conns |-> 0]
    /\ taken = [c \in Conns |-> 0]
    /\ end = [c \in Conns |-> "none"]
    /\ fdtab = [f \in Fds |-> NoConn]

-----------------------------------------------------------------------------
(* What the server's kernel would answer.                                  *)

Avail(c) == sent[c] - taken[c]

Queued == {c \in Conns : phase[c] = "queued"}

OpenFds == {f \in Fds : fdtab[f] # NoConn}

Free == Fds \ OpenFds

(* Descriptors are handed out lowest first. *)
Lowest(f) == f \in Free /\ \A g \in Free : f <= g

(* read() would not block: data, end of file or an error is pending. *)
Readable(c) == Avail(c) > 0 \/ end[c] # "none"

HasData(c)    == Avail(c) > 0
HasError(c)   == Avail(c) = 0 /\ end[c] = "rst"
AtEof(c)      == Avail(c) = 0 /\ end[c] \in {"fin", "broken"}
WouldBlock(c) == Avail(c) = 0 /\ end[c] = "none"

(* How many units one read() with a buffer of size units returns. *)
ReadSize(c, size) == IF Avail(c) < size THEN Avail(c) ELSE size

-----------------------------------------------------------------------------
(* The clients and the network.                                            *)

Alive(c) == phase[c] \in {"queued", "open"}

Connect(c) ==
    /\ phase[c] = "idle"
    /\ phase' = [phase EXCEPT ![c] = "queued"]
    /\ UNCHANGED <<sent, taken, end, fdtab>>

Deliver(c, n) ==
    /\ Alive(c) /\ end[c] = "none"
    /\ sent' = [sent EXCEPT ![c] = @ + n]
    /\ UNCHANGED <<phase, taken, end, fdtab>>

Fin(c) ==
    /\ Alive(c) /\ end[c] = "none"
    /\ end' = [end EXCEPT ![c] = "fin"]
    /\ UNCHANGED <<phase, sent, taken, fdtab>>

Abort(c) ==
    /\ Alive(c) /\ end[c] \in {"none", "fin"}
    /\ end' = [end EXCEPT ![c] = IF @ = "none" THEN "rst" ELSE "broken"]
    /\ UNCHANGED <<phase, sent, taken, fdtab>>

-----------------------------------------------------------------------------
(* Calls of the server.                                                    *)

AcceptConn(c, f) ==
    /\ c \in Queued /\ Lowest(f)
    /\ phase' = [phase EXCEPT ![c] = "open"]
    /\ fdtab' = [fdtab EXCEPT ![f] = c]
    /\ UNCHANGED <<sent, taken, end>>

TakeData(c, n) ==
    /\ taken' = [taken EXCEPT ![c] = @ + n]
    /\ UNCHANGED <<phase, sent, end, fdtab>>

(* A pending error is handed out once: by read() or by send(). *)
TakeError(c) ==
    /\ end' = [end EXCEPT ![c] = IF @ = "rst" THEN "broken" ELSE @]
    /\ UNCHANGED <<phase, sent, taken, fdtab>>

CloseFd(f) ==
    /\ phase' = [phase EXCEPT ![fdtab[f]] = "closed"]
    /\ fdtab' = [fdtab EXCEPT ![f] = NoConn]
    /\ UNCHANGED <<sent, taken, end>>
=============================================================================
