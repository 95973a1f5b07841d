------------------------------ MODULE EpollLT ------------------------------
(***************************************************************************)
(* The level-triggered server, demo02.c: one read() of a blocking          *)
(* descriptor per event, a fixed answer, and a batch that is abandoned     *)
(* when a client closes.                                                   *)
(***************************************************************************)
EXTENDS EchoSockets

CONSTANTS
    LFd,        \* the listening descriptor
    MaxEvents,  \* eArr                                    (1024 in the code)
    BufSize     \* buf of one read()                       (1024 bytes)

ASSUME EpollLTAssumption ==
    /\ LFd \notin Fds
    /\ MaxEvents \in Nat \ {0} /\ BufSize \in Nat \ {0}

VARIABLES
    pc,         \* epoll_wait, the event loop, read(), write(), or gone
    evs,        \* descriptors of the batch not handled yet
    cur,        \* the descriptor of the event at hand
    tree        \* descriptors in the epoll set (the listener apart)

vars == <<echoVars, pc, evs, cur, tree>>

Init ==
    /\ EchoInit
    /\ pc = "wait" /\ evs = {} /\ cur = LFd
    /\ tree = {}

Client(c) ==
    /\ ClientActs(c) \/ Consume(c)
    /\ UNCHANGED <<pc, evs, cur, tree>>

-----------------------------------------------------------------------------
Reportable ==
    {f \in tree : Readable(fdtab[f])} \cup (IF Queued # {} THEN {LFd} ELSE {})

EpollWait ==
    /\ pc = "wait"
    /\ \E S \in SUBSET Reportable :
         /\ S # {} /\ Cardinality(S) <= MaxEvents
         /\ S = Reportable \/ Cardinality(S) = MaxEvents
         /\ evs' = S
    /\ pc' = "next"
    /\ UNCHANGED <<echoVars, cur, tree>>

BatchDone ==
    /\ pc = "next" /\ evs = {}
    /\ pc' = "wait"
    /\ UNCHANGED <<echoVars, evs, cur, tree>>

AcceptEvent ==
    /\ pc = "next" /\ LFd \in evs
    /\ \E c \in Conns, f \in Fds : AcceptConn(c, f) /\ tree' = tree \cup {f}
    /\ evs' = evs \ {LFd}
    /\ UNCHANGED <<out, pc, cur>>

AcceptFails ==
    /\ pc = "next" /\ LFd \in evs
    /\ Free = {}
    /\ pc' = "dead"
    /\ UNCHANGED <<echoVars, evs, cur, tree>>

StartEvent ==
    /\ pc = "next"
    /\ \E f \in evs \ {LFd} : cur' = f /\ evs' = evs \ {f}
    /\ pc' = "read"
    /\ UNCHANGED <<echoVars, tree>>

-----------------------------------------------------------------------------
Conn == fdtab[cur]

ReadData ==
    /\ pc = "read" /\ HasData(Conn)
    /\ TakeData(Conn, ReadSize(Conn, BufSize))
    /\ pc' = "write"
    /\ UNCHANGED <<out, evs, cur, tree>>

(* n < 0: off the tree, and never closed. *)
ReadError ==
    /\ pc = "read" /\ HasError(Conn)
    /\ TakeError(Conn)
    /\ tree' = tree \ {cur}
    /\ pc' = "next"
    /\ UNCHANGED <<out, evs, cur>>

(* Slip: off the tree without close(), as for n < 0. *)
EofNotClosed ==
    /\ pc = "read" /\ AtEof(Conn)
    /\ tree' = tree \ {cur}
    /\ evs' = {}
    /\ pc' = "next"
    /\ UNCHANGED <<echoVars, cur>>

(* Slip: a hang-up closes before what came with it is read. *)
CloseOnHangup ==
    /\ pc = "read" /\ end[Conn] \in {"fin", "broken"}
    /\ CloseFd(cur)
    /\ tree' = tree \ {cur}
    /\ evs' = {}
    /\ pc' = "next"
    /\ UNCHANGED <<out, cur>>

(* n = 0: close, and break out of the batch; what is left of it will be    *)
(* reported again.                                                         *)
ReadEof ==
    /\ pc = "read" /\ AtEof(Conn)
    /\ CloseFd(cur)
    /\ tree' = tree \ {cur}
    /\ evs' = {}
    /\ pc' = "next"
    /\ UNCHANGED <<out, cur>>

(* Slip: two read()s for one event. *)
WriteThenRead ==
    /\ pc = "write"
    /\ WriteOk(Conn) \/ WriteReset(Conn)
    /\ pc' = "read"
    /\ UNCHANGED <<evs, cur, tree>>

(* The answer; its result is not looked at. *)
Write ==
    /\ pc = "write"
    /\ WriteOk(Conn) \/ WriteReset(Conn)
    /\ pc' = "next"
    /\ UNCHANGED <<evs, cur, tree>>

WriteSigpipe ==
    /\ pc = "write" /\ WriteKills(Conn)
    /\ pc' = "dead"
    /\ UNCHANGED <<echoVars, evs, cur, tree>>

-----------------------------------------------------------------------------
(* The one place where the server waits for a single client. *)
Stalled == pc = "write" /\ Conn \in Lazy /\ end[Conn] # "broken" /\ out[Conn] = SndBuf

Server ==
    \/ EpollWait \/ BatchDone \/ AcceptEvent \/ AcceptFails \/ StartEvent
    \/ ReadData \/ ReadError \/ ReadEof \/ Write \/ WriteSigpipe

Next == Server \/ \E c \in Conns : Client(c)

Spec == Init /\ [][Next]_vars

(* The server runs when it can, and clients read their answers.            *)
FairSpec == Spec /\ WF_vars(Server) /\ \A c \in Conns : WF_vars(Consume(c) /\ Client(c))

-----------------------------------------------------------------------------
(* Properties.                                                             *)

(* The type invariant. *)
TypeOK ==
    /\ EchoTypeOK
    /\ pc \in {"wait", "next", "read", "write", "dead"}
    /\ evs \subseteq Fds \cup {LFd}
    /\ cur \in Fds \cup {LFd}
    /\ tree \subseteq Fds

(* The descriptors of this server block, and yet read() never waits: an    *)
(* event is still true when it is handled, whatever was closed, accepted   *)
(* or abandoned since epoll_wait() (demo02.c:44-89).                       *)
ReadNeverBlocks == pc = "read" => Conn # NoConn /\ Readable(Conn)

(* A connection the server no longer watches is one that was reset: the    *)
(* leak of demo02.c:71-75 is the only one.                                 *)
LeaksOnlyResets == \A f \in OpenFds \ tree : end[fdtab[f]] = "broken"

(* Whoever waits in a batch that is abandoned (demo02.c:81) is served      *)
(* later: everybody who sent something is read, unless the server is gone  *)
(* or stands in write() before a client that never reads.                  *)
DataTaken ==
    \A c \in Conns :
        (phase[c] = "open" /\ Avail(c) > 0) ~> (Avail(c) = 0 \/ pc = "dead" \/ Stalled)

(* What StreamService allows, resets left open included. *)
Abstract == INSTANCE StreamService WITH up <- (pc # "dead")

Implements == Abstract!Spec
=============================================================================
