------------------------------ MODULE EpollET ------------------------------
(***************************************************************************)
(* The edge-triggered reader, demo03.c: epoll reports a connection once    *)
(* per arrival, so the program has to read until EAGAIN or lose what is    *)
(* left.  It prints what it reads and answers nothing.                     *)
(***************************************************************************)
EXTENDS Sockets

CONSTANTS
    LFd,        \* the listening descriptor
    MaxSent,    \* bound: how many units each client sends
    MaxEvents,  \* eArr                                    (1024 in the code)
    BufSize     \* buf of one read()                       (4 bytes)

ASSUME EpollETAssumption ==
    /\ LFd \notin Fds
    /\ MaxSent \in [Conns -> Nat]
    /\ MaxEvents \in Nat \ {0} /\ BufSize \in Nat \ {0}

VARIABLES
    pc,         \* epoll_wait, the event loop, the read loop, or gone
    evs,        \* descriptors of the batch not handled yet
    cur,        \* the descriptor being read
    tree,       \* descriptors in the epoll set (the listener apart)
    ready,      \* the kernel's ready list: reported by an edge, not collected
    nonblock    \* descriptors with O_NONBLOCK

vars == <<sockVars, pc, evs, cur, tree, ready, nonblock>>

Init ==
    /\ SockInit
    /\ pc = "wait" /\ evs = {} /\ cur = LFd
    /\ tree = {} /\ ready = {} /\ nonblock = {}

-----------------------------------------------------------------------------
(* Clients.  Whatever arrives on a watched descriptor is an edge.          *)

Edge(c) == ready' = ready \cup {f \in tree : fdtab[f] = c}

Client(c) ==
    /\ \/ Connect(c) /\ UNCHANGED ready
       \/ sent[c] < MaxSent[c] /\ Deliver(c, 1) /\ Edge(c)
       \/ Fin(c) /\ Edge(c)
       \/ Abort(c) /\ Edge(c)
    /\ UNCHANGED <<pc, evs, cur, tree, nonblock>>

-----------------------------------------------------------------------------
(* epoll_wait() hands out the descriptors of the ready list that still     *)
(* have something, and takes them off it; the listener is level-triggered. *)
Reportable ==
    {f \in ready : Readable(fdtab[f])} \cup (IF Queued # {} THEN {LFd} ELSE {})

EpollWait ==
    /\ pc = "wait"
    /\ \E S \in SUBSET Reportable :
         /\ S # {} /\ Cardinality(S) <= MaxEvents
         /\ S = Reportable \/ Cardinality(S) = MaxEvents
         /\ evs' = S
         /\ ready' = {f \in ready \ S : Readable(fdtab[f])}
    /\ pc' = "next"
    /\ UNCHANGED <<sockVars, cur, tree, nonblock>>

BatchDone ==
    /\ pc = "next" /\ evs = {}
    /\ pc' = "wait"
    /\ UNCHANGED <<sockVars, evs, cur, tree, ready, nonblock>>

(* EPOLL_CTL_ADD puts a descriptor that has something on the ready list.   *)
AcceptEvent ==
    /\ pc = "next" /\ LFd \in evs
    /\ \E c \in Conns, f \in Fds :
         /\ AcceptConn(c, f)
         /\ nonblock' = nonblock \cup {f}
         /\ tree' = tree \cup {f}
         /\ ready' = ready \cup (IF Readable(c) THEN {f} ELSE {})
    /\ evs' = evs \ {LFd}
    /\ UNCHANGED <<pc, cur>>

AcceptFails ==
    /\ pc = "next" /\ LFd \in evs
    /\ Free = {}
    /\ pc' = "exit"
    /\ UNCHANGED <<sockVars, evs, cur, tree, ready, nonblock>>

(* Slip: the loop goes on without leaving the event. *)
StartEventAgain ==
    /\ pc = "next"
    /\ \E f \in evs \ {LFd} : cur' = f
    /\ pc' = "read"
    /\ UNCHANGED <<sockVars, evs, tree, ready, nonblock>>

StartEvent ==
    /\ pc = "next"
    /\ \E f \in evs \ {LFd} : cur' = f /\ evs' = evs \ {f}
    /\ pc' = "read"
    /\ UNCHANGED <<sockVars, tree, ready, nonblock>>

-----------------------------------------------------------------------------
(* while (1) read(): until EAGAIN or end of file.                          *)

Conn == fdtab[cur]

(* Slip: one read() per event, as in the level-triggered demo. *)
ReadOnce ==
    /\ pc = "read" /\ HasData(Conn)
    /\ TakeData(Conn, ReadSize(Conn, BufSize))
    /\ pc' = "next"
    /\ UNCHANGED <<evs, cur, tree, ready, nonblock>>

ReadSome ==
    /\ pc = "read" /\ HasData(Conn)
    /\ TakeData(Conn, ReadSize(Conn, BufSize))
    /\ UNCHANGED <<pc, evs, cur, tree, ready, nonblock>>

ReadAgain ==
    /\ pc = "read" /\ WouldBlock(Conn) /\ cur \in nonblock
    /\ pc' = "next"
    /\ UNCHANGED <<sockVars, evs, cur, tree, ready, nonblock>>

(* Slip: the loop left at an error, too. *)
ErrorBreaks ==
    /\ pc = "read" /\ HasError(Conn)
    /\ TakeError(Conn)
    /\ tree' = tree \ {cur} /\ ready' = ready \ {cur}
    /\ pc' = "next"
    /\ UNCHANGED <<evs, cur, nonblock>>

(* A reset: off the tree, and around again -- the next read() is the end   *)
(* of file that closes the descriptor.                                     *)
ReadError ==
    /\ pc = "read" /\ HasError(Conn)
    /\ TakeError(Conn)
    /\ tree' = tree \ {cur} /\ ready' = ready \ {cur}
    /\ UNCHANGED <<pc, evs, cur, nonblock>>

ReadEof ==
    /\ pc = "read" /\ AtEof(Conn)
    /\ CloseFd(cur)
    /\ tree' = tree \ {cur} /\ ready' = ready \ {cur} /\ nonblock' = nonblock \ {cur}
    /\ pc' = "next"
    /\ UNCHANGED <<evs, cur>>

-----------------------------------------------------------------------------
Server ==
    \/ EpollWait \/ BatchDone \/ AcceptEvent \/ AcceptFails \/ StartEvent
    \/ ReadSome \/ ReadAgain \/ ReadError \/ ReadEof

Next == Server \/ \E c \in Conns : Client(c)

Spec == Init /\ [][Next]_vars

FairSpec == Spec /\ WF_vars(Server)

-----------------------------------------------------------------------------
(* Properties.                                                             *)

(* The type invariant. *)
TypeOK ==
    /\ SockTypeOK
    /\ pc \in {"wait", "next", "read", "exit"}
    /\ evs \subseteq Fds \cup {LFd}
    /\ cur \in Fds \cup {LFd}
    /\ tree \subseteq Fds /\ ready \subseteq Fds /\ nonblock \subseteq Fds

(* No edge is lost: when the server waits, a watched connection with       *)
(* something to read, or an end to notice, is on the ready list, however   *)
(* much arrived while the loop was reading (demo03.c:73-84).               *)
NoLostEdge ==
    pc = "wait" =>
        \A f \in OpenFds : Readable(fdtab[f]) => f \in ready

(* The batch outlives closes and accepts: every descriptor in it is open,  *)
(* and the one being read is not in it any more.                           *)
BatchIsOpen ==
    /\ evs \ {LFd} \subseteq OpenFds
    /\ pc = "read" => cur \in OpenFds \ evs

(* The promise of StreamService. *)
Abstract == INSTANCE StreamService WITH up <- (pc # "exit")

Implements == Abstract!FairSpec
=============================================================================
