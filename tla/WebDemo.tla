------------------------------ MODULE WebDemo ------------------------------
(***************************************************************************)
(* The small epoll echo server webdemo01.c: one Read() of a blocking       *)
(* descriptor per event, what was read written to the terminal and back.   *)
(***************************************************************************)
EXTENDS EchoSockets

CONSTANTS
    LFd,        \* the listening descriptor
    BufSize     \* buf of one Read()                       (1024 bytes)

VARIABLES
    pc,         \* epoll_wait, the event loop, the Write() back, or gone
    evs,        \* descriptors of the batch not handled yet
    cur,        \* the descriptor at hand
    tree        \* descriptors in the epoll set (the listener apart)

vars == <<echoVars, pc, evs, cur, tree>>

Init == EchoInit /\ pc = "wait" /\ evs = {} /\ cur = LFd /\ tree = {}

Client(c) == (ClientActs(c) \/ Consume(c)) /\ UNCHANGED <<pc, evs, cur, tree>>

-----------------------------------------------------------------------------
(* events[] takes 1024, more than there are descriptors.                   *)
Reportable == {f \in tree : Readable(fdtab[f])} \cup (IF Queued # {} THEN {LFd} ELSE {})

EpollWait ==
    /\ pc = "wait" /\ Reportable # {}
    /\ evs' = Reportable
    /\ pc' = "next"
    /\ UNCHANGED <<echoVars, cur, tree>>

BatchDone == pc = "next" /\ evs = {} /\ pc' = "wait" /\ UNCHANGED <<echoVars, evs, cur, tree>>

Accepting == pc = "next" /\ LFd \in evs

AcceptEvent ==
    /\ Accepting
    /\ \E c \in Conns, f \in Fds : AcceptConn(c, f) /\ tree' = tree \cup {f}
    /\ evs' = evs \ {LFd}
    /\ UNCHANGED <<out, pc, cur>>

(* Out of descriptors or memory: Accept() ends the program.                *)
AcceptFails == Accepting /\ pc' = "dead" /\ UNCHANGED <<echoVars, evs, cur, tree>>

Handle(f) == pc = "next" /\ f \in evs \ {LFd} /\ evs' = evs \ {f}

ReadData(f) ==
    /\ Handle(f) /\ HasData(fdtab[f])
    /\ TakeData(fdtab[f], ReadSize(fdtab[f], BufSize))
    /\ cur' = f /\ pc' = "write"
    /\ UNCHANGED <<out, tree>>

(* Slip: an error that closes without a look at what is left. *)
ReadErrorCloses(f) ==
    /\ Handle(f) /\ end[fdtab[f]] = "rst"
    /\ CloseFd(f)
    /\ tree' = tree \ {f}
    /\ UNCHANGED <<out, pc, cur>>

(* len = -1: both Write()s of that length fail in the kernel, before the   *)
(* connection is looked at; the end of file comes with the next batch.     *)
ReadError(f) ==
    /\ Handle(f) /\ HasError(fdtab[f])
    /\ TakeError(fdtab[f])
    /\ UNCHANGED <<out, pc, cur, tree>>

ReadEof(f) ==
    /\ Handle(f) /\ AtEof(fdtab[f])
    /\ CloseFd(f)
    /\ tree' = tree \ {f}
    /\ UNCHANGED <<out, pc, cur>>

Write ==
    /\ pc = "write"
    /\ WriteOk(fdtab[cur]) \/ WriteReset(fdtab[cur])
    /\ pc' = "next"
    /\ UNCHANGED <<evs, cur, tree>>

WriteSigpipe ==
    /\ pc = "write" /\ WriteKills(fdtab[cur])
    /\ pc' = "dead"
    /\ UNCHANGED <<echoVars, evs, cur, tree>>

-----------------------------------------------------------------------------
Event(f) == ReadData(f) \/ ReadError(f) \/ ReadEof(f)

Server ==
    \/ EpollWait \/ BatchDone \/ AcceptEvent \/ AcceptFails
    \/ \E f \in Fds : Event(f)
    \/ Write \/ WriteSigpipe

Next == Server \/ \E c \in Conns : Client(c)

(* Write() waits for a client that does not read. *)
Stalled ==
    /\ pc = "write" /\ cur \in OpenFds
    /\ LET c == fdtab[cur] IN c \in Lazy /\ end[c] # "broken" /\ out[c] = SndBuf

-----------------------------------------------------------------------------
(* Properties.                                                             *)

(* The promise of StreamService: nothing is dropped or closed too early,   *)
(* though a reset connection is closed one round later than it is noticed  *)
(* (webdemo01.c:49-62).                                                    *)
Abstract == INSTANCE StreamService WITH up <- (pc # "dead")

Implements == Abstract!Spec

(* Everything sent is taken and every end is noticed, unless the server is *)
(* gone or stands in Write() before a client that never reads.             *)
Served ==
    \A c \in Conns :
        (phase[c] # "idle" /\ (Avail(c) > 0 \/ end[c] # "none"))
            ~> (pc = "dead" \/ Stalled \/ (Avail(c) = 0 /\ (end[c] = "none" \/ phase[c] = "closed")))
=============================================================================
