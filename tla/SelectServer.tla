---------------------------- MODULE SelectServer ----------------------------
(***************************************************************************)
(* The select server, selectFun.c: oldSet is what it watches, rest is the  *)
(* copy that select() reduces to what is ready, scanned from the listener  *)
(* up to maxFd.                                                            *)
(***************************************************************************)
EXTENDS EchoSockets

CONSTANTS
    LFd,        \* the listening descriptor
    BufSize     \* buf of one read()                      (1500 bytes)

ASSUME SelectAssumption ==
    /\ LFd \in Nat /\ \A f \in Fds : LFd < f
    /\ BufSize \in Nat \ {0}

VARIABLES
    pc,         \* select(), accept, the scan, Write(), or gone
    oldSet,     \* clients watched
    rest,       \* what select() reported
    maxFd,      \* largest descriptor ever watched
    n,          \* how many select() reported, counted down by the accept
    i           \* the descriptor the scan is at

selectVars == <<pc, oldSet, rest, maxFd, n, i>>
vars == <<echoVars, selectVars>>

Init ==
    /\ EchoInit
    /\ pc = "select"
    /\ oldSet = {} /\ rest = {}
    /\ maxFd = LFd /\ n = 0 /\ i = LFd + 1

Client(c) ==
    /\ ClientActs(c) \/ Consume(c)
    /\ UNCHANGED selectVars

-----------------------------------------------------------------------------
(* Slip: the set of the last round used again as it is. *)
SelectOnRest ==
    /\ pc = "select"
    /\ LET R == {f \in rest \cap oldSet : f <= maxFd /\ Readable(fdtab[f])}
       IN /\ Queued # {} \/ R # {}
          /\ rest' = R
          /\ n' = Cardinality(R) + (IF Queued # {} THEN 1 ELSE 0)
    /\ pc' = IF Queued # {} THEN "accept" ELSE "scan"
    /\ i' = LFd + 1
    /\ UNCHANGED <<echoVars, oldSet, maxFd>>

Select ==
    /\ pc = "select"
    /\ LET R == {f \in oldSet : f <= maxFd /\ Readable(fdtab[f])}
       IN /\ Queued # {} \/ R # {}
          /\ rest' = R
          /\ n' = Cardinality(R) + (IF Queued # {} THEN 1 ELSE 0)
    /\ pc' = IF Queued # {} THEN "accept" ELSE "scan"
    /\ i' = LFd + 1
    /\ UNCHANGED <<echoVars, oldSet, maxFd>>

(* Slip: maxFd follows the newest descriptor down. *)
AcceptLowersMax ==
    /\ pc = "accept"
    /\ \E c \in Conns, f \in Fds :
         /\ AcceptConn(c, f)
         /\ oldSet' = oldSet \cup {f}
         /\ maxFd' = f
    /\ n' = n - 1
    /\ pc' = IF n = 1 THEN "select" ELSE "scan"
    /\ UNCHANGED <<out, rest, i>>

(* Slip: the newcomer put into the set that is about to be scanned. *)
AcceptIntoRest ==
    /\ pc = "accept"
    /\ \E c \in Conns, f \in Fds :
         /\ AcceptConn(c, f)
         /\ oldSet' = oldSet \cup {f} /\ rest' = rest \cup {f}
         /\ maxFd' = IF f > maxFd THEN f ELSE maxFd
    /\ n' = n - 1
    /\ pc' = IF n = 1 THEN "select" ELSE "scan"
    /\ UNCHANGED <<out, i>>

Accept ==
    /\ pc = "accept"
    /\ \E c \in Conns, f \in Fds :
         /\ AcceptConn(c, f)
         /\ oldSet' = oldSet \cup {f}
         /\ maxFd' = IF f > maxFd THEN f ELSE maxFd
    /\ n' = n - 1
    /\ pc' = IF n = 1 THEN "select" ELSE "scan"
    /\ UNCHANGED <<out, rest, i>>

AcceptFails ==
    /\ pc = "accept"
    /\ Free = {}
    /\ pc' = "dead"
    /\ UNCHANGED <<echoVars, oldSet, rest, maxFd, n, i>>

-----------------------------------------------------------------------------
Skip ==
    /\ pc = "scan" /\ i <= maxFd /\ i \notin rest
    /\ i' = i + 1
    /\ UNCHANGED <<echoVars, pc, oldSet, rest, maxFd, n>>

ScanDone ==
    /\ pc = "scan" /\ i > maxFd
    /\ pc' = "select"
    /\ UNCHANGED <<echoVars, oldSet, rest, maxFd, n, i>>

Conn == fdtab[i]

Hit == pc = "scan" /\ i <= maxFd /\ i \in rest

ReadData ==
    /\ Hit /\ HasData(Conn)
    /\ TakeData(Conn, ReadSize(Conn, BufSize))
    /\ pc' = "write"
    /\ UNCHANGED <<out, oldSet, rest, maxFd, n, i>>

(* Slip: a hang-up closes before what came with it is read. *)
CloseOnHangup ==
    /\ Hit /\ end[Conn] # "none"
    /\ CloseFd(i)
    /\ oldSet' = oldSet \ {i}
    /\ i' = i + 1
    /\ UNCHANGED <<out, pc, rest, maxFd, n>>

(* ret <= 0 *)
ReadEnd ==
    /\ Hit /\ (AtEof(Conn) \/ HasError(Conn))
    /\ CloseFd(i)
    /\ oldSet' = oldSet \ {i}
    /\ i' = i + 1
    /\ UNCHANGED <<out, pc, rest, maxFd, n>>

Write ==
    /\ pc = "write"
    /\ WriteOk(Conn) \/ WriteReset(Conn)
    /\ i' = i + 1
    /\ pc' = "scan"
    /\ UNCHANGED <<oldSet, rest, maxFd, n>>

WriteSigpipe ==
    /\ pc = "write" /\ WriteKills(Conn)
    /\ pc' = "dead"
    /\ UNCHANGED <<echoVars, oldSet, rest, maxFd, n, i>>

-----------------------------------------------------------------------------
(* The one place where the server waits for a single client. *)
Stalled == pc = "write" /\ Conn \in Lazy /\ end[Conn] # "broken" /\ out[Conn] = SndBuf

Server ==
    \/ Select \/ Accept \/ AcceptFails
    \/ Skip \/ ScanDone \/ ReadData \/ ReadEnd \/ Write \/ WriteSigpipe

Next == Server \/ \E c \in Conns : Client(c)

Spec == Init /\ [][Next]_vars

(* The server runs when it can, and clients read their answers.            *)
FairSpec == Spec /\ WF_vars(Server) /\ \A c \in Conns : WF_vars(Consume(c) /\ Client(c))

-----------------------------------------------------------------------------
(* Properties.                                                             *)

(* The type invariant. *)
TypeOK ==
    /\ EchoTypeOK
    /\ pc \in {"select", "accept", "scan", "write", "dead"}
    /\ oldSet \subseteq Fds /\ rest \subseteq Fds
    /\ maxFd \in Fds \cup {LFd}
    /\ n \in Nat /\ i \in Nat

(* oldSet is exactly the open connections, and none is beyond maxFd, which *)
(* is all that select() looks at: closing, and handing the number out      *)
(* again, keep the two in step.                                            *)
WatchesAll == oldSet = OpenFds /\ \A f \in OpenFds : f <= maxFd

(* The blocking Read() is called only on a connection that is open and has *)
(* something to read, though the set it is looked up in was filled before  *)
(* the accept and the closes of this round.                                *)
ReadOnlyWhenReady == Hit => Conn # NoConn /\ Readable(Conn)

(* The promise of StreamService. *)
Abstract == INSTANCE StreamService WITH up <- (pc # "dead")

Implements == Abstract!Spec

(* Everything sent is taken and every end is noticed, unless the server is *)
(* gone or stands in Write() before a client that never reads.             *)
Served ==
    \A c \in Conns :
        (phase[c] # "idle" /\ (Avail(c) > 0 \/ end[c] # "none"))
            ~> (pc = "dead" \/ Stalled \/ (Avail(c) = 0 /\ (end[c] = "none" \/ phase[c] = "closed")))
=============================================================================
