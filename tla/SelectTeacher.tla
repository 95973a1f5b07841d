--------------------------- MODULE SelectTeacher ---------------------------
(***************************************************************************)
(* The other select server, selectFunTeacher.c.  oldset is what it         *)
(* watches, rset what select() leaves of a copy of it.                     *)
(***************************************************************************)
EXTENDS EchoSockets

CONSTANTS
    LFd,        \* the listening descriptor
    BufSize     \* buf of one Read()                       (1500 bytes)

VARIABLES
    pc,         \* select(), accept, the scan, Write(), or gone
    oldset, rset, maxfd,
    n,          \* what select() returned, less the listener
    i           \* where the scan is

scanVars == <<pc, oldset, rset, maxfd, n, i>>
vars == <<echoVars, scanVars>>

Init ==
    /\ EchoInit
    /\ pc = "wait" /\ oldset = {} /\ rset = {}
    /\ maxfd = LFd /\ n = 0 /\ i = LFd + 1

Client(c) == (ClientActs(c) \/ Consume(c)) /\ UNCHANGED scanVars

-----------------------------------------------------------------------------
Ready == {f \in oldset : f <= maxfd /\ Readable(fdtab[f])}

Select ==
    /\ pc = "wait" /\ (Queued # {} \/ Ready # {})
    /\ rset' = Ready
    /\ n' = Cardinality(Ready)
    /\ pc' = IF Queued # {} THEN "accept" ELSE "scan"
    /\ i' = LFd + 1
    /\ UNCHANGED <<echoVars, oldset, maxfd>>

(* With nothing else ready, back to select(). *)
Accept ==
    /\ pc = "accept"
    /\ \E c \in Conns, f \in Fds :
         /\ AcceptConn(c, f)
         /\ oldset' = oldset \cup {f}
         /\ maxfd' = IF f > maxfd THEN f ELSE maxfd
    /\ pc' = IF n = 0 THEN "wait" ELSE "scan"
    /\ UNCHANGED <<out, rset, n, i>>

(* Out of descriptors or memory: Accept() ends the program.                *)
AcceptFails == pc = "accept" /\ pc' = "dead" /\ UNCHANGED <<echoVars, oldset, rset, maxfd, n, i>>

Skip ==
    /\ pc = "scan" /\ i \notin rset
    /\ IF i <= maxfd THEN i' = i + 1 /\ pc' = pc ELSE i' = i /\ pc' = "wait"
    /\ UNCHANGED <<echoVars, oldset, rset, maxfd, n>>

Hit == pc = "scan" /\ i <= maxfd /\ i \in rset

ReadData ==
    /\ Hit /\ HasData(fdtab[i])
    /\ TakeData(fdtab[i], ReadSize(fdtab[i], BufSize))
    /\ pc' = "write"
    /\ UNCHANGED <<out, oldset, rset, maxfd, n, i>>

(* Slip: maxfd lowered with the client that leaves. *)
EndLowersMax ==
    /\ Hit /\ (AtEof(fdtab[i]) \/ HasError(fdtab[i]))
    /\ CloseFd(i)
    /\ oldset' = oldset \ {i} /\ maxfd' = i - 1
    /\ i' = i + 1
    /\ UNCHANGED <<out, pc, rset, n>>

(* An error and an end of file leave by the same three lines. *)
ReadEnd ==
    /\ Hit /\ (AtEof(fdtab[i]) \/ HasError(fdtab[i]))
    /\ CloseFd(i)
    /\ oldset' = oldset \ {i}
    /\ i' = i + 1
    /\ UNCHANGED <<out, pc, rset, maxfd, n>>

Write ==
    /\ pc = "write"
    /\ WriteOk(fdtab[i]) \/ WriteReset(fdtab[i])
    /\ i' = i + 1 /\ pc' = "scan"
    /\ UNCHANGED <<oldset, rset, maxfd, n>>

WriteSigpipe ==
    /\ pc = "write" /\ WriteKills(fdtab[i])
    /\ pc' = "dead"
    /\ UNCHANGED <<echoVars, oldset, rset, maxfd, n, i>>

-----------------------------------------------------------------------------
Server ==
    \/ Select \/ Accept \/ AcceptFails \/ Skip
    \/ ReadData \/ ReadEnd \/ Write \/ WriteSigpipe

Next == Server \/ \E c \in Conns : Client(c)

(* Write() waits for a client that does not read. *)
Stalled ==
    /\ pc = "write" /\ i \in OpenFds
    /\ LET c == fdtab[i] IN c \in Lazy /\ end[c] # "broken" /\ out[c] = SndBuf

-----------------------------------------------------------------------------
(* Properties.                                                             *)

(* The promise of StreamService: data that came before an error is taken   *)
(* before the close (selectFunTeacher.c:81-94).                            *)
Abstract == INSTANCE StreamService WITH up <- (pc # "dead")

Implements == Abstract!Spec

(* Everything sent is taken and every end is noticed, unless the server is *)
(* gone or stands in Write() before a client that never reads.             *)
Served ==
    \A c \in Conns :
        (phase[c] # "idle" /\ (Avail(c) > 0 \/ end[c] # "none"))
            ~> (pc = "dead" \/ Stalled \/ (Avail(c) = 0 /\ (end[c] = "none" \/ phase[c] = "closed")))
=============================================================================
