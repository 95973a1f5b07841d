----------------------------- MODULE PollServer -----------------------------
(***************************************************************************)
(* The poll server, pollDemo.c: a fixed array of pollfd, the listener in   *)
(* slot 0, a high-water mark maxi, and the count of ready descriptors that *)
(* poll() returned, used to stop early.                                    *)
(***************************************************************************)
EXTENDS EchoSockets

CONSTANTS
    OpenMax,    \* slots of client[], the listener's included (1024)
    MaxLine,    \* buf of one read()                          (80 bytes)
    Stack,      \* what the uninitialized revents may hold
    NoFd        \* fd = -1

ASSUME PollAssumption ==
    /\ OpenMax \in Nat \ {0, 1}
    /\ MaxLine \in Nat \ {0}
    /\ Stack \subseteq BOOLEAN
    /\ NoFd \notin Fds

Slots == 1..(OpenMax - 1)

VARIABLES
    pc,         \* poll(), accept, the scan, Read(), Write(), or gone
    client,     \* client[i].fd
    revents,    \* client[i].revents & POLLIN
    maxi,       \* largest slot ever used
    nready,     \* what poll() returned, counted down
    i           \* the slot the scan is at

pollVars == <<pc, client, revents, maxi, nready, i>>
vars == <<echoVars, pollVars>>

(* The array lives on the stack; only fd is set for slots 1 and up. *)
Init ==
    /\ EchoInit
    /\ pc = "poll"
    /\ client = [s \in Slots |-> NoFd]
    /\ revents \in [Slots -> Stack]
    /\ maxi = 0 /\ nready = 0 /\ i = 1

Client(c) ==
    /\ ClientActs(c) \/ Consume(c)
    /\ UNCHANGED pollVars

-----------------------------------------------------------------------------
ReadySlots == {s \in 1..maxi : client[s] # NoFd /\ Readable(fdtab[client[s]])}

(* poll() sets revents of every slot it is given, to 0 where fd < 0. *)
Poll ==
    /\ pc = "poll"
    /\ Queued # {} \/ ReadySlots # {}
    /\ revents' = [s \in Slots |-> IF s <= maxi THEN s \in ReadySlots ELSE revents[s]]
    /\ nready' = Cardinality(ReadySlots) + (IF Queued # {} THEN 1 ELSE 0)
    /\ pc' = IF Queued # {} THEN "accept" ELSE "scan"
    /\ i' = 1
    /\ UNCHANGED <<echoVars, client, maxi>>

FirstFree(s) == client[s] = NoFd /\ \A t \in 1..(s-1) : client[t] # NoFd

(* Slip: maxi set to the slot even when it is a lower one. *)
AcceptLowersMax ==
    /\ pc = "accept"
    /\ \E c \in Conns, f \in Fds, s \in Slots :
         /\ AcceptConn(c, f)
         /\ FirstFree(s)
         /\ client' = [client EXCEPT ![s] = f]
         /\ maxi' = s
    /\ nready' = nready - 1
    /\ pc' = IF nready = 1 THEN "poll" ELSE "scan"
    /\ UNCHANGED <<out, revents, i>>

(* The first free slot; maxi follows; nothing else ready means poll again. *)
Accept ==
    /\ pc = "accept"
    /\ \E c \in Conns, f \in Fds, s \in Slots :
         /\ AcceptConn(c, f)
         /\ FirstFree(s)
         /\ client' = [client EXCEPT ![s] = f]
         /\ maxi' = IF s > maxi THEN s ELSE maxi
    /\ nready' = nready - 1
    /\ pc' = IF nready = 1 THEN "poll" ELSE "scan"
    /\ UNCHANGED <<out, revents, i>>

(* EMFILE, or every slot taken: perr_exit. *)
AcceptFails ==
    /\ pc = "accept"
    /\ Free = {} \/ \A s \in Slots : client[s] # NoFd
    /\ pc' = "dead"
    /\ UNCHANGED <<echoVars, client, revents, maxi, nready, i>>

-----------------------------------------------------------------------------
Hit(s) == client[s] # NoFd /\ revents[s]

(* for (i = 1; i <= maxi; i++): on to the next slot, or out of the loop. *)
NextSlot(stop) ==
    /\ i' = i + 1
    /\ pc' = IF stop \/ i = maxi THEN "poll" ELSE "scan"

Skip ==
    /\ pc = "scan" /\ ~Hit(i)
    /\ NextSlot(FALSE)
    /\ UNCHANGED <<echoVars, client, revents, maxi, nready>>

(* Slip: the scan goes on to maxi. *)
HandledOn ==
    /\ nready' = nready - 1
    /\ NextSlot(FALSE)

(* if (--nready <= 0) break; *)
Handled ==
    /\ nready' = nready - 1
    /\ NextSlot(nready <= 1)

Conn == fdtab[client[i]]

(* Read() waits while there is nothing: no action of this group is enabled *)
(* then.                                                                   *)
ReadData ==
    /\ pc = "scan" /\ Hit(i) /\ HasData(Conn)
    /\ TakeData(Conn, ReadSize(Conn, MaxLine))
    /\ pc' = "write"
    /\ UNCHANGED <<out, client, revents, maxi, nready, i>>

(* Slip: a hang-up closes before what came with it is read. *)
CloseOnHangup ==
    /\ pc = "scan" /\ Hit(i) /\ end[Conn] # "none"
    /\ CloseFd(client[i])
    /\ client' = [client EXCEPT ![i] = NoFd]
    /\ Handled
    /\ UNCHANGED <<out, revents, maxi>>

(* Slip: the slot cleared, the descriptor left open. *)
SlotOnly ==
    /\ pc = "scan" /\ Hit(i) /\ (AtEof(Conn) \/ HasError(Conn))
    /\ client' = [client EXCEPT ![i] = NoFd]
    /\ Handled
    /\ UNCHANGED <<echoVars, revents, maxi>>

(* n = 0, and n < 0 with ECONNRESET. *)
ReadEnd ==
    /\ pc = "scan" /\ Hit(i) /\ (AtEof(Conn) \/ HasError(Conn))
    /\ CloseFd(client[i])
    /\ client' = [client EXCEPT ![i] = NoFd]
    /\ Handled
    /\ UNCHANGED <<out, revents, maxi>>

Write ==
    /\ pc = "write"
    /\ WriteOk(Conn) \/ WriteReset(Conn)
    /\ Handled
    /\ UNCHANGED <<client, revents, maxi>>

WriteSigpipe ==
    /\ pc = "write" /\ WriteKills(Conn)
    /\ pc' = "dead"
    /\ UNCHANGED <<echoVars, client, revents, maxi, nready, i>>

-----------------------------------------------------------------------------
(* The one place where the server waits for a single client. *)
Stalled == pc = "write" /\ Conn \in Lazy /\ end[Conn] # "broken" /\ out[Conn] = SndBuf

Server ==
    \/ Poll \/ Accept \/ AcceptFails
    \/ Skip \/ ReadData \/ ReadEnd \/ Write \/ WriteSigpipe

Next == Server \/ \E c \in Conns : Client(c)

Spec == Init /\ [][Next]_vars

(* The server runs when it can, and clients read their answers.            *)
FairSpec == Spec /\ WF_vars(Server) /\ \A c \in Conns : WF_vars(Consume(c) /\ Client(c))

-----------------------------------------------------------------------------
(* Properties.                                                             *)

(* The type invariant. *)
TypeOK ==
    /\ EchoTypeOK
    /\ pc \in {"poll", "accept", "scan", "write", "dead"}
    /\ client \in [Slots -> Fds \cup {NoFd}]
    /\ revents \in [Slots -> BOOLEAN]
    /\ maxi \in 0..(OpenMax - 1)
    /\ nready \in Nat
    /\ i \in 1..OpenMax

(* The array is the list of open connections: every one has exactly one    *)
(* slot, below the high-water mark that poll() is given.                   *)
SlotsMatch ==
    /\ \A f \in OpenFds : \E s \in 1..maxi : client[s] = f
    /\ \A s \in Slots : client[s] # NoFd => client[s] \in OpenFds
    /\ \A s, t \in Slots : client[s] = client[t] /\ client[s] # NoFd => s = t

(* "sockfd is ready" (pollDemo.c:105): the blocking Read() is called only  *)
(* on a connection that has something to read.  A slot used for the first  *)
(* time holds whatever was on the stack as its revents (pollDemo.c:25,     *)
(* 66-93); that the count stops the scan (136) before it gets there is all *)
(* that keeps Read() from waiting on a silent client.                      *)
ReadOnlyWhenReady == pc = "scan" /\ Hit(i) => Readable(Conn)

(* The promise of StreamService. *)
Abstract == INSTANCE StreamService WITH up <- (pc # "dead")

Implements == Abstract!Spec

(* Everything sent is taken and every end is noticed, unless the server is *)
(* gone or stands in Write() before a client that never reads.             *)
Served ==
    \A c \in Conns :
        (phase[c] # "idle" /\ (Avail(c) > 0 \/ end[c] # "none"))
            ~> (pc = "dead" \/ Stalled \/ (Avail(c) = 0 /\ (end[c] = "none" \/ phase[c] = "closed")))
=============================================================================
