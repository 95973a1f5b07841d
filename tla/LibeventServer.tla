--------------------------- MODULE LibeventServer ---------------------------
(***************************************************************************)
(* The echo server libeventServer.c: one persistent libevent event per     *)
(* descriptor, and a table of its own, FdArr, to find the event of a       *)
(* client that has left.  Neither the table entry nor the descriptor is    *)
(* ever given back, so the table is full once MaxEvent - 1 clients came.   *)
(***************************************************************************)
EXTENDS EchoSockets

CONSTANTS
    MaxEvent,   \* entries of FdArr (_MAXEVENT_, 1024)
    BufSize,    \* what one Read() takes (1500 bytes)
    LFd,        \* the listening descriptor
    None        \* no descriptor, no event

ASSUME TableAssumption ==
    /\ MaxEvent \in Nat \ {0} /\ BufSize \in Nat \ {0}
    /\ LFd \notin Fds /\ None \notin Fds \cup {LFd}

VARIABLES
    FdArr,      \* FdArr[s]: the descriptor and the event of entry s
    tree,       \* events added to the event base
    cur         \* the descriptor Write() stands at, LFd in the loop, None: gone

tableVars == <<FdArr, tree, cur>>
vars == <<echoVars, tableVars>>

Slots == 1..MaxEvent

Unused == [fd |-> None, ev |-> None]

(* An event is what event_new() was given: a descriptor and, since numbers *)
(* name connections, the connection behind it.                             *)
Event(f, c) == [fd |-> f, conn |-> c]

Listen == Event(LFd, NoConn)

FirstUnused(s) == FdArr[s].fd = None /\ \A t \in 1..(s-1) : FdArr[t].fd # None

(* Slip: the entry after the first unused one. *)
AddEventAfter(f, e) ==
    FdArr' = [s \in Slots |-> IF s > 1 /\ FirstUnused(s-1) THEN [fd |-> f, ev |-> e] ELSE FdArr[s]]

(* Nothing happens without an unused entry: -1, which nobody looks at.     *)
AddEvent(f, e) ==
    FdArr' = [s \in Slots |-> IF FirstUnused(s) THEN [fd |-> f, ev |-> e] ELSE FdArr[s]]

(* The entries getEvent(f) may stop at, the first one.                     *)
FoundAt(f) == {s \in Slots : FdArr[s].fd = f /\ \A t \in 1..(s-1) : FdArr[t].fd # f}

Init ==
    /\ EchoInit
    /\ FdArr = [s \in Slots |-> IF s = 1 THEN [fd |-> LFd, ev |-> Listen] ELSE Unused]
    /\ tree = {Listen} /\ cur = LFd

Client(c) ==
    /\ ClientActs(c) \/ Consume(c)
    /\ UNCHANGED tableVars

-----------------------------------------------------------------------------
Listening == cur = LFd /\ Listen \in tree

Lfdcb ==
    /\ Listening
    /\ \E c \in Conns, f \in Fds :
         /\ AcceptConn(c, f)
         /\ AddEvent(f, Event(f, c))
         /\ tree' = tree \cup {Event(f, c)}
    /\ UNCHANGED <<out, cur>>

(* EMFILE: Accept() ends the program.                                      *)
LfdcbFails ==
    /\ Listening
    /\ Queued # {} /\ Free = {}
    /\ cur' = None
    /\ UNCHANGED <<echoVars, FdArr, tree>>

Ready(e) == cur = LFd /\ e \in tree /\ e # Listen /\ Readable(fdtab[e.fd])

CfdcbData(e) ==
    /\ Ready(e) /\ HasData(fdtab[e.fd])
    /\ TakeData(fdtab[e.fd], ReadSize(fdtab[e.fd], BufSize))
    /\ cur' = e.fd
    /\ UNCHANGED <<out, FdArr, tree>>

(* Slip: a hang-up closes the descriptor; its entry stays. *)
CloseOnHangup(e) ==
    /\ Ready(e) /\ end[fdtab[e.fd]] # "none"
    /\ CloseFd(e.fd)
    /\ tree' = tree \ {FdArr[s].ev : s \in FoundAt(e.fd)}
    /\ UNCHANGED <<out, FdArr, cur>>

(* event_del(getEvent(f)).  getEvent() falls off its end when it finds no  *)
(* entry: event_del() is then given the address of some event ...          *)
EventDel(f) ==
    \E x \in IF FoundAt(f) = {} THEN tree ELSE {FdArr[s].ev : s \in FoundAt(f)} :
        tree' = tree \ {x}

(* n <= 0: the event is deleted, nothing else.                             *)
CfdcbEnd(e) ==
    /\ Ready(e) /\ ~HasData(fdtab[e.fd])
    /\ TakeError(fdtab[e.fd])
    /\ EventDel(e.fd)
    /\ UNCHANGED <<out, FdArr, cur>>

(* ... or no address of one, and crashes.                                  *)
CfdcbCrash(e) ==
    /\ Ready(e) /\ ~HasData(fdtab[e.fd]) /\ FoundAt(e.fd) = {}
    /\ cur' = None
    /\ UNCHANGED <<echoVars, FdArr, tree>>

Conn == fdtab[cur]

CfdcbWrite ==
    /\ cur \in Fds
    /\ WriteOk(Conn) \/ WriteReset(Conn)
    /\ cur' = LFd
    /\ UNCHANGED <<FdArr, tree>>

CfdcbSigpipe ==
    /\ cur \in Fds /\ WriteKills(Conn)
    /\ cur' = None
    /\ UNCHANGED <<echoVars, FdArr, tree>>

Cfdcb(e) == CfdcbData(e) \/ CfdcbEnd(e) \/ CfdcbCrash(e)
Listener == Lfdcb \/ LfdcbFails
Writer == CfdcbWrite \/ CfdcbSigpipe

Next ==
    \/ Listener \/ Writer
    \/ \E e \in tree : Cfdcb(e)
    \/ \E c \in Conns : Client(c)

Spec == Init /\ [][Next]_vars

(* Events that can come to be.                                             *)
Events == [fd : Fds, conn : Conns]

-----------------------------------------------------------------------------
(* Properties.                                                             *)

(* A client the table had no entry left for (addEvent() answers -1).       *)
Lost(f) == FoundAt(f) = {} /\ \A s \in Slots : FdArr[s].fd # None

(* getEvent() finds the event of a client that is in the table, and only   *)
(* that one; only a full table lacks one.  So event_del() of a client that *)
(* left (libeventServer.c:67) silences nobody who is still there, until    *)
(* the table has overflown: its entries are never given back, and would    *)
(* answer with a dead event if a number came a second time.                *)
GetEventRight ==
    \A f \in OpenFds :
        /\ Lost(f) \/ {FdArr[s].ev : s \in FoundAt(f)} = {Event(f, fdtab[f])}
        /\ \/ Event(f, fdtab[f]) \in tree
           \/ end[fdtab[f]] # "none"
           \/ \E g \in OpenFds : Lost(g)

(* The promise of StreamService, without its fairness: this program closes *)
(* nothing.                                                                *)
Stream == INSTANCE StreamService WITH up <- (cur # None)

StreamKept == Stream!Spec

Stuck == cur \in Fds /\ Conn \in Lazy /\ end[Conn] # "broken" /\ out[Conn] = SndBuf

(* Whoever has sent something or left is noticed, unless the server is     *)
(* gone (out of descriptors, SIGPIPE), stands in Write() or has lost a     *)
(* client to a full table.                                                 *)
Noticed ==
    \A c \in Conns : (phase[c] # "idle" /\ Readable(c)) ~>
        (cur = None \/ Stuck \/ (\E f \in OpenFds : Lost(f)) \/ (Avail(c) = 0 /\ \A e \in tree : e.conn = c => end[c] = "none"))
=============================================================================
