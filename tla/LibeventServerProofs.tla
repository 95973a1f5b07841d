------------------------ MODULE LibeventServerProofs ------------------------
(***************************************************************************)
(* The table server, for every number of clients, descriptors and entries  *)
(* of its table: getEvent() answers with the event of the client asked for *)
(* or the table is full, and the server takes what was sent, in order.     *)
(* The bufferevent                                                         *)
(* programs, for every client and every cut of what it sends: browsers get *)
(* the page they named, and greeters echo in order.                        *)
(***************************************************************************)
EXTENDS MCLibevent, SequenceTheorems, FiniteSetTheorems, TLAPS

TypeOK ==
    /\ EchoTypeOK
    /\ FdArr \in [Slots -> [fd : Fds \cup {LFd, None},
                            ev : [fd : Fds \cup {LFd}, conn : Conns \cup {NoConn}] \cup {None}]]
    /\ tree \subseteq Events \cup {Listen}
    /\ cur \in Fds \cup {LFd, None}

(* The table is filled from the front; no descriptor is in it twice, and   *)
(* every open one is in it, with its own event, or came when it was full.  *)
TableInv ==
    /\ \E n \in Slots : \A s \in Slots : FdArr[s].fd = None <=> s > n
    /\ \A s, t \in Slots : FdArr[s].fd = FdArr[t].fd /\ FdArr[s].fd # None => s = t
    /\ \A s \in Slots : FdArr[s].fd \in OpenFds \cup {LFd, None}
    /\ \A f \in OpenFds :
         Lost(f) \/ \E s \in Slots : FdArr[s] = [fd |-> f, ev |-> Event(f, fdtab[f])]

(* What the base holds, and what Write() stands at, is open.               *)
OpenInv ==
    /\ \A e \in tree : e = Listen \/ (e.fd \in OpenFds /\ e = Event(e.fd, fdtab[e.fd]))
    /\ cur \in OpenFds \cup {LFd, None}
    /\ \A f \in OpenFds : phase[fdtab[f]] = "open"

SomeLost == \E g \in OpenFds : Lost(g)

(* Who is there has its event, until the table has overflown.              *)
HeardInv ==
    \A f \in OpenFds : Event(f, fdtab[f]) \in tree \/ end[fdtab[f]] # "none" \/ SomeLost

IInv == TypeOK /\ TableInv /\ OpenInv /\ HeardInv

-----------------------------------------------------------------------------
LEMMA Constants ==
    /\ NoConn \notin Conns /\ LFd \notin Fds /\ None \notin Fds /\ None # LFd
    /\ BufSize \in Nat /\ BufSize > 0
    /\ MaxEvent \in Nat /\ MaxEvent > 0 /\ 1 \in Slots
BY SocketsAssumption, TableAssumption DEF Slots

(* The invariant holds initially. *)
LEMMA InitInv == Init => IInv
<1> SUFFICES ASSUME Init PROVE IInv
  OBVIOUS
<1> USE Constants
<1>1. EchoTypeOK /\ OpenFds = {}
  BY DEF Init, EchoInit, SockInit, EchoTypeOK, SockTypeOK, Phases, Ends, OpenFds
<1>2. /\ FdArr[1] = [fd |-> LFd, ev |-> Event(LFd, NoConn)]
      /\ \A s \in Slots \ {1} : FdArr[s] = [fd |-> None, ev |-> None]
      /\ tree = {Listen} /\ cur = LFd
  BY DEF Init, Unused, Listen
<1>3. FdArr[1].fd = LFd /\ \A s \in Slots \ {1} : FdArr[s].fd = None
  BY <1>2
<1>4. TypeOK
  <2>1. \A s \in Slots :
          FdArr[s] \in [fd : Fds \cup {LFd, None},
                        ev : [fd : Fds \cup {LFd}, conn : Conns \cup {NoConn}] \cup {None}]
    BY <1>2 DEF Event
  <2>2. FdArr = [s \in Slots |-> FdArr[s]]
    BY DEF Init
  <2> QED BY <1>1, <1>2, <2>1, <2>2 DEF TypeOK
<1>5. TableInv
  <2>1. \A s \in Slots : FdArr[s].fd = None <=> s > 1
    BY <1>3 DEF Slots
  <2> QED BY <1>1, <1>3, <2>1 DEF TableInv
<1> QED BY <1>1, <1>2, <1>4, <1>5 DEF IInv, OpenInv, HeardInv

(* Descriptors name connections. *)
LEMMA OpenType == IInv => \A f \in OpenFds : f \in Fds /\ fdtab[f] \in Conns
BY DEF IInv, TypeOK, EchoTypeOK, SockTypeOK, OpenFds

(* addEvent() takes the first unused entry, or changes nothing.            *)
LEMMA EntryTaken ==
    ASSUME IInv, NEW f \in Fds, NEW e, AddEvent(f, e)
    PROVE  \/ FdArr' = FdArr /\ \A s \in Slots : FdArr[s].fd # None
           \/ \E r \in Slots :
                /\ FdArr[r].fd = None /\ FdArr'[r] = [fd |-> f, ev |-> e]
                /\ \A s \in Slots \ {r} : FdArr'[s] = FdArr[s]
                /\ \A s \in Slots : FdArr'[s].fd = None <=> s > r
                /\ FdArr' = [s \in Slots |-> FdArr'[s]]
<1> USE Constants DEF IInv
<1>1. PICK n \in Slots : \A s \in Slots : FdArr[s].fd = None <=> s > n
  BY DEF TableInv
<1>2. FdArr' = [s \in Slots |-> IF FirstUnused(s) THEN [fd |-> f, ev |-> e] ELSE FdArr[s]]
  BY DEF AddEvent
<1>3. CASE n = MaxEvent
  <2>1. \A s \in Slots : FdArr[s].fd # None
    BY <1>1, <1>3 DEF Slots
  <2>2. \A s \in Slots : ~FirstUnused(s)
    BY <2>1 DEF FirstUnused
  <2>3. FdArr = [s \in Slots |-> FdArr[s]]
    BY DEF TypeOK
  <2> QED BY <1>2, <2>1, <2>2, <2>3
<1>4. CASE n # MaxEvent
  <2> DEFINE r == n + 1
  <2>1. r \in Slots /\ FdArr[r].fd = None
    BY <1>1, <1>4 DEF Slots
  <2>2. \A t \in 1..(r - 1) : t \in Slots /\ ~(t > n)
    BY <2>1 DEF Slots
  <2>3. FirstUnused(r)
    BY <1>1, <2>1, <2>2 DEF FirstUnused
  <2>4. \A s \in Slots : FirstUnused(s) => s = r
    <3> SUFFICES ASSUME NEW s \in Slots, FirstUnused(s) PROVE s = r
      OBVIOUS
    <3>1. s > n /\ s \in Nat /\ r \in Nat /\ n \in Nat
      BY <1>1 DEF FirstUnused, Slots
    <3>2. r \in 1..(s - 1) => FdArr[r].fd # None
      BY DEF FirstUnused
    <3> QED BY <2>1, <3>1, <3>2 DEF Slots
  <2>5. /\ FdArr'[r] = [fd |-> f, ev |-> e] /\ FdArr'[r].fd = f
        /\ \A s \in Slots \ {r} : FdArr'[s] = FdArr[s]
        /\ FdArr' = [s \in Slots |-> FdArr'[s]]
    BY <1>2, <2>1, <2>3, <2>4
  <2>6. \A s \in Slots : FdArr'[s].fd = None <=> s > r
    <3> SUFFICES ASSUME NEW s \in Slots PROVE FdArr'[s].fd = None <=> s > r
      OBVIOUS
    <3>1. CASE s = r
      BY <2>5, <3>1 DEF Slots
    <3>2. CASE s # r
      BY <1>1, <2>5, <3>2 DEF Slots
    <3> QED BY <3>1, <3>2
  <2> QED BY <2>1, <2>5, <2>6
<1> QED BY <1>3, <1>4

(* The entry of an open descriptor is found, and is the only one.          *)
LEMMA Found ==
    ASSUME IInv, NEW f \in OpenFds
    PROVE  \/ Lost(f)
           \/ FoundAt(f) # {} /\ {FdArr[s].ev : s \in FoundAt(f)} = {Event(f, fdtab[f])}
<1> SUFFICES ASSUME ~Lost(f)
             PROVE  FoundAt(f) # {} /\ {FdArr[s].ev : s \in FoundAt(f)} = {Event(f, fdtab[f])}
  OBVIOUS
<1>1. PICK s \in Slots : FdArr[s] = [fd |-> f, ev |-> Event(f, fdtab[f])]
  BY DEF IInv, TableInv
<1>2. FdArr[s].fd = f /\ FdArr[s].ev = Event(f, fdtab[f]) /\ f # None
  BY <1>1, OpenType, Constants
<1>3. \A t \in Slots : FdArr[t].fd = f => t = s
  BY <1>2 DEF IInv, TableInv
<1>4. \A t \in 1..(s-1) : t \in Slots /\ t # s
  BY Constants DEF Slots
<1>5. FoundAt(f) = {s}
  BY <1>2, <1>3, <1>4 DEF FoundAt
<1> QED BY <1>2, <1>5

-----------------------------------------------------------------------------
(* Clients touch nothing of the server's. *)
LEMMA ClientStep == ASSUME IInv, NEW c \in Conns, Client(c) PROVE IInv'
<1> USE DEF IInv
<1>1. UNCHANGED <<taken, fdtab, FdArr, tree, cur>> /\ EchoTypeOK'
  BY DEF Client, tableVars, ClientActs, Consume, Connect, Deliver, Fin, Abort, sockVars,
         TypeOK, EchoTypeOK, SockTypeOK, Phases, Ends, Alive
<1>2. OpenFds' = OpenFds
  BY <1>1 DEF OpenFds
<1>3. \A d \in Conns : phase[d] = "open" => phase'[d] = "open"
  BY DEF Client, ClientActs, Consume, Connect, Deliver, Fin, Abort, sockVars,
         TypeOK, EchoTypeOK, SockTypeOK
<1>4. OpenInv'
  BY <1>1, <1>2, <1>3, OpenType DEF OpenInv
<1>5. TypeOK' /\ TableInv'
  BY <1>1, <1>2 DEF TypeOK, TableInv, Lost, FoundAt
<1>6. \A d \in Conns : end[d] # "none" => end'[d] # "none"
  BY DEF Client, ClientActs, Consume, Connect, Deliver, Fin, Abort, sockVars, Alive,
         TypeOK, EchoTypeOK, SockTypeOK
<1>7. SomeLost => SomeLost'
  BY <1>1, <1>2 DEF SomeLost, Lost, FoundAt
<1>8. HeardInv'
  BY <1>1, <1>2, <1>6, <1>7, OpenType DEF HeardInv
<1> QED BY <1>4, <1>5, <1>8

(* The steps that leave the table alone. *)
LEMMA TableKept ==
    ASSUME IInv, UNCHANGED <<phase, fdtab, FdArr>>, EchoTypeOK',
           tree' \subseteq tree, cur' \in OpenFds \cup {LFd, None},
           \A d \in Conns : end[d] # "none" => end'[d] # "none",
           SomeLost \/ \A f \in OpenFds :
               Event(f, fdtab[f]) \in tree => Event(f, fdtab[f]) \in tree' \/ end[fdtab[f]] # "none"
    PROVE  IInv'
<1>1. OpenFds' = OpenFds
  BY DEF OpenFds
<1>2. OpenFds \subseteq Fds
  BY OpenType
<1>3. TypeOK' /\ OpenInv'
  BY <1>1, <1>2 DEF IInv, TypeOK, OpenInv
<1>4. TableInv'
  BY <1>1 DEF IInv, TableInv, Lost, FoundAt
<1>5. SomeLost => SomeLost'
  BY <1>1 DEF SomeLost, Lost, FoundAt
<1>6. HeardInv'
  BY <1>1, <1>5, OpenType DEF IInv, HeardInv
<1> QED BY <1>3, <1>4, <1>6 DEF IInv

(* A new client: one entry more, its own. *)
LEMMA LfdcbStep == ASSUME IInv, Lfdcb PROVE IInv'
<1> USE DEF IInv
<1>1. PICK c \in Conns : \E f \in Fds :
        AcceptConn(c, f) /\ AddEvent(f, Event(f, c)) /\ tree' = tree \cup {Event(f, c)}
  BY DEF Lfdcb
<1>2. PICK f \in Fds :
        AcceptConn(c, f) /\ AddEvent(f, Event(f, c)) /\ tree' = tree \cup {Event(f, c)}
  BY <1>1
<1>3. UNCHANGED <<out, cur>>
  BY DEF Lfdcb
<1>4. /\ phase' = [phase EXCEPT ![c] = "open"] /\ fdtab' = [fdtab EXCEPT ![f] = c]
      /\ phase[c] = "queued" /\ f \notin OpenFds /\ UNCHANGED <<sent, taken, end>>
  BY <1>2 DEF AcceptConn, Lowest, Free, Queued
<1>5. EchoTypeOK'
  BY <1>3, <1>4 DEF TypeOK, EchoTypeOK, SockTypeOK, Phases
<1>6. /\ OpenFds' = OpenFds \cup {f}
      /\ fdtab'[f] = c /\ \A g \in OpenFds : fdtab'[g] = fdtab[g]
  BY <1>4, Constants DEF TypeOK, EchoTypeOK, SockTypeOK, OpenFds
<1>7. Event(f, c) \in Events /\ Event(f, c) \in [fd : Fds \cup {LFd}, conn : Conns \cup {NoConn}]
  BY DEF Event, Events
<1>8. \A s \in Slots : FdArr[s].fd # f
  BY <1>4, Constants DEF TableInv
<1>9. ASSUME FdArr' = FdArr, \A s \in Slots : FdArr[s].fd # None
      PROVE  TypeOK' /\ TableInv' /\ (SomeLost => SomeLost')
  <2>1. TypeOK'
    BY <1>2, <1>3, <1>5, <1>7, <1>9 DEF TypeOK
  <2>2. Lost(f)' /\ \A g \in OpenFds : Lost(g) => Lost(g)'
    BY <1>8, <1>9 DEF Lost, FoundAt
  <2>3. TableInv'
    <3>1. \A g \in OpenFds :
            Lost(g)' \/ \E s \in Slots : FdArr'[s] = [fd |-> g, ev |-> Event(g, fdtab'[g])]
      BY <1>6, <1>9, <2>2 DEF TableInv
    <3>2. \A s \in Slots : FdArr'[s].fd \in OpenFds' \cup {LFd, None}
      BY <1>6, <1>9 DEF TableInv
    <3>3. /\ \E n \in Slots : \A s \in Slots : FdArr'[s].fd = None <=> s > n
          /\ \A s, t \in Slots : FdArr'[s].fd = FdArr'[t].fd /\ FdArr'[s].fd # None => s = t
      BY <1>9 DEF TableInv
    <3> QED BY <1>6, <2>2, <3>1, <3>2, <3>3 DEF TableInv
  <2>4. SomeLost => SomeLost'
    BY <1>6, <2>2 DEF SomeLost
  <2> QED BY <2>1, <2>3, <2>4
<1>10. ASSUME NEW r \in Slots,
              FdArr[r].fd = None, FdArr'[r] = [fd |-> f, ev |-> Event(f, c)],
              \A s \in Slots \ {r} : FdArr'[s] = FdArr[s],
              \A s \in Slots : FdArr'[s].fd = None <=> s > r,
              FdArr' = [s \in Slots |-> FdArr'[s]]
       PROVE  TypeOK' /\ TableInv' /\ (SomeLost => SomeLost')
  <2>1. FdArr'[r].fd = f /\ ~\E g \in OpenFds : Lost(g)
    BY <1>10 DEF Lost
  <2>2. TypeOK'
    <3>1. [fd |-> f, ev |-> Event(f, c)]
            \in [fd : Fds \cup {LFd, None},
                 ev : [fd : Fds \cup {LFd}, conn : Conns \cup {NoConn}] \cup {None}]
      BY <1>7
    <3>2. ASSUME NEW s \in Slots
          PROVE  FdArr'[s] \in [fd : Fds \cup {LFd, None},
                     ev : [fd : Fds \cup {LFd}, conn : Conns \cup {NoConn}] \cup {None}]
      <4>1. CASE s = r
        BY <1>10, <3>1, <4>1
      <4>2. CASE s # r
        BY <1>10, <4>2 DEF TypeOK
      <4> QED BY <4>1, <4>2
    <3>3. FdArr' \in [Slots -> [fd : Fds \cup {LFd, None},
                        ev : [fd : Fds \cup {LFd}, conn : Conns \cup {NoConn}] \cup {None}]]
      BY <1>10, <3>2
    <3> QED BY <1>2, <1>3, <1>5, <1>7, <3>3 DEF TypeOK
  <2>3. \A s, t \in Slots : FdArr'[s].fd = FdArr'[t].fd /\ FdArr'[s].fd # None => s = t
    BY <1>8, <1>10, <2>1 DEF TableInv
  <2>4. \A s \in Slots : FdArr'[s].fd \in OpenFds' \cup {LFd, None}
    BY <1>6, <1>10, <2>1 DEF TableInv
  <2>5. ASSUME NEW g \in OpenFds'
        PROVE  \E s \in Slots : FdArr'[s] = [fd |-> g, ev |-> Event(g, fdtab'[g])]
    <3>1. CASE g = f
      BY <1>6, <1>10, <3>1
    <3>2. CASE g \in OpenFds
      <4>1. PICK s \in Slots : FdArr[s] = [fd |-> g, ev |-> Event(g, fdtab[g])]
        BY <2>1, <3>2 DEF TableInv
      <4>2. FdArr[s].fd = g /\ g # None
        BY <3>2, <4>1, OpenType, Constants
      <4>3. s # r
        BY <1>10, <4>2
      <4>4. fdtab'[g] = fdtab[g]
        BY <1>6, <3>2
      <4> QED BY <1>10, <4>1, <4>3, <4>4
    <3> QED BY <1>6, <3>1, <3>2
  <2>6. TableInv'
    BY <1>10, <2>3, <2>4, <2>5 DEF TableInv
  <2>7. ~SomeLost
    BY <2>1 DEF SomeLost
  <2> QED BY <2>2, <2>6, <2>7
<1>11. AddEvent(f, Event(f, c))
  BY <1>2
<1>12. TypeOK' /\ TableInv' /\ (SomeLost => SomeLost')
  <2>1. \/ FdArr' = FdArr /\ \A s \in Slots : FdArr[s].fd # None
        \/ \E r \in Slots :
             /\ FdArr[r].fd = None /\ FdArr'[r] = [fd |-> f, ev |-> Event(f, c)]
             /\ \A s \in Slots \ {r} : FdArr'[s] = FdArr[s]
             /\ \A s \in Slots : FdArr'[s].fd = None <=> s > r
             /\ FdArr' = [s \in Slots |-> FdArr'[s]]
    BY <1>11, EntryTaken
  <2>2. CASE \E r \in Slots :
             /\ FdArr[r].fd = None /\ FdArr'[r] = [fd |-> f, ev |-> Event(f, c)]
             /\ \A s \in Slots \ {r} : FdArr'[s] = FdArr[s]
             /\ \A s \in Slots : FdArr'[s].fd = None <=> s > r
             /\ FdArr' = [s \in Slots |-> FdArr'[s]]
    BY <1>10, <2>2
  <2> QED BY <1>9, <2>1, <2>2
<1>13. HeardInv'
  BY <1>2, <1>4, <1>6, <1>12 DEF HeardInv
<1>14. OpenInv'
  <2>1. Event(f, c).fd = f /\ Event(f, c) = Event(f, fdtab'[f])
    BY <1>6 DEF Event
  <2>2. \A g \in OpenFds : phase'[fdtab'[g]] = "open"
    BY <1>4, <1>6, OpenType DEF OpenInv, TypeOK, EchoTypeOK, SockTypeOK
  <2>3. phase'[fdtab'[f]] = "open"
    BY <1>4, <1>6 DEF TypeOK, EchoTypeOK, SockTypeOK
  <2> QED BY <1>2, <1>3, <1>6, <2>1, <2>2, <2>3 DEF OpenInv
<1> QED BY <1>12, <1>13, <1>14

(* Only the event of a client that has left is deleted, unless one is lost. *)
LEMMA DeletesEnded ==
    ASSUME IInv, NEW e \in tree, e.fd \in OpenFds, EventDel(e.fd),
           end[fdtab[e.fd]] # "none"
    PROVE  /\ tree' \subseteq tree
           /\ SomeLost \/ \A f \in OpenFds :
                Event(f, fdtab[f]) \in tree => Event(f, fdtab[f]) \in tree' \/ end[fdtab[f]] # "none"
<1>1. tree' \subseteq tree
  BY DEF EventDel
<1>2. CASE Lost(e.fd)
  BY <1>1, <1>2 DEF SomeLost
<1>3. CASE ~Lost(e.fd)
  <2>1. tree' = tree \ {Event(e.fd, fdtab[e.fd])}
    BY <1>3, Found DEF EventDel
  <2>2. \A f \in OpenFds : f # e.fd => Event(f, fdtab[f]) # Event(e.fd, fdtab[e.fd])
    BY DEF Event
  <2> QED BY <1>1, <2>1, <2>2
<1> QED BY <1>2, <1>3

LEMMA NextInv == IInv /\ [Next]_vars => IInv'
<1> SUFFICES ASSUME IInv, [Next]_vars PROVE IInv'
  OBVIOUS
<1> USE DEF IInv
<1>s. UNCHANGED echoVars => EchoTypeOK' /\ UNCHANGED <<phase, fdtab, end>>
  BY DEF echoVars, sockVars, TypeOK, EchoTypeOK, SockTypeOK
<1>1. CASE Lfdcb
  BY <1>1, LfdcbStep
<1>2. CASE LfdcbFails \/ CfdcbSigpipe
  BY <1>s, <1>2, TableKept DEF LfdcbFails, CfdcbSigpipe
<1>3. ASSUME NEW e \in tree, Cfdcb(e) PROVE IInv'
  <2>1. e.fd \in OpenFds /\ fdtab[e.fd] \in Conns
    BY <1>3, OpenType DEF OpenInv, Cfdcb, CfdcbData, CfdcbEnd, CfdcbCrash, Ready
  <2>2. CASE CfdcbData(e)
    <3>1. /\ HasData(fdtab[e.fd]) /\ cur' = e.fd
          /\ taken' = [taken EXCEPT ![fdtab[e.fd]] = @ + ReadSize(fdtab[e.fd], BufSize)]
          /\ UNCHANGED <<phase, sent, end, fdtab, out, FdArr, tree>>
      BY <2>2 DEF CfdcbData, TakeData
    <3>2. ReadSize(fdtab[e.fd], BufSize) \in Nat
      BY <2>1, <3>1, Constants DEF HasData, ReadSize, Avail, TypeOK, EchoTypeOK, SockTypeOK
    <3>3. EchoTypeOK'
      BY <2>1, <3>1, <3>2 DEF TypeOK, EchoTypeOK, SockTypeOK
    <3> QED BY <2>1, <3>1, <3>3, TableKept
  <2>3. CASE CfdcbEnd(e)
    <3>1. /\ end' = [end EXCEPT ![fdtab[e.fd]] = IF @ = "rst" THEN "broken" ELSE @]
          /\ UNCHANGED <<phase, sent, taken, fdtab, out, FdArr, cur>>
          /\ EventDel(e.fd) /\ end[fdtab[e.fd]] # "none"
      BY <2>3 DEF CfdcbEnd, TakeError, Ready, Readable, HasData
    <3>2. EchoTypeOK'
      BY <2>1, <3>1 DEF TypeOK, EchoTypeOK, SockTypeOK, Ends
    <3>3. \A d \in Conns : end[d] # "none" => end'[d] # "none"
      BY <2>1, <3>1 DEF TypeOK, EchoTypeOK, SockTypeOK
    <3> QED BY <2>1, <3>1, <3>2, <3>3, DeletesEnded, TableKept DEF OpenInv
  <2>4. CASE CfdcbCrash(e)
    BY <1>s, <2>4, TableKept DEF CfdcbCrash
  <2> QED BY <1>3, <2>2, <2>3, <2>4 DEF Cfdcb
<1>4. CASE CfdcbWrite
  <2>1. Conn \in Conns
    BY <1>4, OpenType, Constants DEF CfdcbWrite, OpenInv, Conn
  <2>2. UNCHANGED <<phase, fdtab, FdArr, tree>> /\ cur' = LFd /\ EchoTypeOK'
    BY <1>4, <2>1 DEF CfdcbWrite, WriteOk, WriteReset, TakeError, sockVars, Ends,
                      TypeOK, EchoTypeOK, SockTypeOK
  <2>3. \A d \in Conns : end[d] # "none" => end'[d] # "none"
    BY <1>4, <2>1 DEF CfdcbWrite, WriteOk, WriteReset, TakeError, sockVars,
                      TypeOK, EchoTypeOK, SockTypeOK
  <2> QED BY <2>2, <2>3, TableKept
<1>5. ASSUME NEW c \in Conns, Client(c) PROVE IInv'
  BY <1>5, ClientStep
<1>6. CASE UNCHANGED vars
  BY <1>s, <1>6, TableKept DEF vars, tableVars, OpenInv
<1> QED BY <1>1, <1>2, <1>3, <1>4, <1>5, <1>6 DEF Next, Listener, Writer

LEMMA Invariance == Spec => []IInv
BY InitInv, NextInv, PTL DEF Spec

-----------------------------------------------------------------------------
(* Every reachable state of the table server is well typed. *)
THEOREM TypeCorrect == Spec => []TypeOK
<1>1. IInv => TypeOK
  BY DEF IInv
<1> QED BY <1>1, Invariance, PTL

(* getEvent() (libeventServer.c:67) answers with the event of the client   *)
(* that left, because no descriptor is ever given back and so none is in   *)
(* the table twice; a client it has no answer for is one that came when    *)
(* all entries were taken; and until one of those came, nobody who is      *)
(* still there is ever silenced by event_del().                            *)
THEOREM EventOfItsOwn == Spec => []GetEventRight
<1>1. IInv => GetEventRight
  BY Found DEF GetEventRight, IInv, HeardInv, SomeLost
<1> QED BY <1>1, Invariance, PTL

-----------------------------------------------------------------------------
(* Every step is one of StreamService, or changes nothing it shows. *)
LEMMA StepRefines == IInv /\ [Next]_vars => [Stream!Next]_Stream!vars
<1> SUFFICES ASSUME IInv, [Next]_vars PROVE [Stream!Next]_Stream!vars
  OBVIOUS
<1> USE DEF Stream!vars
<1>t. SockTypeOK /\ None \notin Fds /\ None # LFd
  BY Constants DEF IInv, TypeOK, EchoTypeOK
<1>h. \A e \in tree : e # Listen => /\ e.fd \in Fds /\ fdtab[e.fd] \in Conns
                                    /\ phase[fdtab[e.fd]] = "open"
  BY OpenType DEF IInv, OpenInv
<1>1. ASSUME NEW c \in Conns, Client(c) PROVE [Stream!Next]_Stream!vars
  <2>1. UNCHANGED cur
    BY <1>1 DEF Client, tableVars
  <2>2. CASE Connect(c)
    BY <2>1, <2>2 DEF Connect, Stream!Connect, Stream!Next
  <2>3. CASE sent[c] < MaxSent[c] /\ Deliver(c, 1)
    BY <2>1, <2>3 DEF Deliver, Alive, Stream!Send, Stream!Next
  <2>4. CASE Fin(c)
    BY <2>1, <2>4 DEF Fin, Alive, Stream!End, Stream!Next
  <2>5. CASE Abort(c)
    BY <1>t, <2>1, <2>5 DEF Abort, Alive, Stream!End, Stream!Next, SockTypeOK
  <2>6. CASE Consume(c)
    BY <2>1, <2>6 DEF Consume, sockVars
  <2> QED BY <1>1, <2>2, <2>3, <2>4, <2>5, <2>6 DEF Client, ClientActs
<1>2. CASE Lfdcb
  <2>1. PICK c \in Conns : \E f \in Fds : AcceptConn(c, f)
    BY <1>2 DEF Lfdcb
  <2>2. Stream!Accept(c)
    BY <1>t, <1>2, <2>1 DEF Lfdcb, Listening, AcceptConn, Queued, Stream!Accept
  <2> QED BY <2>2 DEF Stream!Next
<1>3. CASE LfdcbFails \/ CfdcbSigpipe
  BY <1>t, <1>3 DEF LfdcbFails, CfdcbSigpipe, echoVars, sockVars, Stream!Die, Stream!Next
<1>4. ASSUME NEW e \in tree, Cfdcb(e) PROVE [Stream!Next]_Stream!vars
  <2> DEFINE c == fdtab[e.fd]
  <2>1. c \in Conns /\ phase[c] = "open" /\ e.fd # None
    BY <1>t, <1>h, <1>4 DEF Cfdcb, CfdcbData, CfdcbEnd, CfdcbCrash, Ready
  <2>2. CASE CfdcbData(e)
    <3>1. cur = LFd /\ cur' = e.fd /\ HasData(c) /\ TakeData(c, ReadSize(c, BufSize))
      BY <2>2 DEF CfdcbData, Ready
    <3>2. ReadSize(c, BufSize) \in 1..(sent[c] - taken[c])
      BY <1>t, <2>1, <3>1, Constants DEF HasData, ReadSize, Avail, SockTypeOK
    <3>3. Stream!Take(c)
      BY <1>t, <2>1, <3>1, <3>2 DEF TakeData, Stream!Take
    <3> QED BY <1>t, <2>1, <3>1, <3>3 DEF Stream!Serve, Stream!Next
  <2>3. CASE CfdcbEnd(e)
    <3>1. cur = LFd /\ UNCHANGED cur /\ TakeError(c)
      BY <2>3 DEF CfdcbEnd, Ready
    <3>2. CASE end[c] = "rst"
      <4>1. Stream!Learn(c)
        BY <1>t, <2>1, <3>1, <3>2 DEF TakeError, Stream!Learn, SockTypeOK
      <4> QED BY <2>1, <3>1, <4>1 DEF Stream!Next
    <3>3. CASE end[c] # "rst"
      <4>1. end' = end
        BY <1>t, <2>1, <3>1, <3>3 DEF TakeError, SockTypeOK
      <4> QED BY <3>1, <4>1 DEF TakeError
    <3> QED BY <3>2, <3>3
  <2>4. CASE CfdcbCrash(e)
    BY <1>t, <2>4 DEF CfdcbCrash, Ready, echoVars, sockVars, Stream!Die, Stream!Next
  <2> QED BY <1>4, <2>2, <2>3, <2>4 DEF Cfdcb
<1>5. CASE CfdcbWrite
  <2>1. /\ Conn \in Conns /\ phase[Conn] = "open" /\ cur # None /\ cur' = LFd
        /\ WriteOk(Conn) \/ WriteReset(Conn)
    BY <1>t, <1>5, OpenType, Constants DEF CfdcbWrite, IInv, OpenInv, Conn
  <2>2. CASE WriteOk(Conn)
    BY <1>t, <2>1, <2>2 DEF WriteOk, sockVars
  <2>3. CASE WriteReset(Conn)
    <3>1. Stream!Learn(Conn)
      BY <1>t, <2>1, <2>3 DEF WriteReset, TakeError, Stream!Learn, SockTypeOK
    <3> QED BY <1>t, <2>1, <3>1 DEF Stream!Next
  <2> QED BY <2>1, <2>2, <2>3
<1>6. CASE UNCHANGED vars
  BY <1>6 DEF vars, tableVars, echoVars, sockVars
<1> QED BY <1>1, <1>2, <1>3, <1>4, <1>5, <1>6 DEF Next, Listener, Writer

(* The table server takes only what was sent, in order, and closes nothing *)
(* that has not ended (it closes nothing at all).                          *)
THEOREM KeepsThePromise == Spec => StreamKept
<1>1. Init => Stream!Init
  BY Constants DEF Init, EchoInit, SockInit, Stream!Init
<1> QED BY <1>1, StepRefines, Invariance, PTL DEF Spec, StreamKept, Stream!Spec

-----------------------------------------------------------------------------
(* The browsers of event_wb.c and Libevent_Web/webServer.c.                *)

(* What clients send, and what they receive. *)
LineUnits == ({"method"} \X Methods \X (1..3)) \cup ({"path", "rest"} \X Web!Pages)
Names     == Web!Pages \cup {"front", "tail", "error"}
PageUnits == ({"head"} \X {200, 404} \X Int) \cup ({"body"} \X Names \X Nat)

States == {"idle", "queued", "open", "freed"}
Leaves == {"none", "fin", "rst", "broken"}

WebTypeOK ==
    /\ sentUnits \in [Clients -> Seq(LineUnits)] /\ wire \in [Clients -> Seq(LineUnits)]
    /\ input = [c \in Clients |-> <<>>]
    /\ output \in [Clients -> Seq(PageUnits)] /\ got \in [Clients -> Seq(PageUnits)]
    /\ conn \in [Clients -> States] /\ peer \in [Clients -> Leaves]
    /\ reading \in [Clients -> BOOLEAN]

(* A request: its method comes first, with the units that come with it.    *)
Line(s) ==
    /\ Len(s) <= 3
    /\ Len(s) > 0 => s[1][1] = "method" /\ s[1][3] <= Len(s)
    /\ \A k \in 2..Len(s) : s[k][1] # "method"

(* Nothing of it has been read, or the method has.                         *)
Unread(c) == wire[c] = sentUnits[c] /\ got[c] = <<>> /\ output[c] = <<>>
Begun(c)  == sentUnits[c] # <<>> /\ (wire[c] # <<>> => wire[c][1][1] # "method")

(* An answer for page p, or the beginning of one.                          *)
AnswerFor(s, p) ==
    s # <<>> =>
      /\ s[1][1] = "head" /\ (s[1][2] = 404 <=> p = "gone")
      /\ \A k \in 2..Len(s) : s[k][1] = "body" /\ s[k][2] \in Web!Shown(p)

(* What is shown before the next header is of page p.                      *)
StartsWith(s, p) ==
    \A k \in Web!FirstAnswer(s) :
        IF k = 1 THEN s[1][1] = "head" /\ (s[1][2] = 404 <=> p = "gone")
                 ELSE s[k][1] = "body" /\ s[k][2] \in Web!Shown(p)

OneAnswer(s) == Web!FirstAnswer(s) = 1..Len(s)

(* What a request for p with method m, in one segment or not, may get.     *)
RightTo(s, m, p, one) ==
    /\ one /\ s # <<>> => m \in {"GET", "get"} /\ OneAnswer(s)
    /\ m \in {"GET", "get"} /\ (p = "fifo" => one) => StartsWith(s, p)

(* Once its beginning has been read, a request has been answered ...       *)
Settled(c) ==
    /\ Web!OneSegment(c) => wire[c] = <<>>
    /\ \A m \in {"GET", "get"}, p \in Web!Pages \ {"fifo"} :
         Web!Asked(c, m, p) => got[c] \o output[c] # <<>>

(* ... right.                                                              *)
AnswerInv(c) ==
    /\ \A m \in Methods, p \in Web!Pages :
         Web!Asked(c, m, p) => RightTo(got[c] \o output[c], m, p, Web!OneSegment(c))
    /\ Begun(c) /\ conn[c] = "open" => Settled(c)

(* webServer.c answers these in full, and frees.                           *)
Answers == Web!Pages \ {"lockeddir", "fifo"}

(* No event is due any more to one that is not read, and it was not asked  *)
(* for a page that it answers.                                             *)
Kept(c) ==
    conn[c] = "open" =>
      /\ \A p \in Answers : Web!Asked(c, "GET", p) => wire[c] = sentUnits[c] /\ reading[c]
      /\ ~reading[c] /\ sentUnits[c] = <<>> => peer[c] # "none"

BrowserInv(c) ==
    /\ Line(sentUnits[c]) /\ Len(wire[c]) <= Len(sentUnits[c])
    /\ Unread(c) \/ Begun(c)
    /\ conn[c] \in {"idle", "queued"} => Unread(c)
    /\ program = "event_wb" => AnswerInv(c)
    /\ program = "webserver" => Kept(c)

WebInv == program \in Web!WebPrograms => WebTypeOK /\ \A c \in Browsers : BrowserInv(c)

LEMMA WebConstants ==
    /\ ReadMax \in Nat /\ ReadMax >= 3 /\ FileSize \in Nat /\ DirSize \in Nat
    /\ \A c \in Browsers : c \in Clients
BY BevAssumption

(* Of the parts of a sequence: a read event takes what is there.           *)
LEMMA AllRead ==
    ASSUME NEW U, NEW s \in Seq(U), NEW n \in Nat, Len(s) <= n
    PROVE  Web!Upto(s, n) = s /\ Web!Behind(s, n) = <<>>
<1>1. Len(s) \in Nat
  OBVIOUS
<1>2. (IF n < Len(s) THEN n ELSE Len(s)) = Len(s)
  BY <1>1
<1>3. SubSeq(s, 1, Len(s)) = s
  BY SubSeqFull
<1>4. n + 1 \in Int /\ Len(s) \in Int /\ Len(s) < n + 1
  BY <1>1
<1>5. SubSeq(s, n + 1, Len(s)) = <<>>
  BY <1>4, SubSeqEmpty
<1> QED BY <1>2, <1>3, <1>5 DEF Web!Upto, Web!Behind

(* What a client sends first, and what it sends then.                      *)
LEMMA FirstPart ==
    ASSUME NEW m \in Methods, NEW p \in Web!Pages, NEW n \in 1..3
    PROVE  LET s == SubSeq(Web!Request(m, p, n), 1, n)
           IN  /\ s \in Seq(LineUnits) /\ Len(s) = n /\ s[1] = <<"method", m, n>>
               /\ \A k \in 2..n : s[k][1] # "method"
<1> DEFINE r == Web!Request(m, p, n)
           s == SubSeq(r, 1, n)
<1>1. r[1] = <<"method", m, n>> /\ r[2] = <<"path", p>> /\ r[3] = <<"rest", p>>
  BY DEF Web!Request
<1>2. \A k \in 1..n : r[k] \in LineUnits
  BY <1>1 DEF LineUnits
<1>3. 1 \in Int /\ n \in Int
  OBVIOUS
<1> HIDE DEF r
<1>4. /\ s \in Seq(LineUnits) /\ Len(s) = IF 1 <= n THEN n - 1 + 1 ELSE 0
      /\ \A i \in 1..(n - 1 + 1) : s[i] = r[1 + i - 1]
  BY <1>2, <1>3, SubSeqProperties
<1>5. Len(s) = n /\ \A k \in 1..n : s[k] = r[k]
  BY <1>4
<1>6. \A k \in 2..n : r[k][1] # "method"
  BY <1>1
<1>7. s[1] = r[1] /\ \A k \in 2..n : s[k] = r[k]
  BY <1>5
<1> QED BY <1>1, <1>4, <1>5, <1>6, <1>7 DEF r

LEMMA OtherPart ==
    ASSUME NEW x, NEW p \in Web!Pages, NEW l \in 1..2
    PROVE  LET s == SubSeq(Web!Request(x, p, 0), l + 1, 3)
           IN  /\ s \in Seq(LineUnits) /\ Len(s) = 3 - l
               /\ \A k \in 1..(3 - l) : s[k][1] # "method"
<1> DEFINE r == Web!Request(x, p, 0)
           s == SubSeq(r, l + 1, 3)
<1>1. r[2] = <<"path", p>> /\ r[3] = <<"rest", p>>
  BY DEF Web!Request
<1>e. <<"path", p>> \in LineUnits /\ <<"rest", p>> \in LineUnits
  BY DEF LineUnits
<1>0. r[2] \in LineUnits /\ r[3] \in LineUnits
  BY <1>1, <1>e
<1>2. \A k \in (l + 1)..3 : r[k] \in LineUnits
  <2> HIDE DEF r
  <2>1. \A k \in (l + 1)..3 : k = 2 \/ k = 3
    OBVIOUS
  <2> QED BY <1>0, <2>1
<1>3. l + 1 \in Int /\ 3 \in Int
  OBVIOUS
<1> HIDE DEF r
<1>4. /\ s \in Seq(LineUnits) /\ Len(s) = IF l + 1 <= 3 THEN 3 - (l + 1) + 1 ELSE 0
      /\ \A i \in 1..(3 - (l + 1) + 1) : s[i] = r[l + 1 + i - 1]
  BY <1>2, <1>3, SubSeqProperties
<1>5. Len(s) = 3 - l /\ \A k \in 1..(3 - l) : s[k] = r[l + k]
  BY <1>4
<1>6. \A k \in 1..(3 - l) : r[l + k][1] # "method"
  BY <1>1
<1> QED BY <1>4, <1>5, <1>6 DEF r

(* A part of what a request may get, from its beginning, is that, too.     *)
LEMMA RightFromStart ==
    ASSUME NEW s \in Seq(PageUnits), NEW t \in Seq(PageUnits), NEW m, NEW p, NEW one,
           RightTo(s \o t, m, p, one)
    PROVE  RightTo(s, m, p, one)
<1> DEFINE u == s \o t
<1>1. Len(s) \in Nat /\ Len(t) \in Nat /\ (s = <<>> <=> Len(s) = 0)
  BY EmptySeq
<1>2. /\ u \in Seq(PageUnits) /\ Len(u) = Len(s) + Len(t)
      /\ \A i \in 1..(Len(s) + Len(t)) : u[i] = IF i <= Len(s) THEN s[i] ELSE t[i - Len(s)]
  BY ConcatProperties
<1>3. RightTo(u, m, p, one)
  OBVIOUS
<1> HIDE DEF u
<1>4. \A i \in 1..Len(s) : i \in 1..Len(u) /\ u[i] = s[i]
  BY <1>1, <1>2
<1>5. s # <<>> => u # <<>>
  <2>1. Len(s) # 0 => Len(u) # 0
    BY <1>1, <1>2
  <2>2. u = <<>> => Len(u) = 0
    BY EmptySeq
  <2> QED BY <1>1, <2>1, <2>2
<1>6. \A k \in 1..Len(s) : k \in Web!FirstAnswer(s) <=> k \in Web!FirstAnswer(u)
  <2> SUFFICES ASSUME NEW k \in 1..Len(s)
               PROVE  k \in Web!FirstAnswer(s) <=> k \in Web!FirstAnswer(u)
    OBVIOUS
  <2>1. \A j \in 2..k : j \in 1..Len(s)
    BY <1>1
  <2>2. \A j \in 2..k : s[j] = u[j]
    BY <1>4, <2>1
  <2> QED BY <1>4, <2>2 DEF Web!FirstAnswer
<1>7. Web!FirstAnswer(s) \subseteq 1..Len(s)
  BY DEF Web!FirstAnswer
<1>8. StartsWith(u, p) => StartsWith(s, p)
  <2>1. ASSUME StartsWith(u, p), NEW k \in Web!FirstAnswer(s)
        PROVE  IF k = 1 THEN s[1][1] = "head" /\ (s[1][2] = 404 <=> p = "gone")
                        ELSE s[k][1] = "body" /\ s[k][2] \in Web!Shown(p)
    <3>1. k \in 1..Len(s) /\ k \in Web!FirstAnswer(u) /\ u[k] = s[k]
      BY <1>4, <1>6, <1>7
    <3> QED BY <2>1, <3>1 DEF StartsWith
  <2> QED BY <2>1 DEF StartsWith
<1>9. OneAnswer(u) => OneAnswer(s)
  BY <1>4, <1>6, <1>7 DEF OneAnswer
<1> QED BY <1>3, <1>5, <1>8, <1>9 DEF RightTo

(* An answer has one header: it is all that is shown.                      *)
LEMMA AnswerIsRight ==
    ASSUME NEW s \in Seq(PageUnits), NEW m \in {"GET", "get"}, NEW p, NEW one, AnswerFor(s, p)
    PROVE  RightTo(s, m, p, one)
<1>1. Len(s) \in Nat /\ (s = <<>> <=> Len(s) = 0)
  BY EmptySeq
<1>2. CASE s = <<>>
  <2>1. Web!FirstAnswer(s) = {}
    BY <1>1, <1>2 DEF Web!FirstAnswer
  <2> QED BY <1>2, <2>1 DEF RightTo, StartsWith
<1>3. CASE s # <<>>
  <2>1. \A k \in 2..Len(s) : s[k][1] = "body" /\ s[k][2] \in Web!Shown(p)
    BY <1>3 DEF AnswerFor
  <2>2. ASSUME NEW k \in 1..Len(s) PROVE k \in Web!FirstAnswer(s)
    <3>1. \A j \in 2..k : j \in 2..Len(s)
      BY <1>1
    <3>2. \A j \in 2..k : s[j][1] # "head"
      BY <2>1, <3>1
    <3> QED BY <3>2 DEF Web!FirstAnswer
  <2>3. OneAnswer(s)
    BY <2>2 DEF OneAnswer, Web!FirstAnswer
  <2>4. ASSUME NEW k \in Web!FirstAnswer(s)
        PROVE  IF k = 1 THEN s[1][1] = "head" /\ (s[1][2] = 404 <=> p = "gone")
                        ELSE s[k][1] = "body" /\ s[k][2] \in Web!Shown(p)
    <3>1. CASE k = 1
      BY <1>3, <3>1 DEF AnswerFor
    <3>2. CASE k # 1
      <4>1. k \in 2..Len(s)
        BY <1>1, <3>2 DEF Web!FirstAnswer
      <4> QED BY <2>1, <3>2, <4>1
    <3> QED BY <3>1, <3>2
  <2>5. StartsWith(s, p)
    BY <2>4 DEF StartsWith
  <2> QED BY <2>3, <2>5 DEF RightTo
<1> QED BY <1>2, <1>3

LEMMA NothingShown == \A m, p, one : RightTo(<<>>, m, p, one)
<1>1. Len(<<>>) = 0
  BY EmptySeq
<1>2. Web!FirstAnswer(<<>>) = {}
  BY <1>1 DEF Web!FirstAnswer
<1> QED BY <1>2 DEF RightTo, StartsWith

(* What comes behind an answer begins with a header of its own.            *)
LEMMA NextAnswer ==
    ASSUME NEW s \in Seq(PageUnits), NEW t \in Seq(PageUnits), NEW p, s # <<>>,
           t # <<>> => t[1][1] = "head", StartsWith(s, p)
    PROVE  StartsWith(s \o t, p) /\ s \o t # <<>>
<1> DEFINE u == s \o t
<1>1. Len(s) \in Nat /\ Len(t) \in Nat /\ Len(s) # 0 /\ (t = <<>> <=> Len(t) = 0)
  BY EmptySeq
<1>2. /\ u \in Seq(PageUnits) /\ Len(u) = Len(s) + Len(t)
      /\ \A i \in 1..(Len(s) + Len(t)) : u[i] = IF i <= Len(s) THEN s[i] ELSE t[i - Len(s)]
  BY ConcatProperties
<1> HIDE DEF u
<1>3. u # <<>>
  <2>1. Len(u) # 0
    BY <1>1, <1>2
  <2> QED BY <2>1, EmptySeq
<1>4. ASSUME NEW k \in Web!FirstAnswer(u) PROVE k \in Web!FirstAnswer(s) /\ u[k] = s[k]
  <2>1. k \in 1..Len(u) /\ \A j \in 2..k : u[j][1] # "head"
    BY DEF Web!FirstAnswer
  <2>2. k <= Len(s)
    <3> SUFFICES ASSUME ~(k <= Len(s)) PROVE FALSE
      OBVIOUS
    <3> DEFINE j == Len(s) + 1
    <3>1. j \in 2..k /\ j \in 1..(Len(s) + Len(t)) /\ ~(j <= Len(s)) /\ j - Len(s) = 1
      BY <1>1, <1>2, <2>1
    <3>2. t # <<>>
      BY <1>1, <3>1
    <3>3. u[j] = t[1]
      BY <1>2, <3>1
    <3> QED BY <2>1, <3>1, <3>2, <3>3
  <2>3. k \in 1..Len(s) /\ \A j \in 2..k : j \in 1..Len(s)
    BY <1>1, <1>2, <2>1, <2>2
  <2>4. \A j \in 1..Len(s) : u[j] = s[j]
    BY <1>1, <1>2
  <2> QED BY <2>1, <2>3, <2>4 DEF Web!FirstAnswer
<1>5. StartsWith(u, p)
  <2>1. ASSUME NEW k \in Web!FirstAnswer(u)
        PROVE  IF k = 1 THEN u[1][1] = "head" /\ (u[1][2] = 404 <=> p = "gone")
                        ELSE u[k][1] = "body" /\ u[k][2] \in Web!Shown(p)
    BY <1>4 DEF StartsWith
  <2> QED BY <2>1 DEF StartsWith
<1> QED BY <1>3, <1>5 DEF u

(* A request nothing of which has been read has not been begun.            *)
LEMMA NotBoth ==
    ASSUME NEW c, Line(sentUnits[c]), Unread(c), Begun(c), sentUnits[c] \in Seq(LineUnits)
    PROVE  FALSE
<1>1. Len(sentUnits[c]) \in Nat /\ Len(sentUnits[c]) # 0
  BY EmptySeq DEF Begun
<1> QED BY <1>1 DEF Line, Unread, Begun

(* What the server queues has the form of a page. *)
LEMMA PartUnits ==
    ASSUME NEW p \in Names, NEW n \in Nat
    PROVE  /\ Web!Part(p, n) \in Seq(PageUnits) /\ Len(Web!Part(p, n)) = n
           /\ \A k \in 1..n : Web!Part(p, n)[k] = <<"body", p, k>>
<1>1. \A k \in 1..n : <<"body", p, k>> \in PageUnits
  BY DEF PageUnits
<1>2. Web!Part(p, n) \in [1..n -> PageUnits]
  BY <1>1 DEF Web!Part
<1>3. Web!Part(p, n) \in Seq(PageUnits) /\ Len(Web!Part(p, n)) = n
  BY <1>2
<1> QED BY <1>3 DEF Web!Part

LEMMA HeaderUnits ==
    ASSUME NEW code \in {200, 404}, NEW n \in Int
    PROVE  /\ Web!Header(code, n) \in Seq(PageUnits) /\ Len(Web!Header(code, n)) = 1
           /\ Web!Header(code, n)[1] = <<"head", code, n>>
<1>1. <<"head", code, n>> \in PageUnits
  BY DEF PageUnits
<1> QED BY <1>1 DEF Web!Header

(* The body of a page: parts that may be shown for it. *)
IsBody(s, set) == s \in Seq(PageUnits) /\ \A k \in 1..Len(s) : s[k][1] = "body" /\ s[k][2] \in set

LEMMA BodyOfParts ==
    ASSUME NEW set, NEW s, NEW t, IsBody(s, set), IsBody(t, set)
    PROVE  IsBody(s \o t, set)
<1> DEFINE u == s \o t
<1>1. s \in Seq(PageUnits) /\ t \in Seq(PageUnits) /\ Len(s) \in Nat /\ Len(t) \in Nat
  BY DEF IsBody
<1>2. /\ u \in Seq(PageUnits) /\ Len(u) = Len(s) + Len(t)
      /\ \A i \in 1..(Len(s) + Len(t)) : u[i] = IF i <= Len(s) THEN s[i] ELSE t[i - Len(s)]
  BY <1>1, ConcatProperties
<1> HIDE DEF u
<1>3. ASSUME NEW k \in 1..Len(u) PROVE u[k][1] = "body" /\ u[k][2] \in set
  <2>1. CASE k <= Len(s)
    <3>1. k \in 1..Len(s) /\ u[k] = s[k]
      BY <1>1, <1>2, <2>1
    <3> QED BY <3>1 DEF IsBody
  <2>2. CASE k > Len(s)
    <3>1. k - Len(s) \in 1..Len(t) /\ u[k] = t[k - Len(s)]
      BY <1>1, <1>2, <2>2
    <3> QED BY <3>1 DEF IsBody
  <2> QED BY <1>1, <2>1, <2>2
<1>4. IsBody(u, set)
  BY <1>2, <1>3 DEF IsBody
<1> QED BY <1>4 DEF u

LEMMA BodyOfOne ==
    ASSUME NEW set, NEW p \in Names, NEW n \in Nat, p \in set
    PROVE  IsBody(Web!Part(p, n), set)
<1>1. \A k \in 1..n : Web!Part(p, n)[k][1] = "body" /\ Web!Part(p, n)[k][2] = p
  BY PartUnits
<1> QED BY <1>1, PartUnits DEF IsBody

LEMMA NoBody == \A set : IsBody(<<>>, set)
BY EmptySeq DEF IsBody

(* A header and a body of the page are a right answer. *)
LEMMA HeadAndBody ==
    ASSUME NEW p \in Web!Pages, NEW code \in {200, 404}, NEW n \in Int,
           NEW b, IsBody(b, Web!Shown(p)), code = 404 <=> p = "gone"
    PROVE  AnswerFor(Web!Header(code, n) \o b, p) /\ Web!Header(code, n) \o b \in Seq(PageUnits)
<1> DEFINE h == Web!Header(code, n)
           u == h \o b
<1>1. h \in Seq(PageUnits) /\ Len(h) = 1 /\ h[1] = <<"head", code, n>> /\ b \in Seq(PageUnits)
      /\ Len(b) \in Nat
  BY HeaderUnits DEF IsBody
<1> HIDE DEF h
<1>j. /\ u \in Seq(PageUnits) /\ Len(u) = Len(h) + Len(b)
      /\ \A i \in 1..(Len(h) + Len(b)) : u[i] = IF i <= Len(h) THEN h[i] ELSE b[i - Len(h)]
  <2>1. h \in Seq(PageUnits) /\ b \in Seq(PageUnits)
    BY <1>1
  <2> QED BY <2>1, ConcatProperties
<1> HIDE DEF u
<1>2. /\ u \in Seq(PageUnits) /\ Len(u) = 1 + Len(b)
      /\ \A i \in 1..(1 + Len(b)) : u[i] = IF i <= 1 THEN h[i] ELSE b[i - 1]
  BY <1>1, <1>j
<1>3. u[1] = <<"head", code, n>>
  BY <1>1, <1>2
<1>4. \A k \in 2..Len(u) : k - 1 \in 1..Len(b) /\ u[k] = b[k - 1]
  BY <1>1, <1>2
<1>5. \A k \in 2..Len(u) : u[k][1] = "body" /\ u[k][2] \in Web!Shown(p)
  BY <1>4 DEF IsBody
<1>6. u[1][1] = "head" /\ u[1][2] = code
  BY <1>3
<1> QED BY <1>2, <1>5, <1>6 DEF AnswerFor, u, h

(* event_wb.c answers right. *)
LEMMA AnswerRight ==
    ASSUME NEW p \in Web!Pages
    PROVE  AnswerFor(Web!HttpRequest(p), p) /\ Web!HttpRequest(p) \in Seq(PageUnits)
<1> USE WebConstants
<1>n. \A q \in Web!Pages \cup {"front", "tail", "error"} : q \in Names
  BY DEF Names
<1>i. Web!NoLength \in Int /\ FileSize \in Int /\ DirSize \in Int /\ 1 \in Nat
  BY DEF Web!NoLength
<1>p. Web!Pages = {"file", "locked", "dir", "lockeddir", "gone", "fifo"}
  BY DEF Web!Pages
<1>1. CASE p = "gone"
  <2>1. Web!Shown(p) = {"error"} /\ Web!HttpRequest(p) = Web!Header(404, Web!NoLength) \o Web!Part("error", FileSize)
    BY <1>1 DEF Web!Shown, Web!HttpRequest, Web!CopyFile
  <2>2. IsBody(Web!Part("error", FileSize), Web!Shown(p))
    BY <1>n, <2>1, BodyOfOne
  <2>3. 404 \in {200, 404} /\ (404 = 404 <=> p = "gone")
    BY <1>1
  <2>4. /\ AnswerFor(Web!Header(404, Web!NoLength) \o Web!Part("error", FileSize), p)
        /\ Web!Header(404, Web!NoLength) \o Web!Part("error", FileSize) \in Seq(PageUnits)
    BY <1>i, <2>2, <2>3, HeadAndBody
  <2> QED BY <2>1, <2>4
<1>2. CASE p \in {"dir", "lockeddir"}
  <2>1. /\ Web!Shown(p) = {"front", p, "tail"}
        /\ Web!HttpRequest(p) = Web!Header(200, DirSize) \o Web!SendDir(p)
    BY <1>2 DEF Web!Shown, Web!HttpRequest
  <2>2. /\ IsBody(Web!Part("front", 1), Web!Shown(p)) /\ IsBody(Web!Part(p, 1), Web!Shown(p))
        /\ IsBody(Web!Part("tail", 1), Web!Shown(p)) /\ IsBody(<<>>, Web!Shown(p))
    BY <1>n, <1>i, <2>1, BodyOfOne, NoBody
  <2>3. IsBody(Web!Part(p, 1) \o Web!Part("tail", 1), Web!Shown(p))
    BY <2>2, BodyOfParts
  <2>4. IsBody(IF p = "lockeddir" THEN <<>> ELSE Web!Part(p, 1) \o Web!Part("tail", 1), Web!Shown(p))
    BY <2>2, <2>3
  <2>5. IsBody(Web!SendDir(p), Web!Shown(p))
    BY <2>2, <2>4, BodyOfParts DEF Web!SendDir
  <2>6. 200 \in {200, 404} /\ (200 = 404 <=> p = "gone")
    BY <1>2
  <2>7. /\ AnswerFor(Web!Header(200, DirSize) \o Web!SendDir(p), p)
        /\ Web!Header(200, DirSize) \o Web!SendDir(p) \in Seq(PageUnits)
    BY <1>i, <2>5, <2>6, HeadAndBody
  <2> QED BY <2>1, <2>7
<1>3. CASE p \in {"file", "locked"}
  <2>1. Web!Shown(p) = {"file"} /\ Web!HttpRequest(p) = Web!Header(200, FileSize) \o Web!CopyFile(p)
    BY <1>3 DEF Web!Shown, Web!HttpRequest
  <2>2. IsBody(<<>>, Web!Shown(p)) /\ IsBody(Web!Part("file", FileSize), Web!Shown(p))
    BY <1>n, <1>p, <2>1, BodyOfOne, NoBody
  <2>3. Web!CopyFile(p) = <<>> \/ Web!CopyFile(p) = Web!Part("file", FileSize)
    BY <1>3 DEF Web!CopyFile
  <2>4. IsBody(Web!CopyFile(p), Web!Shown(p))
    BY <2>2, <2>3
  <2>6. 200 \in {200, 404} /\ (200 = 404 <=> p = "gone")
    BY <1>3
  <2>7. /\ AnswerFor(Web!Header(200, FileSize) \o Web!CopyFile(p), p)
        /\ Web!Header(200, FileSize) \o Web!CopyFile(p) \in Seq(PageUnits)
    BY <1>i, <2>4, <2>6, HeadAndBody
  <2> QED BY <2>1, <2>7
<1>4. CASE p = "fifo"
  <2>1. Web!HttpRequest(p) = <<>>
    BY <1>4 DEF Web!HttpRequest
  <2> QED BY <2>1, EmptySeq DEF AnswerFor
<1> QED BY <1>1, <1>2, <1>3, <1>4, <1>p

(* ... and only a fifo gets no answer.                                     *)
LEMMA SomeAnswer ==
    ASSUME NEW p \in Web!Pages, p # "fifo"
    PROVE  Web!HttpRequest(p) # <<>>
<1>i. Web!NoLength \in Int /\ FileSize \in Int /\ DirSize \in Int
      /\ FileSize \in Nat /\ 1 \in Nat /\ 200 \in {200, 404} /\ 404 \in {200, 404}
  BY WebConstants DEF Web!NoLength
<1>1. ASSUME NEW h \in Seq(PageUnits), NEW b \in Seq(PageUnits), Len(h) = 1 PROVE h \o b # <<>>
  <2>1. Len(h \o b) = Len(h) + Len(b) /\ Len(b) \in Nat
    BY ConcatProperties
  <2>2. Len(h \o b) # 0
    BY <1>1, <2>1
  <2> QED BY <2>2, EmptySeq
<1>2. \A code \in {200, 404}, n \in Int :
        Web!Header(code, n) \in Seq(PageUnits) /\ Len(Web!Header(code, n)) = 1
  BY HeaderUnits
<1>3. /\ \A q \in Names, n \in Nat : Web!Part(q, n) \in Seq(PageUnits)
      /\ <<>> \in Seq(PageUnits)
  BY PartUnits, EmptySeq
<1>4. \A s, u \in Seq(PageUnits) : s \o u \in Seq(PageUnits)
  BY ConcatProperties
<1>5. \A q \in Names : Web!CopyFile(q) \in Seq(PageUnits)
  BY <1>i, <1>3 DEF Web!CopyFile
<1>n. Web!Pages = {"file", "locked", "dir", "lockeddir", "gone", "fifo"} /\ p \in Names
      /\ "front" \in Names /\ "tail" \in Names /\ "error" \in Names
  BY DEF Names, Web!Pages
<1>6. Web!SendDir(p) \in Seq(PageUnits)
  <2>1. Web!Part("front", 1) \in Seq(PageUnits) /\ Web!Part(p, 1) \in Seq(PageUnits)
        /\ Web!Part("tail", 1) \in Seq(PageUnits)
    BY <1>3, <1>i, <1>n
  <2>2. (IF p = "lockeddir" THEN <<>> ELSE Web!Part(p, 1) \o Web!Part("tail", 1)) \in Seq(PageUnits)
    BY <1>3, <1>4, <2>1
  <2> QED BY <1>4, <2>1, <2>2 DEF Web!SendDir
<1>7. CASE p = "gone"
  BY <1>i, <1>1, <1>2, <1>5, <1>7, <1>n DEF Web!HttpRequest
<1>8. CASE p \in {"dir", "lockeddir"}
  BY <1>i, <1>1, <1>2, <1>6, <1>8 DEF Web!HttpRequest
<1>9. CASE p \in {"file", "locked"}
  BY <1>i, <1>1, <1>2, <1>5, <1>9, <1>n DEF Web!HttpRequest
<1> QED BY <1>7, <1>8, <1>9, <1>n

(* What webServer.c leaves in the buffer. *)
LEMMA KeptUnits ==
    ASSUME NEW p
    PROVE  (IF p = "lockeddir" THEN Web!SendHeader(200, 0) \o Web!SendFile("front") ELSE <<>>)
             \in Seq(PageUnits)
<1>1. Web!NoLength \in Int /\ 1 \in Nat /\ "front" \in Names
  BY DEF Web!NoLength, Names
<1>2. Web!SendHeader(200, 0) = Web!Header(200, Web!NoLength) /\ Web!SendFile("front") = Web!Part("front", 1)
  BY DEF Web!SendHeader, Web!SendFile
<1>3. Web!SendHeader(200, 0) \in Seq(PageUnits) /\ Web!SendFile("front") \in Seq(PageUnits)
  BY <1>1, <1>2, HeaderUnits, PartUnits
<1>4. Web!SendHeader(200, 0) \o Web!SendFile("front") \in Seq(PageUnits)
  BY <1>3, ConcatProperties
<1> QED BY <1>4, EmptySeq

-----------------------------------------------------------------------------
(* Nothing changes for c. *)
Same(c) ==
    /\ program' = program /\ conn'[c] = conn[c] /\ peer'[c] = peer[c] /\ reading'[c] = reading[c]
    /\ sentUnits'[c] = sentUnits[c] /\ wire'[c] = wire[c] /\ input'[c] = input[c]
    /\ output'[c] = output[c] /\ got'[c] = got[c]

LEMMA BrowserSame == \A c : Same(c) /\ BrowserInv(c) => BrowserInv(c)'
BY DEF Same, BrowserInv, AnswerInv, Settled, Kept, Unread, Begun, Web!Asked, Web!WholeLine,
       Web!OneSegment

LEMMA BrowserTypes ==
    ASSUME WebTypeOK, NEW c \in Browsers
    PROVE  /\ c \in Clients /\ input[c] = <<>>
           /\ sentUnits[c] \in Seq(LineUnits) /\ wire[c] \in Seq(LineUnits)
           /\ output[c] \in Seq(PageUnits) /\ got[c] \in Seq(PageUnits)
           /\ Len(sentUnits[c]) \in Nat /\ Len(wire[c]) \in Nat
           /\ sentUnits[c] = <<>> <=> Len(sentUnits[c]) = 0
           /\ wire[c] = <<>> <=> Len(wire[c]) = 0
<1>1. c \in Clients
  BY WebConstants
<1>2. /\ sentUnits[c] \in Seq(LineUnits) /\ wire[c] \in Seq(LineUnits) /\ input[c] = <<>>
      /\ output[c] \in Seq(PageUnits) /\ got[c] \in Seq(PageUnits)
  BY <1>1 DEF WebTypeOK
<1>3. \A s \in Seq(LineUnits) : Len(s) \in Nat /\ (s = <<>> <=> Len(s) = 0)
  BY EmptySeq
<1> QED BY <1>1, <1>2, <1>3

(* What was asked for does not change with what comes behind the line.     *)
LEMMA AskedBefore ==
    ASSUME NEW c \in Browsers, WebTypeOK, Line(sentUnits[c]), sentUnits[c] # <<>>,
           sentUnits'[c][1] = sentUnits[c][1],
           Len(sentUnits[c]) >= 2 => sentUnits'[c][2] = sentUnits[c][2],
           NEW m, NEW p, Web!Asked(c, m, p)'
    PROVE  Web!Asked(c, m, p)
<1>1. /\ Len(sentUnits[c]) \in Nat /\ Len(sentUnits[c]) # 0
      /\ sentUnits[c] \in Seq(LineUnits)
  BY BrowserTypes
<1>2. sentUnits[c][1][3] > 1 /\ sentUnits[c][1][3] <= Len(sentUnits[c]) /\ sentUnits[c][1][1] = "method"
  BY <1>1 DEF Web!Asked, Web!WholeLine, Line
<1>3. sentUnits[c][1] \in LineUnits
  BY <1>1
<1>4. sentUnits[c][1][3] \in 1..3
  BY <1>2, <1>3 DEF LineUnits
<1>5. Len(sentUnits[c]) >= 2
  BY <1>1, <1>2, <1>4
<1> QED BY <1>5 DEF Web!Asked, Web!WholeLine

-----------------------------------------------------------------------------
(* The clients. *)
LEMMA WebConnect ==
    ASSUME WebTypeOK, NEW d \in Browsers, BrowserInv(d), Web!Connect(d)
    PROVE  WebTypeOK' /\ BrowserInv(d)' /\ \A c \in Browsers : c # d => Same(c)
<1>1. d \in Clients /\ conn[d] = "idle" /\ conn' = [conn EXCEPT ![d] = "queued"]
      /\ UNCHANGED <<program, loop, peer, sentUnits, wire, reading, input, output, got>>
  BY WebConstants DEF Web!Connect
<1>2. conn'[d] = "queued" /\ \A c \in Browsers : c # d => conn'[c] = conn[c]
  BY <1>1, WebConstants DEF WebTypeOK
<1>3. WebTypeOK'
  BY <1>1 DEF WebTypeOK, States
<1>4. BrowserInv(d)'
  BY <1>1, <1>2 DEF BrowserInv, AnswerInv, Kept, Unread, Begun, Web!Asked, Web!WholeLine,
                    Web!OneSegment
<1> QED BY <1>1, <1>2, <1>3, <1>4 DEF Same

LEMMA WebLeave ==
    ASSUME WebTypeOK, NEW d \in Browsers, BrowserInv(d), Web!Leave(d)
    PROVE  WebTypeOK' /\ BrowserInv(d)' /\ \A c \in Browsers : c # d => Same(c)
<1>1. PICK e \in {"fin", "rst", "broken"} : peer' = [peer EXCEPT ![d] = e]
  BY DEF Web!Leave
<1>2. UNCHANGED <<program, loop, conn, sentUnits, wire, reading, input, output, got>> /\ d \in Clients
  BY WebConstants DEF Web!Leave
<1>3. peer'[d] # "none" /\ \A c \in Browsers : c # d => peer'[c] = peer[c]
  BY <1>1, <1>2, WebConstants DEF WebTypeOK
<1>4. WebTypeOK'
  BY <1>1, <1>2 DEF WebTypeOK, Leaves
<1>5. BrowserInv(d)'
  BY <1>2, <1>3 DEF BrowserInv, AnswerInv, Settled, Kept, Unread, Begun, Web!Asked, Web!WholeLine,
                    Web!OneSegment
<1> QED BY <1>2, <1>3, <1>4, <1>5 DEF Same

(* A send of s: what the state is then. *)
LEMMA WebSend ==
    ASSUME WebTypeOK, NEW d \in Browsers, NEW s \in Seq(LineUnits), Web!Send(d, s)
    PROVE  /\ WebTypeOK' /\ peer[d] = "none" /\ conn[d] \in {"queued", "open"}
           /\ sentUnits'[d] = sentUnits[d] \o s /\ wire'[d] = wire[d] \o s
           /\ UNCHANGED <<program, loop, conn, peer, reading, input, output, got>>
           /\ \A c \in Browsers : c # d => Same(c)
<1>1. /\ sentUnits' = [sentUnits EXCEPT ![d] = sentUnits[d] \o s]
      /\ wire' = [wire EXCEPT ![d] = wire[d] \o s]
      /\ UNCHANGED <<program, loop, conn, peer, reading, input, output, got>>
      /\ peer[d] = "none" /\ conn[d] \in {"queued", "open"}
  BY DEF Web!Send, Web!There
<1>2. d \in Clients /\ sentUnits[d] \in Seq(LineUnits) /\ wire[d] \in Seq(LineUnits)
  BY BrowserTypes
<1>3. sentUnits[d] \o s \in Seq(LineUnits) /\ wire[d] \o s \in Seq(LineUnits)
  BY <1>2, ConcatProperties
<1> DEFINE su == sentUnits[d] \o s
           wu == wire[d] \o s
<1> HIDE DEF su, wu
<1>4. su \in Seq(LineUnits) /\ wu \in Seq(LineUnits)
      /\ sentUnits' = [sentUnits EXCEPT ![d] = su] /\ wire' = [wire EXCEPT ![d] = wu]
  BY <1>1, <1>3 DEF su, wu
<1>5. sentUnits' \in [Clients -> Seq(LineUnits)] /\ wire' \in [Clients -> Seq(LineUnits)]
  BY <1>4 DEF WebTypeOK
<1>6. sentUnits'[d] = su /\ wire'[d] = wu
  BY <1>2, <1>4 DEF WebTypeOK
<1>7. \A c \in Browsers : c # d => sentUnits'[c] = sentUnits[c] /\ wire'[c] = wire[c]
  BY <1>4, WebConstants DEF WebTypeOK
<1>8. WebTypeOK'
  BY <1>1, <1>5 DEF WebTypeOK
<1>9. \A c \in Browsers : c # d => Same(c)
  BY <1>1, <1>7 DEF Same
<1> QED BY <1>1, <1>6, <1>8, <1>9 DEF su, wu

LEMMA WebSendFirst ==
    ASSUME WebTypeOK, NEW d \in Browsers, BrowserInv(d), sentUnits[d] = <<>>,
           NEW m \in Methods, NEW p \in Web!Pages, NEW n \in 1..3,
           Web!Send(d, SubSeq(Web!Request(m, p, n), 1, n))
    PROVE  WebTypeOK' /\ BrowserInv(d)' /\ \A c \in Browsers : c # d => Same(c)
<1> DEFINE s == SubSeq(Web!Request(m, p, n), 1, n)
<1>1. /\ s \in Seq(LineUnits) /\ Len(s) = n /\ s[1] = <<"method", m, n>>
      /\ \A k \in 2..n : s[k][1] # "method"
  BY FirstPart
<1>2. Web!Send(d, s)
  OBVIOUS
<1> HIDE DEF s
<1>3. /\ WebTypeOK' /\ peer[d] = "none" /\ conn[d] \in {"queued", "open"}
      /\ sentUnits'[d] = sentUnits[d] \o s /\ wire'[d] = wire[d] \o s
      /\ UNCHANGED <<program, loop, conn, peer, reading, input, output, got>>
      /\ \A c \in Browsers : c # d => Same(c)
  BY <1>1, <1>2, WebSend
<1>4. wire[d] = <<>>
  BY BrowserTypes DEF BrowserInv
<1>5. <<>> \o s = s
  BY <1>1, ConcatEmptySeq
<1>6. sentUnits'[d] = s /\ wire'[d] = s /\ n \in Nat /\ n >= 1 /\ n <= 3
  BY <1>3, <1>4, <1>5
<1>7. got'[d] = <<>> /\ output'[d] = <<>>
  BY <1>3 DEF BrowserInv, Unread, Begun
<1>8. Line(s)
  <2>1. s[1][1] = "method" /\ s[1][3] = n
    BY <1>1
  <2> QED BY <1>1, <1>6, <2>1 DEF Line
<1>9. Unread(d)'
  BY <1>6, <1>7 DEF Unread
<1>10. <<>> \o <<>> = <<>>
  <2>1. <<>> \in Seq(PageUnits)
    BY EmptySeq
  <2> QED BY <2>1, ConcatEmptySeq
<1>11. AnswerInv(d)'
  <2>1. ~Begun(d)'
    <3>1. sentUnits'[d][1][1] = "method" /\ wire'[d] = sentUnits'[d]
      BY <1>1, <1>6
    <3> QED BY <3>1 DEF Begun
  <2>2. \A mm, q, one : RightTo(got'[d] \o output'[d], mm, q, one)
    BY <1>7, <1>10, NothingShown
  <2> QED BY <2>1, <2>2 DEF AnswerInv
<1>12. s # <<>>
  BY <1>1, <1>6, EmptySeq
<1>13. program = "webserver" => Kept(d)'
  BY <1>3, <1>6, <1>12 DEF BrowserInv, Kept
<1>14. Len(wire'[d]) <= Len(sentUnits'[d]) /\ Line(sentUnits'[d])
  BY <1>1, <1>6, <1>8
<1>15. BrowserInv(d)'
  BY <1>3, <1>9, <1>11, <1>13, <1>14 DEF BrowserInv
<1> QED BY <1>3, <1>15

LEMMA WebSendRest ==
    ASSUME WebTypeOK, NEW d \in Browsers, BrowserInv(d), NEW l \in 1..2, Len(sentUnits[d]) = l,
           NEW x, NEW p \in Web!Pages, Web!Send(d, SubSeq(Web!Request(x, p, 0), l + 1, 3))
    PROVE  WebTypeOK' /\ BrowserInv(d)' /\ \A c \in Browsers : c # d => Same(c)
<1> DEFINE s == SubSeq(Web!Request(x, p, 0), l + 1, 3)
<1>1. l \in 1..2 /\ l \in Nat
  OBVIOUS
<1>2. s \in Seq(LineUnits) /\ Len(s) = 3 - l /\ \A k \in 1..(3 - l) : s[k][1] # "method"
  BY OtherPart
<1>3. Web!Send(d, s)
  OBVIOUS
<1> HIDE DEF s
<1>4. /\ WebTypeOK' /\ peer[d] = "none" /\ conn[d] \in {"queued", "open"}
      /\ sentUnits'[d] = sentUnits[d] \o s /\ wire'[d] = wire[d] \o s
      /\ UNCHANGED <<program, loop, conn, peer, reading, input, output, got>>
      /\ \A c \in Browsers : c # d => Same(c)
  BY <1>2, <1>3, WebSend
<1>5. /\ sentUnits[d] \in Seq(LineUnits) /\ wire[d] \in Seq(LineUnits) /\ sentUnits[d] # <<>>
      /\ Len(wire[d]) \in Nat /\ Len(wire[d]) <= l /\ (wire[d] = <<>> <=> Len(wire[d]) = 0)
  BY <1>1, BrowserTypes DEF BrowserInv
<1>6. /\ sentUnits[d] \o s \in Seq(LineUnits) /\ Len(sentUnits[d] \o s) = l + Len(s)
      /\ \A i \in 1..(l + Len(s)) :
            (sentUnits[d] \o s)[i] = IF i <= l THEN sentUnits[d][i] ELSE s[i - l]
  BY <1>2, <1>5, ConcatProperties
<1>7. /\ wire[d] \o s \in Seq(LineUnits) /\ Len(wire[d] \o s) = Len(wire[d]) + Len(s)
      /\ \A i \in 1..(Len(wire[d]) + Len(s)) :
            (wire[d] \o s)[i] = IF i <= Len(wire[d]) THEN wire[d][i] ELSE s[i - Len(wire[d])]
  BY <1>2, <1>5, ConcatProperties
<1> DEFINE su == sentUnits'[d]
           wu == wire'[d]
<1>8. /\ Len(su) = 3 /\ \A i \in 1..3 : su[i] = IF i <= l THEN sentUnits[d][i] ELSE s[i - l]
  <2>1. l + Len(s) = 3
    BY <1>1, <1>2
  <2> QED BY <1>4, <1>6, <2>1
<1>9. Len(wu) = Len(wire[d]) + (3 - l) /\ wu[1] = IF 1 <= Len(wire[d]) THEN wire[d][1] ELSE s[1]
  <2>1. Len(wire[d]) + Len(s) = Len(wire[d]) + (3 - l) /\ 1 \in 1..(Len(wire[d]) + Len(s))
    BY <1>1, <1>2, <1>5
  <2>2. Len(wire[d]) = 0 => 1 - Len(wire[d]) = 1
    OBVIOUS
  <2> QED BY <1>4, <1>5, <1>7, <2>1, <2>2
<1> HIDE DEF su, wu
<1>10. su[1] = sentUnits[d][1] /\ (l >= 2 => su[2] = sentUnits[d][2])
  BY <1>1, <1>8
<1>l. Line(sentUnits[d]) /\ l = Len(sentUnits[d])
  BY DEF BrowserInv
<1>11. Line(su)
  <2>1. su[1][1] = "method" /\ su[1][3] <= Len(su)
    <3>1. sentUnits[d][1] \in LineUnits /\ sentUnits[d][1][1] = "method" /\ sentUnits[d][1][3] <= l
      BY <1>1, <1>5, <1>l DEF Line
    <3>2. sentUnits[d][1][3] \in 1..3
      BY <3>1 DEF LineUnits
    <3> QED BY <1>8, <1>10, <3>1, <3>2
  <2>2. \A k \in 2..3 : su[k][1] # "method"
    <3> SUFFICES ASSUME NEW k \in 2..3 PROVE su[k][1] # "method"
      OBVIOUS
    <3>1. CASE k <= l
      <4>1. su[k] = sentUnits[d][k] /\ k \in 2..l
        BY <1>1, <1>8, <3>1
      <4> QED BY <1>l, <4>1 DEF Line
    <3>2. CASE k > l
      <4>1. su[k] = s[k - l] /\ k - l \in 1..(3 - l)
        BY <1>1, <1>8, <3>2
      <4> QED BY <1>2, <4>1
    <3> QED BY <1>1, <3>1, <3>2
  <2> QED BY <1>8, <2>1, <2>2 DEF Line
<1>12. su # <<>>
  BY <1>4, <1>6, <1>8, EmptySeq DEF su
<1>13. Unread(d) => Unread(d)'
  BY <1>4 DEF Unread
<1>14. Begun(d) => Begun(d)'
  <2>1. SUFFICES ASSUME Begun(d) PROVE wu[1][1] # "method"
    BY <1>12 DEF Begun, su, wu
  <2>2. 1 \in 1..(3 - l)
    BY <1>1
  <2> QED BY <1>2, <1>5, <1>9, <2>1, <2>2 DEF Begun
<1>15. \A m, q : Web!Asked(d, m, q)' => Web!Asked(d, m, q)
  BY <1>5, <1>10, <1>l, AskedBefore DEF su
<1>16. Kept(d) => Kept(d)'
  <2>1. sentUnits'[d] # <<>>
    BY <1>12 DEF su
  <2> QED BY <1>4, <1>15, <2>1 DEF Kept
<1>17. Len(wire'[d]) <= Len(sentUnits'[d]) /\ Line(sentUnits'[d])
  BY <1>1, <1>5, <1>8, <1>9, <1>11 DEF su, wu
<1>19. AnswerInv(d) => AnswerInv(d)'
  <2> SUFFICES ASSUME AnswerInv(d) PROVE AnswerInv(d)'
    OBVIOUS
  <2>1. Web!OneSegment(d)' <=> Web!OneSegment(d)
    BY <1>10 DEF Web!OneSegment, su
  <2>2. ~Web!OneSegment(d)
    <3>1. sentUnits[d][1][3] <= l
      BY <1>1, <1>l DEF Line
    <3>2. sentUnits[d][1][3] = 3 => FALSE
      BY <3>1
    <3> QED BY <3>2 DEF Web!OneSegment
  <2>3. Begun(d)' => Begun(d)
    <3> SUFFICES ASSUME Begun(d)', Unread(d) PROVE FALSE
      BY DEF BrowserInv
    <3>1. Unread(d)' /\ Line(sentUnits'[d]) /\ sentUnits'[d] \in Seq(LineUnits)
      BY <1>4, <1>6, <1>13, <1>17
    <3>2. Len(sentUnits'[d]) = 3
      BY <1>8 DEF su
    <3> QED BY <3>1, <3>2 DEF Line, Unread, Begun
  <2>4. Settled(d) => Settled(d)'
    BY <1>4, <1>15, <2>1, <2>2 DEF Settled
  <2>5. \A m \in Methods, q \in Web!Pages :
          Web!Asked(d, m, q)' => RightTo(got'[d] \o output'[d], m, q, Web!OneSegment(d)')
    BY <1>4, <1>15, <2>1 DEF AnswerInv, RightTo
  <2> QED BY <1>4, <2>3, <2>4, <2>5 DEF AnswerInv
<1>18. BrowserInv(d)'
  BY <1>4, <1>13, <1>14, <1>16, <1>17, <1>19 DEF BrowserInv
<1> QED BY <1>4, <1>18

LEMMA WebClient ==
    ASSUME WebTypeOK, NEW d \in Browsers, BrowserInv(d), Web!Client(d)
    PROVE  WebTypeOK' /\ BrowserInv(d)' /\ \A c \in Browsers : c # d => Same(c)
<1>1. \/ Web!Connect(d) \/ Web!Leave(d)
      \/ \E m \in Methods, p \in Web!Pages, n \in 1..3 :
            sentUnits[d] = <<>> /\ Web!Send(d, SubSeq(Web!Request(m, p, n), 1, n))
      \/ \E p \in Web!Pages : \E x :
            /\ Len(sentUnits[d]) \in {1, 2}
            /\ Web!Send(d, SubSeq(Web!Request(x, p, 0), Len(sentUnits[d]) + 1, 3))
  BY DEF Web!Client
<1>2. CASE Web!Connect(d)
  BY <1>2, WebConnect
<1>3. CASE Web!Leave(d)
  BY <1>3, WebLeave
<1>4. ASSUME NEW m \in Methods, NEW p \in Web!Pages, NEW n \in 1..3, sentUnits[d] = <<>>,
             Web!Send(d, SubSeq(Web!Request(m, p, n), 1, n))
      PROVE  WebTypeOK' /\ BrowserInv(d)' /\ \A c \in Browsers : c # d => Same(c)
  BY <1>4, WebSendFirst
<1>5. ASSUME NEW p \in Web!Pages, NEW x, NEW l \in {1, 2}, Len(sentUnits[d]) = l,
             Web!Send(d, SubSeq(Web!Request(x, p, 0), l + 1, 3))
      PROVE  WebTypeOK' /\ BrowserInv(d)' /\ \A c \in Browsers : c # d => Same(c)
  <2>1. l \in 1..2
    BY <1>5
  <2> QED BY <1>5, <2>1, WebSendRest
<1> QED BY <1>1, <1>2, <1>3, <1>4, <1>5

-----------------------------------------------------------------------------
(* The servers. *)
LEMMA WebNewBev ==
    ASSUME WebTypeOK, NEW d \in Browsers, BrowserInv(d), Web!NewBev(d, TRUE, <<>>)
    PROVE  WebTypeOK' /\ BrowserInv(d)' /\ \A c \in Browsers : c # d => Same(c)
<1>1. /\ d \in Clients /\ conn[d] = "queued" /\ conn' = [conn EXCEPT ![d] = "open"]
      /\ reading' = [reading EXCEPT ![d] = TRUE] /\ output' = [output EXCEPT ![d] = <<>>]
      /\ UNCHANGED <<program, loop, peer, sentUnits, wire, input, got>>
  BY WebConstants DEF Web!NewBev
<1>e. <<>> \in Seq(PageUnits)
  BY EmptySeq
<1>2. conn' \in [Clients -> States]
  BY <1>1 DEF WebTypeOK, States
<1>3. reading' \in [Clients -> BOOLEAN]
  BY <1>1 DEF WebTypeOK
<1>4. output' \in [Clients -> Seq(PageUnits)]
  BY <1>1, <1>e DEF WebTypeOK
<1>5. WebTypeOK'
  BY <1>1, <1>2, <1>3, <1>4 DEF WebTypeOK
<1>6. conn'[d] = "open" /\ reading'[d] /\ output'[d] = <<>>
  BY <1>1 DEF WebTypeOK
<1>7. \A c \in Browsers : c # d => conn'[c] = conn[c] /\ output'[c] = output[c]
  BY <1>1, WebConstants DEF WebTypeOK
<1>8. \A c \in Browsers : c # d => reading'[c] = reading[c]
  BY <1>1, WebConstants DEF WebTypeOK
<1>9. Unread(d) /\ Unread(d)'
  BY <1>1, <1>6 DEF BrowserInv, Unread
<1>10. <<>> \o <<>> = <<>>
  BY <1>e, ConcatEmptySeq
<1>11. AnswerInv(d)'
  <2>1. Line(sentUnits[d]) /\ sentUnits[d] \in Seq(LineUnits)
    BY BrowserTypes DEF BrowserInv
  <2>2. ~Begun(d) /\ (Begun(d)' <=> Begun(d))
    BY <1>1, <1>9, <2>1, NotBoth DEF Begun
  <2>3. \A m, q, one : RightTo(got'[d] \o output'[d], m, q, one)
    <3>1. got'[d] = <<>> /\ output'[d] = <<>>
      BY <1>9 DEF Unread
    <3> QED BY <1>10, <3>1, NothingShown
  <2> QED BY <2>2, <2>3 DEF AnswerInv
<1>12. Kept(d)'
  BY <1>6, <1>9 DEF Kept, Unread
<1>13. BrowserInv(d)'
  BY <1>1, <1>9, <1>11, <1>12 DEF BrowserInv
<1>14. \A c \in Browsers : c # d => Same(c)
  BY <1>1, <1>7, <1>8 DEF Same
<1> QED BY <1>5, <1>13, <1>14

(* What a read callback finds in the input buffer: the request from its    *)
(* beginning, or what comes behind a beginning that has been read.         *)
LEMMA WebInput ==
    ASSUME WebTypeOK, NEW d \in Browsers, BrowserInv(d), Web!CanRead(d)
    PROVE  /\ Web!Input(d) = wire[d] /\ Web!Behind(wire[d], ReadMax) = <<>>
           /\ wire[d] # <<>> /\ sentUnits[d] # <<>>
           /\ Unread(d) => Web!Input(d)[1][1] = "method" /\ Web!Input(d) = sentUnits[d]
           /\ Begun(d) => Web!Input(d)[1][1] # "method"
<1>1. /\ wire[d] \in Seq(LineUnits) /\ Len(wire[d]) \in Nat /\ Len(wire[d]) <= 3 /\ input[d] = <<>>
      /\ Len(sentUnits[d]) \in Nat /\ Len(wire[d]) <= Len(sentUnits[d])
      /\ (wire[d] = <<>> <=> Len(wire[d]) = 0) /\ (sentUnits[d] = <<>> <=> Len(sentUnits[d]) = 0)
  BY BrowserTypes DEF BrowserInv, Line
<1>2. Len(wire[d]) <= ReadMax /\ ReadMax \in Nat
  BY <1>1, WebConstants
<1>3. Web!Upto(wire[d], ReadMax) = wire[d] /\ Web!Behind(wire[d], ReadMax) = <<>>
  BY <1>1, <1>2, AllRead
<1>4. <<>> \o wire[d] = wire[d]
  BY <1>1, ConcatEmptySeq
<1>5. Web!Input(d) = wire[d]
  BY <1>1, <1>3, <1>4 DEF Web!Input
<1>6. wire[d] # <<>>
  BY DEF Web!CanRead
<1>7. sentUnits[d] # <<>> /\ Len(sentUnits[d]) > 0
  BY <1>1, <1>6
<1>8. sentUnits[d][1][1] = "method"
  BY <1>7 DEF BrowserInv, Line
<1> QED BY <1>3, <1>5, <1>6, <1>7, <1>8 DEF Unread, Begun

(* The page a whole request line names.                                    *)
LEMMA LineNames ==
    ASSUME WebTypeOK, NEW d \in Browsers, BrowserInv(d), NEW m, NEW p, Web!Asked(d, m, p)
    PROVE  /\ Len(sentUnits[d]) > 1 /\ sentUnits[d][1][1] = "method"
           /\ sentUnits[d][1][2] = m /\ sentUnits[d][2][2] = p
<1>1. sentUnits[d][1][2] = m /\ sentUnits[d][2][2] = p /\ sentUnits[d][1][3] > 1
  BY DEF Web!Asked, Web!WholeLine
<1>2. sentUnits[d] # <<>>
  BY DEF Web!Asked
<1>3. Len(sentUnits[d]) # 0 /\ Len(sentUnits[d]) \in Nat /\ sentUnits[d] \in Seq(LineUnits)
  BY <1>2, BrowserTypes
<1>4. sentUnits[d][1] \in LineUnits /\ sentUnits[d][1][1] = "method"
      /\ sentUnits[d][1][3] <= Len(sentUnits[d])
  BY <1>3 DEF BrowserInv, Line
<1>5. sentUnits[d][1][3] \in 1..3
  BY <1>4 DEF LineUnits
<1> QED BY <1>1, <1>3, <1>4, <1>5

(* A read event: all that has come is taken, and answer is queued.         *)
LEMMA WebReadEvent ==
    ASSUME WebTypeOK, NEW d \in Browsers, BrowserInv(d), NEW answer \in Seq(PageUnits),
           Web!ReadEvent(d, <<>>, answer)
    PROVE  /\ WebTypeOK' /\ Begun(d)' /\ wire'[d] = <<>> /\ output'[d] = output[d] \o answer
           /\ UNCHANGED <<program, loop, conn, peer, sentUnits, input, reading, got>>
           /\ Web!CanRead(d)
           /\ \A c \in Browsers : c # d => Same(c)
<1>1. /\ Web!CanRead(d) /\ wire' = [wire EXCEPT ![d] = Web!Behind(wire[d], ReadMax)]
      /\ input' = [input EXCEPT ![d] = <<>>] /\ output' = [output EXCEPT ![d] = output[d] \o answer]
      /\ UNCHANGED <<program, loop, conn, peer, sentUnits, reading, got>>
  BY DEF Web!ReadEvent
<1>2. Web!Behind(wire[d], ReadMax) = <<>> /\ sentUnits[d] # <<>>
  BY <1>1, WebInput
<1>3. d \in Clients /\ output[d] \in Seq(PageUnits) /\ input[d] = <<>>
  BY BrowserTypes
<1> DEFINE o == output[d] \o answer
<1>4. o \in Seq(PageUnits)
  BY <1>3, ConcatProperties
<1>5. output' = [output EXCEPT ![d] = o]
  BY <1>1
<1> HIDE DEF o
<1>6. <<>> \in Seq(LineUnits)
  BY EmptySeq
<1>7. wire' = [wire EXCEPT ![d] = <<>>]
  BY <1>1, <1>2
<1>8. wire' \in [Clients -> Seq(LineUnits)] /\ output' \in [Clients -> Seq(PageUnits)]
  BY <1>4, <1>5, <1>6, <1>7 DEF WebTypeOK
<1>9. input' = input
  BY <1>1, <1>3 DEF WebTypeOK
<1>10. WebTypeOK'
  BY <1>1, <1>8, <1>9 DEF WebTypeOK
<1>11. wire'[d] = <<>> /\ output'[d] = o
  BY <1>3, <1>5, <1>7 DEF WebTypeOK
<1>12. \A c \in Browsers : c # d => wire'[c] = wire[c] /\ output'[c] = output[c]
  BY <1>5, <1>7, WebConstants DEF WebTypeOK
<1>13. \A c \in Browsers : c # d => Same(c)
  BY <1>1, <1>9, <1>12 DEF Same
<1>14. Begun(d)'
  BY <1>1, <1>2, <1>11 DEF Begun
<1> QED BY <1>1, <1>9, <1>10, <1>11, <1>13, <1>14 DEF o

(* The conjuncts of BrowserInv that a read event cannot touch.             *)
LEMMA WebReadKeeps ==
    ASSUME WebTypeOK, NEW d \in Browsers, BrowserInv(d), WebTypeOK', Begun(d)', wire'[d] = <<>>,
           UNCHANGED <<program, conn, sentUnits>>, conn[d] = "open",
           program = "event_wb" => AnswerInv(d)',
           program = "webserver" => Kept(d)'
    PROVE  BrowserInv(d)'
<1>2. Len(wire'[d]) = 0
  BY EmptySeq
<1>3. Len(sentUnits[d]) \in Nat
  BY BrowserTypes
<1>4. Len(wire'[d]) <= Len(sentUnits'[d]) /\ Line(sentUnits'[d])
  BY <1>2, <1>3 DEF BrowserInv
<1> QED BY <1>4 DEF BrowserInv

(* Buffers are put together from either end. *)
LEMMA PagesAssociate ==
    \A x, y, z \in Seq(PageUnits) : x \o (y \o z) = (x \o y) \o z
BY ConcatAssociative

(* event_wb.c: the page asked for or nothing, and behind it, if the rest   *)
(* of the request is read by itself, whatever the stack says.              *)
LEMMA EventWbReads ==
    ASSUME WebTypeOK, NEW d \in Browsers, BrowserInv(d), Web!ReadCb(d)
    PROVE  WebTypeOK' /\ BrowserInv(d)' /\ \A c \in Browsers : c # d => Same(c)
<1>1. program = "event_wb" /\ Web!CanRead(d) /\ conn[d] = "open" /\ AnswerInv(d)
  BY DEF Web!ReadCb, Web!CanRead, BrowserInv
<1>t. output[d] \in Seq(PageUnits) /\ got[d] \in Seq(PageUnits) /\ Len(sentUnits[d]) \in Nat
      /\ sentUnits[d] \in Seq(LineUnits)
  BY BrowserTypes
<1>2. PICK r \in Web!Scanned(Web!Input(d)) :
        Web!ReadEvent(d, <<>>, IF r[1] \in {"GET", "get"} THEN Web!HttpRequest(r[2]) ELSE <<>>)
  BY DEF Web!ReadCb
<1>3. r[2] \in Web!Pages
  <2>1. CASE Len(Web!Input(d)) > 1 /\ Web!Input(d)[1][1] = "method"
    <3>1. r[2] = Web!Input(d)[2][2]
      BY <1>2, <2>1 DEF Web!Scanned
    <3>2. Web!Input(d) = sentUnits[d]
      BY <1>1, <2>1, WebInput DEF BrowserInv
    <3>3. 2 \in 1..Len(sentUnits[d]) /\ 2 \in 2..Len(sentUnits[d])
      BY <1>t, <2>1, <3>2
    <3>4. sentUnits[d][2] \in LineUnits /\ sentUnits[d][2][1] # "method"
      BY <1>t, <3>3 DEF BrowserInv, Line
    <3> QED BY <3>1, <3>2, <3>4 DEF LineUnits
  <2>2. CASE ~(Len(Web!Input(d)) > 1 /\ Web!Input(d)[1][1] = "method")
    BY <1>2, <2>2 DEF Web!Scanned
  <2> QED BY <2>1, <2>2
<1> DEFINE a == IF r[1] \in {"GET", "get"} THEN Web!HttpRequest(r[2]) ELSE <<>>
<1>4. a \in Seq(PageUnits) /\ (a # <<>> => a[1][1] = "head")
  <2>1. <<>> \in Seq(PageUnits)
    BY EmptySeq
  <2>2. AnswerFor(Web!HttpRequest(r[2]), r[2]) /\ Web!HttpRequest(r[2]) \in Seq(PageUnits)
    BY <1>3, AnswerRight
  <2> QED BY <2>1, <2>2 DEF AnswerFor
<1>a. /\ r[1] \in {"GET", "get"} => a = Web!HttpRequest(r[2])
      /\ r[1] \notin {"GET", "get"} => a = <<>>
  OBVIOUS
<1>b. Web!ReadEvent(d, <<>>, a)
  BY <1>2
<1> HIDE DEF a
<1>5. /\ WebTypeOK' /\ Begun(d)' /\ wire'[d] = <<>> /\ output'[d] = output[d] \o a
      /\ UNCHANGED <<program, loop, conn, peer, sentUnits, input, reading, got>>
      /\ \A c \in Browsers : c # d => Same(c)
  BY <1>4, <1>b, WebReadEvent
<1>6. /\ \A m, q : Web!Asked(d, m, q)' <=> Web!Asked(d, m, q)
      /\ Web!OneSegment(d)' <=> Web!OneSegment(d)
  BY <1>5 DEF Web!Asked, Web!WholeLine, Web!OneSegment
<1> DEFINE s == got[d] \o output[d]
<1>7. got'[d] \o output'[d] = s \o a /\ s \in Seq(PageUnits)
  <2>1. /\ got[d] \in Seq(PageUnits) /\ output[d] \in Seq(PageUnits) /\ a \in Seq(PageUnits)
    BY <1>4, <1>t
  <2>2. (got[d] \o output[d]) \o a = got[d] \o (output[d] \o a)
    BY <2>1, PagesAssociate
  <2>3. got[d] \o output[d] \in Seq(PageUnits)
    BY <2>1, ConcatProperties
  <2> QED BY <1>5, <2>2, <2>3
<1>s. s = got[d] \o output[d]
  OBVIOUS
<1> HIDE DEF s
<1>8. CASE Unread(d)
  <2>1. s \o a = a
    <3>1. <<>> \in Seq(PageUnits)
      BY EmptySeq
    <3>2. <<>> \o <<>> = <<>> /\ <<>> \o a = a
      BY <1>4, <3>1, ConcatEmptySeq
    <3> QED BY <1>8, <1>s, <3>2 DEF Unread
  <2>2. ASSUME NEW m, NEW q, Web!Asked(d, m, q) PROVE r[1] = m /\ r[2] = q
    BY <1>1, <1>2, <1>8, <2>2, LineNames, WebInput DEF Web!Scanned
  <2>3. ASSUME NEW m \in Methods, NEW q \in Web!Pages, Web!Asked(d, m, q)
        PROVE  RightTo(a, m, q, Web!OneSegment(d))
    <3>1. r[1] = m /\ r[2] = q
      BY <2>2, <2>3
    <3>2. CASE m \in {"GET", "get"}
      <4>1. a = Web!HttpRequest(q) /\ AnswerFor(a, q)
        BY <1>3, <1>a, <3>1, <3>2, AnswerRight
      <4> QED BY <1>4, <3>2, <4>1, AnswerIsRight
    <3>3. CASE m \notin {"GET", "get"}
      BY <1>a, <3>1, <3>3, NothingShown
    <3> QED BY <3>2, <3>3
  <2>4. ASSUME NEW m \in {"GET", "get"}, NEW q \in Web!Pages \ {"fifo"}, Web!Asked(d, m, q)
        PROVE  a # <<>>
    BY <1>a, <2>2, <2>4, SomeAnswer
  <2>6. got'[d] \o output'[d] = a
    BY <1>7, <2>1
  <2>7. \A m \in Methods, q \in Web!Pages :
          Web!Asked(d, m, q)' => RightTo(got'[d] \o output'[d], m, q, Web!OneSegment(d)')
    BY <1>6, <2>3, <2>6 DEF RightTo
  <2>8. Settled(d)'
    BY <1>5, <1>6, <2>4, <2>6 DEF Settled
  <2>5. AnswerInv(d)'
    BY <2>7, <2>8 DEF AnswerInv
  <2> QED BY <1>1, <1>5, <2>5, WebReadKeeps
<1>9. CASE Begun(d)
  <2>1. Settled(d) /\ ~Web!OneSegment(d)
    BY <1>1, <1>9, WebInput DEF AnswerInv, Settled
  <2>2. ASSUME NEW m \in {"GET", "get"}, NEW q \in Web!Pages, q # "fifo", Web!Asked(d, m, q)
        PROVE  s # <<>>
    BY <1>s, <2>1, <2>2 DEF Settled
  <2>3. ASSUME NEW m \in Methods, NEW q \in Web!Pages, Web!Asked(d, m, q)
        PROVE  RightTo(s \o a, m, q, Web!OneSegment(d))
    <3>1. CASE m \in {"GET", "get"} /\ q # "fifo"
      <4>1. s # <<>>
        BY <2>2, <2>3, <3>1
      <4>2. StartsWith(s, q)
        BY <1>1, <1>s, <2>3, <3>1 DEF AnswerInv, RightTo
      <4>3. StartsWith(s \o a, q)
        BY <1>4, <1>7, <4>1, <4>2, NextAnswer
      <4> QED BY <2>1, <4>3 DEF RightTo
    <3>2. CASE ~(m \in {"GET", "get"} /\ q # "fifo")
      BY <2>1, <3>2 DEF RightTo
    <3> QED BY <3>1, <3>2
  <2>4. ASSUME NEW m \in {"GET", "get"}, NEW q \in Web!Pages \ {"fifo"}, Web!Asked(d, m, q)
        PROVE  s \o a # <<>>
    <3>1. s # <<>> /\ Len(s) # 0 /\ Len(s) \in Nat /\ Len(a) \in Nat
      BY <1>4, <1>7, <2>2, <2>4, EmptySeq
    <3>2. Len(s \o a) = Len(s) + Len(a) /\ s \o a \in Seq(PageUnits)
      BY <1>4, <1>7, ConcatProperties
    <3>3. Len(s \o a) # 0
      BY <3>1, <3>2
    <3> QED BY <3>2, <3>3, EmptySeq
  <2>6. got'[d] \o output'[d] = s \o a
    BY <1>7
  <2>7. \A m \in Methods, q \in Web!Pages :
          Web!Asked(d, m, q)' => RightTo(got'[d] \o output'[d], m, q, Web!OneSegment(d)')
    BY <1>6, <2>3, <2>6 DEF RightTo
  <2>8. Settled(d)'
    BY <1>5, <1>6, <2>4, <2>6 DEF Settled
  <2>5. AnswerInv(d)'
    BY <2>7, <2>8 DEF AnswerInv
  <2> QED BY <1>1, <1>5, <2>5, WebReadKeeps
<1> QED BY <1>8, <1>9 DEF BrowserInv

-----------------------------------------------------------------------------
LEMMA HeadMoves ==
    ASSUME NEW U, NEW g \in Seq(U), NEW o \in Seq(U), o # <<>>
    PROVE  /\ Append(g, Head(o)) \in Seq(U) /\ Tail(o) \in Seq(U)
           /\ Append(g, Head(o)) \o Tail(o) = g \o o
<1>1. Head(o) \in U /\ Tail(o) \in Seq(U) /\ <<Head(o)>> \in Seq(U)
  BY HeadTailProperties
<1>2. Append(g, Head(o)) \in Seq(U) /\ Append(g, Head(o)) = g \o <<Head(o)>>
  BY <1>1, AppendProperties, AppendIsConcat
<1>3. <<Head(o)>> \o Tail(o) = o
  <2>1. Len(o) \in Nat /\ Len(o) >= 1
    BY EmptySeq
  <2>2. SubSeq(o, 1, Len(o)) = <<o[1]>> \o SubSeq(o, 1 + 1, Len(o))
    BY <2>1, SubSeqRecursiveFirst
  <2>3. SubSeq(o, 1, Len(o)) = o /\ Tail(o) = SubSeq(o, 2, Len(o)) /\ Head(o) = o[1]
    BY SubSeqFull, TailIsSubSeq
  <2> QED BY <2>2, <2>3
<1>4. (g \o <<Head(o)>>) \o Tail(o) = g \o (<<Head(o)>> \o Tail(o))
  BY <1>1, ConcatAssociative
<1> QED BY <1>1, <1>2, <1>3, <1>4

(* No program becomes another. *)
LEMMA EchoProgram == Echo!Next => program' = program
<1>1. ASSUME NEW c, NEW s, Echo!Send(c, s) PROVE program' = program
  BY <1>1 DEF Echo!Send
<1> QED
  BY <1>1 DEF Echo!Next, Echo!SignalCb, Echo!SampleSignalCb, Echo!LoopExit, Echo!ListenerBreaks,
     Echo!Sigint, Echo!Stop, Echo!Client, Echo!Connect, Echo!Leave, Echo!Listening,
     Echo!ChangeListenerCb, Echo!ListenCb, Echo!SampleListenerCb, Echo!NewBev, Echo!Writing,
     Echo!Written, Echo!SampleWritecb, Echo!Sigpipe, Echo!Drain, Echo!DrainAndFree, Echo!Reading,
     Echo!ConnReadcb, Echo!Readcb, Echo!ReadEvent, Echo!Ending, Echo!ConnEventcb, Echo!DemoEventcb,
     Echo!SampleEventcb, Echo!EndFrees, Echo!WriteFrees, Echo!Gone

LEMMA WebReadAndFree ==
    ASSUME WebTypeOK, NEW d \in Browsers, BrowserInv(d), Web!ReadAndFree(d), program # "event_wb"
    PROVE  WebTypeOK' /\ BrowserInv(d)' /\ \A c \in Browsers : c # d => Same(c)
<1>1. /\ Web!CanRead(d) /\ conn' = [conn EXCEPT ![d] = "freed"] /\ wire' = [wire EXCEPT ![d] = <<>>]
      /\ input' = [input EXCEPT ![d] = <<>>] /\ output' = [output EXCEPT ![d] = <<>>]
      /\ UNCHANGED <<program, loop, peer, sentUnits, reading, got>>
  BY DEF Web!ReadAndFree
<1>2. d \in Clients /\ input[d] = <<>> /\ Len(sentUnits[d]) \in Nat /\ sentUnits[d] # <<>>
  BY <1>1, BrowserTypes, WebInput
<1>3. <<>> \in Seq(PageUnits) /\ <<>> \in Seq(LineUnits) /\ Len(<<>>) = 0
  BY EmptySeq
<1>4. conn' \in [Clients -> States]
  BY <1>1 DEF WebTypeOK, States
<1>5. wire' \in [Clients -> Seq(LineUnits)] /\ output' \in [Clients -> Seq(PageUnits)]
  BY <1>1, <1>3 DEF WebTypeOK
<1>6. input' = input
  BY <1>1, <1>2 DEF WebTypeOK
<1>7. WebTypeOK'
  BY <1>1, <1>4, <1>5, <1>6 DEF WebTypeOK
<1>8. conn'[d] = "freed" /\ wire'[d] = <<>>
  BY <1>1, <1>2 DEF WebTypeOK
<1>9. \A c \in Browsers : c # d => conn'[c] = conn[c] /\ wire'[c] = wire[c] /\ output'[c] = output[c]
  BY <1>1, WebConstants DEF WebTypeOK
<1>10. \A c \in Browsers : c # d => Same(c)
  BY <1>1, <1>6, <1>9 DEF Same
<1>11. Begun(d)'
  BY <1>1, <1>2, <1>8 DEF Begun
<1>12. Len(wire'[d]) <= Len(sentUnits'[d]) /\ Line(sentUnits'[d])
  BY <1>1, <1>2, <1>3, <1>8 DEF BrowserInv
<1>13. BrowserInv(d)'
  BY <1>1, <1>8, <1>11, <1>12 DEF BrowserInv, Kept
<1> QED BY <1>7, <1>10, <1>13

(* webServer.c: an answer and the end, or, for what it does not answer,    *)
(* something that stays in the buffer.                                     *)
LEMMA WebServerReads ==
    ASSUME WebTypeOK, NEW d \in Browsers, BrowserInv(d), Web!WebReadCb(d)
    PROVE  WebTypeOK' /\ BrowserInv(d)' /\ \A c \in Browsers : c # d => Same(c)
<1>1. program = "webserver" /\ Web!CanRead(d) /\ conn[d] = "open"
  BY DEF Web!WebReadCb, Web!CanRead
<1>t. output[d] \in Seq(PageUnits) /\ Len(sentUnits[d]) \in Nat /\ sentUnits[d] \in Seq(LineUnits)
  BY BrowserTypes
<1>s. sentUnits[d] # <<>> /\ wire[d] # <<>> /\ Len(sentUnits[d]) # 0
  BY <1>1, WebInput, BrowserTypes
(* Asked for a page that is answered, it finds the method and the page.    *)
<1>2. ASSUME NEW p \in Answers, Web!Asked(d, "GET", p)
      PROVE  Web!ScannedClear(Web!Input(d)) = <<"GET", p>>
  <2>1. wire[d] = sentUnits[d]
    BY <1>1, <1>2 DEF BrowserInv, Kept
  <2>2. Web!Input(d) = sentUnits[d]
    BY <1>1, <2>1, WebInput
  <2> QED BY <1>2, <2>2, LineNames DEF Web!ScannedClear
<1> DEFINE r == Web!ScannedClear(Web!Input(d))
<1>r. \A p \in Answers : Web!Asked(d, "GET", p) => r[1] = "GET" /\ r[2] = p
  BY <1>2
<1>w. IF r[1] = "GET" THEN Web!ReadCbGet(d, r[2]) ELSE Web!ReadEvent(d, <<>>, <<>>)
  BY DEF Web!WebReadCb
<1> HIDE DEF r
<1>3. ASSUME NEW answer \in Seq(PageUnits), Web!ReadEvent(d, <<>>, answer),
             \A p \in Answers : ~Web!Asked(d, "GET", p)
      PROVE  WebTypeOK' /\ BrowserInv(d)' /\ \A c \in Browsers : c # d => Same(c)
  <2>1. /\ WebTypeOK' /\ Begun(d)' /\ wire'[d] = <<>>
        /\ UNCHANGED <<program, loop, conn, peer, sentUnits, input, reading, got>>
        /\ \A c \in Browsers : c # d => Same(c)
    BY <1>3, WebReadEvent
  <2>2. \A p \in Answers : ~Web!Asked(d, "GET", p)'
    BY <1>3, <2>1 DEF Web!Asked, Web!WholeLine
  <2>3. Kept(d)'
    BY <1>s, <2>1, <2>2 DEF Kept
  <2>4. BrowserInv(d)'
    BY <1>1, <2>1, <2>3, WebReadKeeps
  <2> QED BY <2>1, <2>4
<1>4. CASE r[1] = "GET"
  <2> DEFINE p == r[2]
  <2>1. Web!ReadCbGet(d, p)
    BY <1>4, <1>w
  <2> HIDE DEF p
  <2>2. CASE p \in {"file", "locked", "dir", "gone"}
    <3>1. Web!ReadAndFree(d)
      BY <2>1, <2>2 DEF Web!ReadCbGet
    <3> QED BY <1>1, <3>1, WebReadAndFree
  <2>3. CASE p \notin {"file", "locked", "dir", "gone"}
    <3>1. \A q \in Answers : q \in {"file", "locked", "dir", "gone"}
      BY DEF Answers, Web!Pages
    <3>2. \A q \in Answers : ~Web!Asked(d, "GET", q)
      BY <1>r, <2>3, <3>1 DEF p
    <3>3. Web!ReadEvent(d, <<>>,
             IF p = "lockeddir" THEN Web!SendHeader(200, 0) \o Web!SendFile("front") ELSE <<>>)
      BY <2>1, <2>3 DEF Web!ReadCbGet
    <3>4. (IF p = "lockeddir" THEN Web!SendHeader(200, 0) \o Web!SendFile("front") ELSE <<>>)
             \in Seq(PageUnits)
      BY KeptUnits
    <3> QED BY <1>3, <3>2, <3>3, <3>4
  <2> QED BY <2>2, <2>3
<1>5. CASE r[1] # "GET"
  <2>1. Web!ReadEvent(d, <<>>, <<>>)
    BY <1>5, <1>w
  <2>2. \A p \in Answers : ~Web!Asked(d, "GET", p)
    BY <1>5, <1>r
  <2>3. <<>> \in Seq(PageUnits)
    BY EmptySeq
  <2> QED BY <1>3, <2>1, <2>2, <2>3
<1> QED BY <1>4, <1>5

(* Everything that lets a client go ... *)
LEMMA WebGone ==
    ASSUME WebTypeOK, NEW d \in Browsers, BrowserInv(d), Web!Gone(d), Web!Reported(d)
    PROVE  WebTypeOK' /\ BrowserInv(d)' /\ \A c \in Browsers : c # d => Same(c)
<1>1. /\ conn' = [conn EXCEPT ![d] = "freed"]
      /\ input' = [input EXCEPT ![d] = <<>>] /\ output' = [output EXCEPT ![d] = <<>>]
      /\ UNCHANGED <<program, loop, sentUnits, wire, reading, got>>
      /\ peer' = [peer EXCEPT ![d] = IF @ = "rst" THEN "broken" ELSE @]
  BY DEF Web!Gone, Web!Reported
<1>2. /\ d \in Clients /\ input[d] = <<>> /\ got[d] \in Seq(PageUnits) /\ output[d] \in Seq(PageUnits)
  BY BrowserTypes
<1>3. <<>> \in Seq(PageUnits)
  BY EmptySeq
<1>4. conn' \in [Clients -> States] /\ peer' \in [Clients -> Leaves]
  BY <1>1 DEF WebTypeOK, States, Leaves
<1>5. output' \in [Clients -> Seq(PageUnits)]
  BY <1>1, <1>3 DEF WebTypeOK
<1>6. input' = input
  BY <1>1, <1>2 DEF WebTypeOK
<1>7. WebTypeOK'
  BY <1>1, <1>4, <1>5, <1>6 DEF WebTypeOK
<1>8. conn'[d] = "freed" /\ output'[d] = <<>>
  BY <1>1, <1>2 DEF WebTypeOK
<1>9. \A c \in Browsers : c # d => conn'[c] = conn[c] /\ output'[c] = output[c] /\ peer'[c] = peer[c]
  BY <1>1, WebConstants DEF WebTypeOK
<1>10. \A c \in Browsers : c # d => Same(c)
  BY <1>1, <1>6, <1>9 DEF Same
<1>11. got'[d] \o output'[d] = got[d]
  BY <1>1, <1>2, <1>8, ConcatEmptySeq
<1>12. \A m, p, one : RightTo(got[d] \o output[d], m, p, one) => RightTo(got[d], m, p, one)
  BY <1>2, RightFromStart
<1>13. /\ \A m, p : Web!Asked(d, m, p)' <=> Web!Asked(d, m, p)
       /\ Web!OneSegment(d)' <=> Web!OneSegment(d)
  BY <1>1 DEF Web!Asked, Web!WholeLine, Web!OneSegment
<1>14. Unread(d)' \/ Begun(d)'
  BY <1>1, <1>8 DEF BrowserInv, Unread, Begun
<1>16. AnswerInv(d) => AnswerInv(d)'
  <2> SUFFICES ASSUME AnswerInv(d) PROVE AnswerInv(d)'
    OBVIOUS
  <2>1. \A m \in Methods, p \in Web!Pages :
          Web!Asked(d, m, p)' => RightTo(got[d], m, p, Web!OneSegment(d))
    BY <1>12, <1>13 DEF AnswerInv
  <2>2. \A m \in Methods, p \in Web!Pages :
          Web!Asked(d, m, p)' => RightTo(got'[d] \o output'[d], m, p, Web!OneSegment(d)')
    BY <1>11, <1>13, <2>1 DEF RightTo
  <2> QED BY <1>8, <2>2 DEF AnswerInv
<1>15. BrowserInv(d)'
  BY <1>1, <1>8, <1>14, <1>16 DEF BrowserInv, Kept
<1> QED BY <1>7, <1>10, <1>15

(* ... or tells nobody. *)
LEMMA WebNoEvent ==
    ASSUME WebTypeOK, NEW d \in Browsers, BrowserInv(d), Web!NoEventCb(d)
    PROVE  WebTypeOK' /\ BrowserInv(d)' /\ \A c \in Browsers : c # d => Same(c)
<1>1. program = "webserver" /\ peer' = [peer EXCEPT ![d] = IF @ = "rst" THEN "broken" ELSE @]
  BY DEF Web!NoEventCb, Web!EndIgnored, Web!WriteIgnored, Web!Reported
<1>2. d \in Clients /\ peer' \in [Clients -> Leaves]
  BY <1>1, WebConstants DEF WebTypeOK, Leaves
<1>3. /\ peer[d] # "none" => peer'[d] # "none"
      /\ \A c \in Browsers : c # d => peer'[c] = peer[c]
  BY <1>1, <1>2, WebConstants DEF WebTypeOK
<1>4. CASE Web!EndIgnored(d)
  <2>1. /\ conn[d] = "open" /\ wire[d] = <<>> /\ peer[d] # "none"
        /\ reading' = [reading EXCEPT ![d] = FALSE]
        /\ UNCHANGED <<program, loop, conn, sentUnits, wire, input, output, got>>
    BY <1>4 DEF Web!EndIgnored, Web!AtEnd
  <2>2. reading' \in [Clients -> BOOLEAN]
    BY <2>1 DEF WebTypeOK
  <2>3. \A c \in Browsers : c # d => reading'[c] = reading[c]
    BY <2>1, WebConstants DEF WebTypeOK
  <2>4. WebTypeOK'
    BY <1>2, <2>1, <2>2 DEF WebTypeOK
  <2>5. \A c \in Browsers : c # d => Same(c)
    BY <1>3, <2>1, <2>3 DEF Same
  <2>6. \A p \in Answers : ~Web!Asked(d, "GET", p)
    <3>1. \A p : Web!Asked(d, "GET", p) => wire[d] # sentUnits[d]
      BY <2>1 DEF Web!Asked
    <3> QED BY <1>1, <2>1, <3>1 DEF BrowserInv, Kept
  <2>7. \A m, p : Web!Asked(d, m, p)' <=> Web!Asked(d, m, p)
    BY <2>1 DEF Web!Asked, Web!WholeLine
  <2>8. Kept(d)'
    BY <1>3, <2>1, <2>6, <2>7 DEF Kept
  <2>9. BrowserInv(d)'
    BY <1>1, <2>1, <2>8 DEF BrowserInv, Unread, Begun
  <2> QED BY <2>4, <2>5, <2>9
<1>5. CASE Web!WriteIgnored(d)
  <2>1. /\ conn[d] = "open" /\ peer[d] # "none" /\ output' = [output EXCEPT ![d] = <<>>]
        /\ UNCHANGED <<program, loop, conn, sentUnits, wire, reading, input, got>>
    BY <1>5 DEF Web!WriteIgnored, Web!WriteFails, Web!CanWrite
  <2>2. <<>> \in Seq(PageUnits)
    BY EmptySeq
  <2>3. output' \in [Clients -> Seq(PageUnits)]
    BY <2>1, <2>2 DEF WebTypeOK
  <2>4. output'[d] = <<>> /\ \A c \in Browsers : c # d => output'[c] = output[c]
    BY <1>2, <2>1, WebConstants DEF WebTypeOK
  <2>5. WebTypeOK'
    BY <1>2, <2>1, <2>3 DEF WebTypeOK
  <2>6. \A c \in Browsers : c # d => Same(c)
    BY <1>3, <2>1, <2>4 DEF Same
  <2>7. \A m, p : Web!Asked(d, m, p)' <=> Web!Asked(d, m, p)
    BY <2>1 DEF Web!Asked, Web!WholeLine
  <2>8. Kept(d)'
    BY <1>1, <1>3, <2>1, <2>7 DEF BrowserInv, Kept
  <2>9. Unread(d)' \/ Begun(d)'
    BY <2>1, <2>4 DEF BrowserInv, Unread, Begun
  <2>10. BrowserInv(d)'
    BY <1>1, <2>1, <2>8, <2>9 DEF BrowserInv
  <2> QED BY <2>5, <2>6, <2>10
<1> QED BY <1>4, <1>5 DEF Web!NoEventCb

(* Units are only moved from the buffer to the client. *)
LEMMA WebDrain ==
    ASSUME WebTypeOK, NEW d \in Browsers, BrowserInv(d), Web!Drain(d)
    PROVE  WebTypeOK' /\ BrowserInv(d)' /\ \A c \in Browsers : c # d => Same(c)
<1>1. /\ conn[d] = "open" /\ output[d] # <<>>
      /\ got' = [got EXCEPT ![d] = Append(got[d], Head(output[d]))]
      /\ output' = [output EXCEPT ![d] = Tail(output[d])]
      /\ UNCHANGED <<program, loop, conn, peer, sentUnits, wire, reading, input>>
  BY DEF Web!Drain, Web!CanWrite
<1>2. d \in Clients /\ output[d] \in Seq(PageUnits) /\ got[d] \in Seq(PageUnits)
  BY BrowserTypes
<1> DEFINE g == Append(got[d], Head(output[d]))
           o == Tail(output[d])
<1>3. g \in Seq(PageUnits) /\ o \in Seq(PageUnits) /\ g \o o = got[d] \o output[d]
  <2>1. /\ got[d] \in Seq(PageUnits) /\ output[d] \in Seq(PageUnits) /\ output[d] # <<>>
    BY <1>1, <1>2
  <2> QED BY <2>1, HeadMoves
<1>4. got' = [got EXCEPT ![d] = g] /\ output' = [output EXCEPT ![d] = o]
  BY <1>1
<1> HIDE DEF g, o
<1>5. got' \in [Clients -> Seq(PageUnits)] /\ output' \in [Clients -> Seq(PageUnits)]
  BY <1>3, <1>4 DEF WebTypeOK
<1>6. WebTypeOK'
  BY <1>1, <1>5 DEF WebTypeOK
<1>7. got'[d] = g /\ output'[d] = o
  BY <1>2, <1>4 DEF WebTypeOK
<1>8. \A c \in Browsers : c # d => got'[c] = got[c] /\ output'[c] = output[c]
  BY <1>4, WebConstants DEF WebTypeOK
<1>9. \A c \in Browsers : c # d => Same(c)
  BY <1>1, <1>8 DEF Same
<1>10. got'[d] \o output'[d] = got[d] \o output[d]
  BY <1>3, <1>7
<1>11. \A m, p : Web!Asked(d, m, p)' <=> Web!Asked(d, m, p)
  BY <1>1 DEF Web!Asked, Web!WholeLine
<1>12. Begun(d)'
  BY <1>1 DEF BrowserInv, Unread, Begun
<1>13. Kept(d) => Kept(d)'
  BY <1>1, <1>11 DEF Kept
<1>15. AnswerInv(d) => AnswerInv(d)'
  <2>1. /\ Web!OneSegment(d)' <=> Web!OneSegment(d)
        /\ Begun(d)' <=> Begun(d)
    BY <1>1 DEF Web!OneSegment, Begun
  <2>2. Settled(d) => Settled(d)'
    BY <1>1, <1>10, <1>11, <2>1 DEF Settled
  <2>3. AnswerInv(d) => \A m \in Methods, p \in Web!Pages :
          Web!Asked(d, m, p)' => RightTo(got'[d] \o output'[d], m, p, Web!OneSegment(d)')
    BY <1>10, <1>11, <2>1 DEF AnswerInv, RightTo
  <2> QED BY <1>1, <2>1, <2>2, <2>3 DEF AnswerInv
<1>14. BrowserInv(d)'
  BY <1>1, <1>12, <1>13, <1>15 DEF BrowserInv
<1> QED BY <1>6, <1>9, <1>14

-----------------------------------------------------------------------------
LEMMA WebInit == Web!Init => WebInv
<1> SUFFICES ASSUME Web!Init PROVE WebInv
  OBVIOUS
<1>1. /\ conn = [c \in Clients |-> "idle"] /\ peer = [c \in Clients |-> "none"]
      /\ sentUnits = [c \in Clients |-> <<>>] /\ wire = [c \in Clients |-> <<>>]
      /\ reading = [c \in Clients |-> FALSE] /\ input = [c \in Clients |-> <<>>]
      /\ output = [c \in Clients |-> <<>>] /\ got = [c \in Clients |-> <<>>]
  BY DEF Web!Init, Web!BevInit, Web!Empty
<1>2. <<>> \in Seq(PageUnits) /\ <<>> \in Seq(LineUnits) /\ Len(<<>>) = 0 /\ <<>> \o <<>> = <<>>
  <2>1. \A U : <<>> \in Seq(U) /\ Len(<<>>) = 0
    BY EmptySeq
  <2>2. <<>> \in Seq(PageUnits)
    BY <2>1
  <2> QED BY <2>1, <2>2, ConcatEmptySeq
<1>3. WebTypeOK
  BY <1>1, <1>2 DEF WebTypeOK, States, Leaves
<1>4. ASSUME NEW c \in Browsers PROVE BrowserInv(c)
  <2>1. /\ c \in Clients /\ conn[c] = "idle" /\ sentUnits[c] = <<>> /\ wire[c] = <<>>
        /\ output[c] = <<>> /\ got[c] = <<>>
    BY <1>1, WebConstants
  <2>2. Line(sentUnits[c]) /\ Len(wire[c]) <= Len(sentUnits[c])
    BY <1>2, <2>1 DEF Line
  <2>3. \A m, p, one : RightTo(got[c] \o output[c], m, p, one)
    BY <1>2, <2>1, NothingShown
  <2>4. AnswerInv(c)
    BY <2>1, <2>3 DEF AnswerInv, Begun
  <2> QED BY <2>1, <2>2, <2>4 DEF BrowserInv, Unread, Kept
<1> QED BY <1>3, <1>4 DEF WebInv

LEMMA BrowserStep == WebInv /\ [MCNext]_allVars => WebInv'
<1> SUFFICES ASSUME WebInv, [MCNext]_allVars PROVE WebInv'
  OBVIOUS
<1>1. CASE UNCHANGED bevVars
  <2>1. UNCHANGED <<program, conn, peer, sentUnits, wire, reading, input, output, got>>
    BY <1>1 DEF bevVars
  <2>2. WebTypeOK => WebTypeOK'
    BY <2>1 DEF WebTypeOK
  <2>3. \A c \in Browsers : BrowserInv(c) => BrowserInv(c)'
    BY <2>1, BrowserSame DEF Same
  <2> QED BY <2>1, <2>2, <2>3 DEF WebInv
<1>2. CASE Web!Next /\ program \in Web!WebPrograms
  <2>1. WebTypeOK /\ \A c \in Browsers : BrowserInv(c)
    BY <1>2 DEF WebInv
  <2>2. PICK d \in Browsers :
           Web!Client(d) \/ Web!Listening(d) \/ Web!Reading(d) \/ Web!Ending(d) \/ Web!Writing(d)
    BY <1>2 DEF Web!Next
  <2>3. WebTypeOK' /\ BrowserInv(d)' /\ \A c \in Browsers : c # d => Same(c)
    <3>1. CASE Web!Client(d)
      BY <2>1, <3>1, WebClient
    <3>2. CASE Web!Listening(d)
      BY <2>1, <3>2, WebNewBev DEF Web!Listening, Web!ListenCb, Web!ListenerCb
    <3>3. CASE Web!Reading(d)
      BY <2>1, <3>3, EventWbReads, WebServerReads DEF Web!Reading
    <3>4. CASE Web!BeventCb(d)
      BY <2>1, <3>4, WebGone DEF Web!BeventCb, Web!EndFrees, Web!WriteFrees
    <3>5. CASE Web!NoEventCb(d)
      BY <2>1, <3>5, WebNoEvent
    <3>6. CASE Web!Drain(d)
      BY <2>1, <3>6, WebDrain
    <3>7. CASE Web!Sigpipe(d)
      <4>1. UNCHANGED <<program, conn, peer, sentUnits, wire, reading, input, output, got>>
        BY <3>7 DEF Web!Sigpipe, Web!Stop
      <4>2. WebTypeOK'
        BY <2>1, <4>1 DEF WebTypeOK
      <4> QED BY <2>1, <4>1, <4>2, BrowserSame DEF Same
    <3> QED BY <2>2, <3>1, <3>2, <3>3, <3>4, <3>5, <3>6, <3>7 DEF Web!Ending, Web!Writing
  <2> QED BY <2>1, <2>3, BrowserSame DEF WebInv
<1>3. CASE Echo!Next /\ program \in Echo!EchoPrograms
  <2>1. program \notin Web!WebPrograms
    BY <1>3 DEF Echo!EchoPrograms, Web!WebPrograms
  <2>2. program' = program
    BY <1>3, EchoProgram
  <2> QED BY <2>1, <2>2 DEF WebInv
<1> QED BY <1>1, <1>2, <1>3 DEF MCNext, Table, allVars, Next

LEMMA PagesFollow == WebInv => PagesRight
<1> SUFFICES ASSUME WebInv PROVE PagesRight
  OBVIOUS
<1>1. Web!RightPage
  <2>1. ASSUME program = "event_wb", NEW c \in Browsers, NEW m \in Methods, NEW p \in Web!Pages,
               Web!Asked(c, m, p)
        PROVE  RightTo(got[c] \o output[c], m, p, Web!OneSegment(c))
    BY <2>1 DEF WebInv, Web!WebPrograms, BrowserInv, AnswerInv
  <2>2. program = "event_wb" => \A c \in Browsers, m \in Methods, p \in Web!Pages :
          Web!Asked(c, m, p) => RightTo(got[c] \o output[c], m, p, Web!OneSegment(c))
    BY <2>1
  <2> QED BY <2>2, ZenonT(60) DEF RightTo, StartsWith, OneAnswer, Web!RightPage
<1>2. Web!LeaksUnanswered
  <2> SUFFICES ASSUME program = "webserver", NEW c \in Browsers, NEW p \in Web!Pages,
                      conn[c] = "open", ~reading[c], Web!Asked(c, "GET", p)
               PROVE  p \in {"lockeddir", "fifo"}
    BY DEF Web!LeaksUnanswered
  <2>1. Kept(c)
    BY DEF WebInv, Web!WebPrograms, BrowserInv
  <2> QED BY <2>1 DEF Kept, Answers
<1> QED BY <1>1, <1>2 DEF PagesRight

(* Of event_wb.c a browser gets the page it named or the beginning of it,  *)
(* and nothing else, if its request came in one segment; if it was cut     *)
(* behind the request line, that page comes before anything else.          *)
(* webServer.c keeps only connections that asked for what it cannot show.  *)
THEOREM PagesAreRight == MCSpec => []PagesRight
<1>1. MCInit => WebInv
  <2>1. Echo!Init => WebInv
    BY DEF Echo!Init, Echo!ChangeMain, Echo!DemoMain, Echo!SampleMain, WebInv, Web!WebPrograms
  <2>2. program = "table" => WebInv
    BY DEF WebInv, Web!WebPrograms
  <2> QED BY <2>1, <2>2, WebInit DEF MCInit
<1> QED BY <1>1, BrowserStep, PagesFollow, PTL DEF MCSpec

-----------------------------------------------------------------------------
(* The clients of the greeters.                                            *)
Units == {"greet", "sent", "over"} \X Nat

GreetersTypeOK ==
    /\ sentUnits \in [Clients -> Seq(Units)] /\ wire \in [Clients -> Seq(Units)]
    /\ input \in [Clients -> Seq(Units)] /\ output \in [Clients -> Seq(Units)]
    /\ got \in [Clients -> Seq(Units)]
    /\ conn \in [Clients -> States] /\ peer \in [Clients -> Leaves]
    /\ reading \in [Clients -> BOOLEAN]

(* The numbers of what the client sent rise in s, are lower in s than in t,*)
(* and none is above n.                                                    *)
Rising(s) ==
    \A j, k \in 1..Len(s) : j < k /\ Echo!Sent(s[j]) /\ Echo!Sent(s[k]) => s[j][2] < s[k][2]
Before(s, t) ==
    \A j \in 1..Len(s), k \in 1..Len(t) : Echo!Sent(s[j]) /\ Echo!Sent(t[k]) => s[j][2] < t[k][2]
Within(s, n) == \A k \in 1..Len(s) : Echo!Sent(s[k]) => s[k][2] <= n

ClientInv(c) ==
    /\ Rising(sentUnits[c]) /\ Within(sentUnits[c], Len(sentUnits[c]))
    /\ conn[c] \in {"idle", "queued"} =>
         got[c] = <<>> /\ output[c] = <<>> /\ input[c] = <<>> /\ wire[c] = sentUnits[c]
    /\ conn[c] = "open" =>
         /\ Rising(Echo!Path(c)) /\ Within(Echo!Path(c), Len(sentUnits[c]))
         /\ program = "change" => Echo!Path(c) = Echo!Greeting \o sentUnits[c]
         /\ program = "sample" => got[c] \o output[c] = Echo!Greeting /\ ~reading[c]
    /\ conn[c] = "freed" /\ program = "sample" => got[c] = Echo!Greeting \/ peer[c] # "none"

EchoInv == program \in Echo!EchoPrograms => GreetersTypeOK /\ \A c \in Clients : ClientInv(c)

-----------------------------------------------------------------------------
(* Sequences of units, put together. *)
LEMMA Together ==
    ASSUME NEW s \in Seq(Units), NEW t \in Seq(Units)
    PROVE  /\ s \o t \in Seq(Units) /\ Len(s) \in Nat /\ Len(t) \in Nat
           /\ Len(s \o t) = Len(s) + Len(t)
           /\ \A k \in 1..Len(s) : k \in 1..(Len(s) + Len(t)) /\ (s \o t)[k] = s[k]
           /\ \A k \in 1..Len(t) : Len(s) + k \in 1..(Len(s) + Len(t)) /\ (s \o t)[Len(s) + k] = t[k]
           /\ \A k \in 1..(Len(s) + Len(t)) : k \in 1..Len(s) \/ \E m \in 1..Len(t) : k = Len(s) + m
<1> DEFINE u == s \o t
<1>1. Len(s) \in Nat /\ Len(t) \in Nat
  OBVIOUS
<1>2. /\ u \in Seq(Units) /\ Len(u) = Len(s) + Len(t)
      /\ \A i \in 1..(Len(s) + Len(t)) : u[i] = IF i <= Len(s) THEN s[i] ELSE t[i - Len(s)]
  BY ConcatProperties
<1> HIDE DEF u
<1>3. \A k \in 1..Len(s) : k \in 1..(Len(s) + Len(t)) /\ u[k] = s[k]
  BY <1>1, <1>2
<1>4. \A k \in 1..Len(t) : Len(s) + k \in 1..(Len(s) + Len(t)) /\ u[Len(s) + k] = t[k]
  <2> TAKE k \in 1..Len(t)
  <2>1. Len(s) + k \in 1..(Len(s) + Len(t)) /\ ~(Len(s) + k <= Len(s)) /\ Len(s) + k - Len(s) = k
    BY <1>1
  <2> QED BY <1>2, <2>1
<1>5. ASSUME NEW k \in 1..(Len(s) + Len(t))
      PROVE  k \in 1..Len(s) \/ \E m \in 1..Len(t) : k = Len(s) + m
  <2>1. k \in 1..Len(s) \/ (k - Len(s) \in 1..Len(t) /\ k = Len(s) + (k - Len(s)))
    BY <1>1
  <2> QED BY <2>1
<1> QED BY <1>1, <1>2, <1>3, <1>4, <1>5 DEF u

LEMMA BeforeBoth ==
    ASSUME NEW s \in Seq(Units), NEW t \in Seq(Units), NEW r \in Seq(Units)
    PROVE  /\ Before(s \o t, r) <=> Before(s, r) /\ Before(t, r)
           /\ Before(r, s \o t) <=> Before(r, s) /\ Before(r, t)
<1> DEFINE u == s \o t
<1>1. /\ Len(s) \in Nat /\ Len(t) \in Nat /\ Len(u) = Len(s) + Len(t)
      /\ \A k \in 1..Len(s) : k \in 1..Len(u) /\ u[k] = s[k]
      /\ \A k \in 1..Len(t) : Len(s) + k \in 1..Len(u) /\ u[Len(s) + k] = t[k]
      /\ \A k \in 1..Len(u) : k \in 1..Len(s) \/ \E m \in 1..Len(t) : k = Len(s) + m
  BY Together
<1> HIDE DEF u
<1>2. Before(u, r) => Before(s, r) /\ Before(t, r)
  BY <1>1 DEF Before
<1>3. ASSUME Before(s, r), Before(t, r) PROVE Before(u, r)
  <2> SUFFICES ASSUME NEW j \in 1..Len(u), NEW k \in 1..Len(r), Echo!Sent(u[j]), Echo!Sent(r[k])
               PROVE  u[j][2] < r[k][2]
    BY DEF Before
  <2>1. CASE j \in 1..Len(s)
    BY <1>1, <1>3, <2>1 DEF Before
  <2>2. ASSUME NEW m \in 1..Len(t), j = Len(s) + m PROVE u[j][2] < r[k][2]
    BY <1>1, <1>3, <2>2 DEF Before
  <2> QED BY <1>1, <2>1, <2>2
<1>4. Before(r, u) => Before(r, s) /\ Before(r, t)
  BY <1>1 DEF Before
<1>5. ASSUME Before(r, s), Before(r, t) PROVE Before(r, u)
  <2> SUFFICES ASSUME NEW j \in 1..Len(r), NEW k \in 1..Len(u), Echo!Sent(r[j]), Echo!Sent(u[k])
               PROVE  r[j][2] < u[k][2]
    BY DEF Before
  <2>1. CASE k \in 1..Len(s)
    BY <1>1, <1>5, <2>1 DEF Before
  <2>2. ASSUME NEW m \in 1..Len(t), k = Len(s) + m PROVE r[j][2] < u[k][2]
    BY <1>1, <1>5, <2>2 DEF Before
  <2> QED BY <1>1, <2>1, <2>2
<1> QED BY <1>2, <1>3, <1>4, <1>5 DEF u

LEMMA WithinBoth ==
    ASSUME NEW s \in Seq(Units), NEW t \in Seq(Units), NEW n
    PROVE  Within(s \o t, n) <=> Within(s, n) /\ Within(t, n)
<1> DEFINE u == s \o t
<1>1. /\ Len(s) \in Nat /\ Len(t) \in Nat /\ Len(u) = Len(s) + Len(t)
      /\ \A k \in 1..Len(s) : k \in 1..Len(u) /\ u[k] = s[k]
      /\ \A k \in 1..Len(t) : Len(s) + k \in 1..Len(u) /\ u[Len(s) + k] = t[k]
      /\ \A k \in 1..Len(u) : k \in 1..Len(s) \/ \E m \in 1..Len(t) : k = Len(s) + m
  BY Together
<1> HIDE DEF u
<1>2. Within(u, n) => Within(s, n) /\ Within(t, n)
  BY <1>1 DEF Within
<1>3. ASSUME Within(s, n), Within(t, n) PROVE Within(u, n)
  <2> SUFFICES ASSUME NEW k \in 1..Len(u), Echo!Sent(u[k]) PROVE u[k][2] <= n
    BY DEF Within
  <2>1. CASE k \in 1..Len(s)
    BY <1>1, <1>3, <2>1 DEF Within
  <2>2. ASSUME NEW m \in 1..Len(t), k = Len(s) + m PROVE u[k][2] <= n
    BY <1>1, <1>3, <2>2 DEF Within
  <2> QED BY <1>1, <2>1, <2>2
<1> QED BY <1>2, <1>3 DEF u

LEMMA RisingBoth ==
    ASSUME NEW s \in Seq(Units), NEW t \in Seq(Units)
    PROVE  Rising(s \o t) <=> Rising(s) /\ Rising(t) /\ Before(s, t)
<1> DEFINE u == s \o t
<1>1. /\ Len(s) \in Nat /\ Len(t) \in Nat /\ Len(u) = Len(s) + Len(t)
      /\ \A k \in 1..Len(s) : k \in 1..Len(u) /\ u[k] = s[k]
      /\ \A k \in 1..Len(t) : Len(s) + k \in 1..Len(u) /\ u[Len(s) + k] = t[k]
      /\ \A k \in 1..Len(u) : k \in 1..Len(s) \/ \E m \in 1..Len(t) : k = Len(s) + m
  BY Together
<1> HIDE DEF u
<1>2. ASSUME Rising(u) PROVE Rising(s) /\ Rising(t) /\ Before(s, t)
  <2>1. Rising(s)
    BY <1>1, <1>2 DEF Rising
  <2>2. Rising(t)
    <3>1. \A j, k \in 1..Len(t) : j < k => Len(s) + j < Len(s) + k
      BY <1>1
    <3> QED BY <1>1, <1>2, <3>1 DEF Rising
  <2>3. Before(s, t)
    <3>1. \A j \in 1..Len(s), k \in 1..Len(t) : j < Len(s) + k
      BY <1>1
    <3> QED BY <1>1, <1>2, <3>1 DEF Rising, Before
  <2> QED BY <2>1, <2>2, <2>3
<1>3. ASSUME Rising(s), Rising(t), Before(s, t),
             NEW j \in 1..Len(u), NEW k \in 1..Len(u), j < k, Echo!Sent(u[j]), Echo!Sent(u[k])
      PROVE  u[j][2] < u[k][2]
  <2>1. CASE j \in 1..Len(s) /\ k \in 1..Len(s)
    BY <1>1, <1>3, <2>1 DEF Rising
  <2>2. CASE j \in 1..Len(s) /\ k \notin 1..Len(s)
    <3>1. PICK m \in 1..Len(t) : k = Len(s) + m
      BY <1>1, <2>2
    <3>2. u[j] = s[j] /\ u[k] = t[m]
      BY <1>1, <2>2, <3>1
    <3> QED BY <1>3, <2>2, <3>2 DEF Before
  <2>3. CASE j \notin 1..Len(s)
    <3>1. PICK i \in 1..Len(t) : j = Len(s) + i
      BY <1>1, <2>3
    <3>2. k \notin 1..Len(s)
      BY <1>1, <1>3, <3>1
    <3>3. PICK m \in 1..Len(t) : k = Len(s) + m
      BY <1>1, <3>2
    <3>4. u[j] = t[i] /\ u[k] = t[m] /\ i < m
      BY <1>1, <1>3, <3>1, <3>3
    <3> QED BY <1>3, <3>4 DEF Rising
  <2> QED BY <2>1, <2>2, <2>3
<1>4. Rising(s) /\ Rising(t) /\ Before(s, t) => Rising(u)
  BY <1>3 DEF Rising
<1> QED BY <1>2, <1>4 DEF u

(* Nothing of the client's in it. *)
Mute(s) == \A k \in 1..Len(s) : ~Echo!Sent(s[k])

LEMMA MuteRises == \A s, t, n : Mute(s) => Rising(s) /\ Within(s, n) /\ Before(s, t) /\ Before(t, s)
BY DEF Mute, Rising, Within, Before

(* In the middle a part is cut down to what it begins with, and something  *)
(* that is not the client's put behind that.                               *)
LEMMA CutRises ==
    ASSUME NEW a \in Seq(Units), NEW b \in Seq(Units), NEW z \in Seq(Units),
           NEW y \in Seq(Units), NEW v \in Seq(Units), Mute(v), NEW n,
           Rising((a \o (b \o z)) \o y), Within((a \o (b \o z)) \o y, n)
    PROVE  Rising((a \o (b \o v)) \o y) /\ Within((a \o (b \o v)) \o y, n)
<1>1. /\ b \o z \in Seq(Units) /\ b \o v \in Seq(Units)
      /\ \A s \in Seq(Units) : a \o s \in Seq(Units)
  BY Together
<1>2. a \o (b \o z) \in Seq(Units) /\ a \o (b \o v) \in Seq(Units)
  BY <1>1
<1>3. Rising(a \o (b \o z)) /\ Rising(y) /\ Before(a \o (b \o z), y)
  BY <1>2, RisingBoth
<1>4. Rising(a) /\ Rising(b \o z) /\ Before(a, b \o z) /\ Before(a, y) /\ Before(b \o z, y)
  <2>1. Rising(a) /\ Rising(b \o z) /\ Before(a, b \o z)
    BY <1>1, <1>3, RisingBoth
  <2>2. Before(a, y) /\ Before(b \o z, y)
    <3> DEFINE m == b \o z
    <3> HIDE DEF m
    <3>1. m \in Seq(Units) /\ Before(a \o m, y)
      BY <1>1, <1>3 DEF m
    <3>2. Before(a, y) /\ Before(m, y)
      BY <3>1, BeforeBoth
    <3> QED BY <3>2 DEF m
  <2> QED BY <2>1, <2>2
<1>5. Rising(b) /\ Before(a, b) /\ Before(b, y)
  BY <1>4, RisingBoth, BeforeBoth
<1>6. /\ Rising(v) /\ Within(v, n) /\ Before(b, v) /\ Before(a, v) /\ Before(v, y)
  BY MuteRises
<1>7. Rising(b \o v) /\ Before(a, b \o v) /\ Before(b \o v, y)
  BY <1>5, <1>6, RisingBoth, BeforeBoth
<1>8. Rising(a \o (b \o v)) /\ Before(a \o (b \o v), y)
  BY <1>1, <1>4, <1>7, RisingBoth, BeforeBoth
<1>9. Rising((a \o (b \o v)) \o y)
  BY <1>2, <1>3, <1>8, RisingBoth
<1>10. Within(a \o (b \o z), n) /\ Within(y, n)
  BY <1>2, WithinBoth
<1>11. Within(a, n) /\ Within(b \o z, n)
  BY <1>1, <1>10, WithinBoth
<1>12. Within(b \o v, n)
  BY <1>6, <1>11, WithinBoth
<1>13. Within(a \o (b \o v), n)
  BY <1>1, <1>11, <1>12, WithinBoth
<1>14. Within((a \o (b \o v)) \o y, n)
  BY <1>2, <1>10, <1>13, WithinBoth
<1> QED BY <1>9, <1>14

-----------------------------------------------------------------------------
LEMMA EchoConstants == ReadMax \in Nat /\ BufMax \in Nat
BY BevAssumption

LEMMA Greets ==
    /\ Echo!Greeting \in Seq(Units) /\ Mute(Echo!Greeting)
    /\ \A n \in Nat : <<"sent", n>> \in Units
    /\ <<>> \in Seq(Units) /\ Mute(<<>>)
<1>1. <<"greet", 1>> \in Units /\ <<"greet", 2>> \in Units
  BY DEF Units
<1>2. Echo!Greeting \in Seq(Units)
  BY <1>1 DEF Echo!Greeting
<1>3. Mute(Echo!Greeting)
  BY DEF Echo!Greeting, Mute, Echo!Sent
<1>4. <<>> \in Seq(Units) /\ Len(<<>>) = 0
  BY EmptySeq
<1>5. Mute(<<>>)
  BY <1>4 DEF Mute
<1>6. \A n \in Nat : <<"sent", n>> \in Units
  BY DEF Units
<1> QED BY <1>2, <1>3, <1>4, <1>5, <1>6

LEMMA Joins == \A s, t \in Seq(Units) : s \o t \in Seq(Units)
BY Together

AnyWay(s, t, r) == (s \o t) \o r = s \o (t \o r)

LEMMA Regroup == \A s, t, r \in Seq(Units) : AnyWay(s, t, r)
<1> TAKE s, t, r \in Seq(Units)
<1>1. (s \o t) \o r = s \o (t \o r)
  BY ConcatAssociative
<1> QED BY <1>1, Zenon DEF AnyWay

LEMMA Alone == \A s \in Seq(Units) : <<>> \o s = s /\ s \o <<>> = s
<1> TAKE s \in Seq(Units)
<1> QED BY ConcatEmptySeq

(* A sequence is the part up to a unit and the part behind it.             *)
LEMMA Halves ==
    ASSUME NEW s \in Seq(Units), NEW n \in Nat
    PROVE  /\ Echo!Upto(s, n) \in Seq(Units) /\ Echo!Behind(s, n) \in Seq(Units)
           /\ Echo!Upto(s, n) \o Echo!Behind(s, n) = s
<1>1. Len(s) \in Nat /\ \A i \in 1..Len(s) : s[i] \in Units
  OBVIOUS
<1>2. \A a, b \in Nat : b <= Len(s) => SubSeq(s, a + 1, b) \in Seq(Units)
  <2> TAKE a, b \in Nat
  <2> HAVE b <= Len(s)
  <2>1. \A i \in (a + 1)..b : s[i] \in Units
    BY <1>1
  <2>2. a + 1 \in Int /\ b \in Int
    OBVIOUS
  <2> QED BY <2>1, <2>2, SubSeqProperties
<1>3. CASE n < Len(s)
  <2>1. Echo!Upto(s, n) = SubSeq(s, 1, n) /\ Echo!Behind(s, n) = SubSeq(s, n + 1, Len(s))
    BY <1>3 DEF Echo!Upto, Echo!Behind
  <2>2. SubSeq(s, 1, n) \o SubSeq(s, n + 1, Len(s)) = SubSeq(s, 1, Len(s))
    <3>1. /\ 1 \in 1..(Len(s) + 1) /\ n \in (1 - 1)..Len(s) /\ Len(s) \in n..Len(s)
      BY <1>1, <1>3
    <3> QED BY <3>1, ConcatAdjacentSubSeq
  <2>3. SubSeq(s, 1, Len(s)) = s
    BY SubSeqFull
  <2>4. SubSeq(s, 0 + 1, n) \in Seq(Units) /\ SubSeq(s, n + 1, Len(s)) \in Seq(Units)
    BY <1>1, <1>2, <1>3
  <2>5. 0 + 1 = 1
    OBVIOUS
  <2> QED BY <2>1, <2>2, <2>3, <2>4, <2>5
<1>4. CASE ~(n < Len(s))
  <2>1. Echo!Upto(s, n) = SubSeq(s, 1, Len(s)) /\ Echo!Behind(s, n) = SubSeq(s, n + 1, Len(s))
    BY <1>4 DEF Echo!Upto, Echo!Behind
  <2>2. n + 1 \in Int /\ Len(s) \in Int /\ Len(s) < n + 1
    BY <1>1, <1>4
  <2>3. SubSeq(s, n + 1, Len(s)) = <<>>
    BY <2>2, SubSeqEmpty
  <2>4. SubSeq(s, 1, Len(s)) = s
    BY SubSeqFull
  <2> QED BY <2>1, <2>3, <2>4, Alone, Greets
<1> QED BY <1>3, <1>4

(* strlen() cuts a line down to what it begins with. *)
LEMMA CutBegins ==
    ASSUME NEW s \in Seq(Units)
    PROVE  /\ Echo!Cut(s) \in Seq(Units)
           /\ \E z \in Seq(Units) : s = Echo!Cut(s) \o z
<1> DEFINE ks == {k \in DOMAIN s : \A m \in 1..k : s[m][2] \notin Nul}
           n  == Cardinality(ks)
<1>1. Len(s) \in Nat /\ DOMAIN s = 1..Len(s)
  OBVIOUS
<1>2. IsFiniteSet(1..Len(s)) /\ Cardinality(1..Len(s)) = Len(s)
  <2>1. /\ IsFiniteSet(1..Len(s))
        /\ Cardinality(1..Len(s)) = IF 1 > Len(s) THEN 0 ELSE Len(s) - 1 + 1
    BY <1>1, FS_Interval
  <2> QED BY <1>1, <2>1
<1>3. ks \subseteq 1..Len(s)
  BY <1>1
<1>5. Echo!Cut(s) = SubSeq(s, 1, n)
  <2>1. \A S : Echo!Cardinality(S) = Cardinality(S)
    BY Zenon DEF Echo!Cardinality, Cardinality
  <2> QED BY <2>1 DEF Echo!Cut
<1> HIDE DEF ks
<1>4. n \in Nat /\ n <= Len(s)
  <2>1. IsFiniteSet(ks) /\ Cardinality(ks) <= Cardinality(1..Len(s))
    BY <1>2, <1>3, FS_Subset
  <2>2. Cardinality(ks) \in Nat
    BY <2>1, FS_CardinalityType
  <2> QED BY <1>2, <2>1, <2>2
<1> HIDE DEF n
<1>6. (IF n < Len(s) THEN n ELSE Len(s)) = n
  <2>1. \A a, b \in Nat : a <= b => (IF a < b THEN a ELSE b) = a
    OBVIOUS
  <2> QED BY <1>1, <1>4, <2>1, Zenon
<1>7. Echo!Upto(s, n) = SubSeq(s, 1, n)
  BY <1>6 DEF Echo!Upto
<1>8. Echo!Cut(s) = Echo!Upto(s, n)
  BY <1>5, <1>7
<1> QED BY <1>4, <1>8, Halves

-----------------------------------------------------------------------------
LEMMA ClientSame == \A c : Same(c) /\ ClientInv(c) => ClientInv(c)'
BY DEF Same, ClientInv, Echo!Path

LEMMA ClientTypes ==
    ASSUME GreetersTypeOK, NEW c \in Clients
    PROVE  /\ sentUnits[c] \in Seq(Units) /\ wire[c] \in Seq(Units) /\ input[c] \in Seq(Units)
           /\ output[c] \in Seq(Units) /\ got[c] \in Seq(Units) /\ Len(sentUnits[c]) \in Nat
           /\ got[c] \o output[c] \in Seq(Units)
           /\ (got[c] \o output[c]) \o input[c] \in Seq(Units)
           /\ Echo!Path(c) = ((got[c] \o output[c]) \o input[c]) \o wire[c]
           /\ Echo!Path(c) \in Seq(Units)
<1>1. /\ sentUnits[c] \in Seq(Units) /\ wire[c] \in Seq(Units) /\ input[c] \in Seq(Units)
      /\ output[c] \in Seq(Units) /\ got[c] \in Seq(Units)
  BY DEF GreetersTypeOK
<1>2. got[c] \o output[c] \in Seq(Units) /\ (got[c] \o output[c]) \o input[c] \in Seq(Units)
  BY <1>1, Joins
<1>3. Echo!Path(c) = ((got[c] \o output[c]) \o input[c]) \o wire[c]
  BY DEF Echo!Path
<1>4. Echo!Path(c) \in Seq(Units)
  BY <1>1, <1>2, <1>3, Joins
<1> QED BY <1>1, <1>2, <1>3, <1>4

LEMMA EchoConnect ==
    ASSUME GreetersTypeOK, NEW d \in Clients, ClientInv(d), Echo!Connect(d)
    PROVE  GreetersTypeOK' /\ ClientInv(d)' /\ \A c \in Clients : c # d => Same(c)
<1>1. conn[d] = "idle" /\ conn' = [conn EXCEPT ![d] = "queued"]
      /\ UNCHANGED <<program, loop, peer, sentUnits, wire, reading, input, output, got>>
  BY DEF Echo!Connect
<1>2. conn'[d] = "queued" /\ \A c \in Clients : c # d => conn'[c] = conn[c]
  BY <1>1 DEF GreetersTypeOK
<1>3. GreetersTypeOK'
  BY <1>1 DEF GreetersTypeOK, States
<1> QED BY <1>1, <1>2, <1>3 DEF Same, ClientInv

LEMMA EchoLeave ==
    ASSUME GreetersTypeOK, NEW d \in Clients, ClientInv(d), Echo!Leave(d)
    PROVE  GreetersTypeOK' /\ ClientInv(d)' /\ \A c \in Clients : c # d => Same(c)
<1>1. PICK e \in {"fin", "rst", "broken"} : peer' = [peer EXCEPT ![d] = e]
  BY DEF Echo!Leave
<1>2. UNCHANGED <<program, loop, conn, sentUnits, wire, reading, input, output, got>>
      /\ conn[d] \in {"queued", "open"}
  BY DEF Echo!Leave
<1>3. \A c \in Clients : c # d => peer'[c] = peer[c]
  BY <1>1 DEF GreetersTypeOK
<1>4. GreetersTypeOK'
  BY <1>1, <1>2 DEF GreetersTypeOK, Leaves
<1> QED BY <1>2, <1>3, <1>4 DEF Same, ClientInv, Echo!Path

(* The next unit of the client comes last, and has the highest number.     *)
LEMMA EchoSend ==
    ASSUME GreetersTypeOK, NEW d \in Clients, ClientInv(d),
           Echo!Send(d, << <<"sent", Len(sentUnits[d]) + 1>> >>)
    PROVE  GreetersTypeOK' /\ ClientInv(d)' /\ \A c \in Clients : c # d => Same(c)
<1> DEFINE n == Len(sentUnits[d])
           s == << <<"sent", n + 1>> >>
           su == sentUnits[d] \o s
           wu == wire[d] \o s
<1>1. n \in Nat /\ sentUnits[d] \in Seq(Units) /\ wire[d] \in Seq(Units)
  BY ClientTypes
<1>2. /\ sentUnits' = [sentUnits EXCEPT ![d] = su] /\ wire' = [wire EXCEPT ![d] = wu]
      /\ UNCHANGED <<program, loop, conn, peer, reading, input, output, got>>
      /\ conn[d] \in {"queued", "open"}
  BY DEF Echo!Send, Echo!There
<1>3. <<"sent", n + 1>> \in Units
  BY <1>1, Greets
<1>4. s \in Seq(Units) /\ Len(s) = 1 /\ s[1] = <<"sent", n + 1>>
  BY <1>3
<1> HIDE DEF s
<1>5. su \in Seq(Units) /\ wu \in Seq(Units) /\ Len(su) = n + 1
  <2>1. /\ su \in Seq(Units) /\ wu \in Seq(Units)
        /\ Len(su) = Len(sentUnits[d]) + Len(s)
    BY <1>1, <1>4, Together, Zenon
  <2> QED BY <1>4, <2>1
<1>6. s[1][2] = n + 1
  BY <1>4
<1>7. Rising(s) /\ Within(s, n + 1)
  BY <1>1, <1>4, <1>6 DEF Rising, Within
<1>8. ASSUME NEW t \in Seq(Units), Within(t, n) PROVE Before(t, s) /\ Within(t, n + 1)
  <2>1. \A k \in 1..Len(t) : t[k][2] \in Nat
    <3>1. \A k \in 1..Len(t) : t[k] \in Units
      OBVIOUS
    <3> QED BY <3>1 DEF Units
  <2> QED BY <1>1, <1>4, <1>6, <1>8, <2>1 DEF Within, Before
<1>9. ASSUME NEW t \in Seq(Units), Rising(t), Within(t, n)
      PROVE  Rising(t \o s) /\ Within(t \o s, n + 1)
  <2>1. Before(t, s) /\ Within(t, n + 1)
    BY <1>8, <1>9
  <2> QED BY <1>4, <1>7, <1>9, <2>1, RisingBoth, WithinBoth
<1>10. Rising(su) /\ Within(su, n + 1)
  BY <1>1, <1>9 DEF ClientInv
<1>a. Rising(su) /\ Within(su, Len(su))
  BY <1>5, <1>10
<1>11. conn[d] = "open" =>
         /\ ((got[d] \o output[d]) \o input[d]) \o wu = Echo!Path(d) \o s
         /\ Rising(Echo!Path(d) \o s) /\ Within(Echo!Path(d) \o s, n + 1)
         /\ program = "change" => Echo!Path(d) \o s = Echo!Greeting \o su
  <2> SUFFICES ASSUME conn[d] = "open"
               PROVE  /\ ((got[d] \o output[d]) \o input[d]) \o wu = Echo!Path(d) \o s
                      /\ Rising(Echo!Path(d) \o s) /\ Within(Echo!Path(d) \o s, n + 1)
                      /\ program = "change" => Echo!Path(d) \o s = Echo!Greeting \o su
    OBVIOUS
  <2>1. /\ Echo!Path(d) = ((got[d] \o output[d]) \o input[d]) \o wire[d]
        /\ (got[d] \o output[d]) \o input[d] \in Seq(Units) /\ Echo!Path(d) \in Seq(Units)
    BY ClientTypes
  <2>2. ((got[d] \o output[d]) \o input[d]) \o wu = Echo!Path(d) \o s
    <3> DEFINE a == (got[d] \o output[d]) \o input[d]
    <3>1. a \in Seq(Units)
      BY <2>1
    <3> HIDE DEF a
    <3>2. (a \o wire[d]) \o s = a \o (wire[d] \o s)
      <4>1. AnyWay(a, wire[d], s)
        BY <1>1, <1>4, <3>1, Regroup, Zenon
      <4> QED BY <4>1, Zenon DEF AnyWay
    <3> QED BY <2>1, <3>2, Zenon DEF a
  <2>3. Rising(Echo!Path(d)) /\ Within(Echo!Path(d), n)
    BY DEF ClientInv
  <2>4. Rising(Echo!Path(d) \o s) /\ Within(Echo!Path(d) \o s, n + 1)
    BY <1>9, <2>1, <2>3
  <2>5. program = "change" => Echo!Path(d) \o s = Echo!Greeting \o su
    <3>1. (Echo!Greeting \o sentUnits[d]) \o s = Echo!Greeting \o su
      <4>1. AnyWay(Echo!Greeting, sentUnits[d], s)
        BY <1>1, <1>4, Regroup, Greets, Zenon
      <4> QED BY <4>1, Zenon DEF AnyWay
    <3> QED BY <3>1 DEF ClientInv
  <2> QED BY <2>2, <2>4, <2>5
<1> HIDE DEF su, wu, n
<1>12. /\ sentUnits'[d] = su /\ wire'[d] = wu
       /\ \A c \in Clients : c # d => sentUnits'[c] = sentUnits[c] /\ wire'[c] = wire[c]
  BY <1>2 DEF GreetersTypeOK
<1>13. GreetersTypeOK'
  BY <1>2, <1>5 DEF GreetersTypeOK
<1>14. \A c \in Clients : c # d => Same(c)
  BY <1>2, <1>12 DEF Same
<1>15. conn[d] = "open" => Echo!Path(d)' = Echo!Path(d) \o s
  BY <1>2, <1>11, <1>12 DEF Echo!Path
<1>16. conn[d] = "queued" => wu = su
  BY DEF ClientInv, wu, su
<1>17. ClientInv(d)'
  BY <1>2, <1>5, <1>a, <1>11, <1>12, <1>15, <1>16 DEF ClientInv
<1> QED BY <1>13, <1>14, <1>17

-----------------------------------------------------------------------------
LEMMA EchoNewBev ==
    ASSUME GreetersTypeOK, NEW d \in Clients, ClientInv(d), NEW read \in BOOLEAN,
           program = "sample" => ~read, Echo!NewBev(d, read, Echo!Greeting)
    PROVE  GreetersTypeOK' /\ ClientInv(d)' /\ \A c \in Clients : c # d => Same(c)
<1> DEFINE g == Echo!Greeting
           s == sentUnits[d]
<1>1. /\ conn[d] = "queued" /\ conn' = [conn EXCEPT ![d] = "open"]
      /\ reading' = [reading EXCEPT ![d] = read] /\ output' = [output EXCEPT ![d] = g]
      /\ UNCHANGED <<program, loop, peer, sentUnits, wire, input, got>>
  BY DEF Echo!NewBev
<1>2. s \in Seq(Units) /\ g \in Seq(Units) /\ Mute(g)
  BY ClientTypes, Greets
<1>3. got[d] = <<>> /\ input[d] = <<>> /\ wire[d] = s /\ Rising(s) /\ Within(s, Len(s))
  BY <1>1 DEF ClientInv
<1> HIDE DEF g, s
<1>4. /\ conn'[d] = "open" /\ reading'[d] = read /\ output'[d] = g
      /\ \A c \in Clients : c # d =>
           conn'[c] = conn[c] /\ reading'[c] = reading[c] /\ output'[c] = output[c]
  BY <1>1 DEF GreetersTypeOK
<1>5. ((<<>> \o g) \o <<>>) \o s = g \o s /\ <<>> \o g = g
  BY <1>2, Alone
<1>6. Rising(g \o s) /\ Within(g \o s, Len(s))
  <2>1. Rising(g) /\ Before(g, s) /\ Within(g, Len(s))
    BY <1>2, MuteRises
  <2> QED BY <1>2, <1>3, <2>1, RisingBoth, WithinBoth
<1>7. Echo!Path(d)' = g \o s
  BY <1>1, <1>3, <1>4, <1>5 DEF Echo!Path
<1>8. got'[d] \o output'[d] = g
  BY <1>1, <1>3, <1>4, <1>5
<1>9. sentUnits'[d] = s
  BY <1>1 DEF s
<1>10. GreetersTypeOK'
  BY <1>1, <1>2 DEF GreetersTypeOK, States
<1>11. ClientInv(d)'
  BY <1>1, <1>3, <1>4, <1>6, <1>7, <1>8, <1>9 DEF ClientInv, g
<1> QED BY <1>1, <1>4, <1>10, <1>11 DEF Same

(* What a read event moves: the input and what the wire gives to it are    *)
(* the part taken and the part left, with the rest of the wire behind.     *)
Splits(x, i, w, r, n) ==
    LET j == i \o Echo!Upto(w, r) IN
    /\ j \in Seq(Units) /\ Echo!Upto(j, n) \in Seq(Units)
    /\ Echo!Behind(j, n) \in Seq(Units) /\ Echo!Behind(w, r) \in Seq(Units)
    /\ (x \o i) \o w = (x \o Echo!Upto(j, n)) \o (Echo!Behind(j, n) \o Echo!Behind(w, r))

LEMMA ReadSplits ==
    \A x, i, w \in Seq(Units) : \A r, n \in Nat : Splits(x, i, w, r, n)
<1> TAKE x, i, w \in Seq(Units)
<1> TAKE r, n \in Nat
<1> DEFINE j == i \o Echo!Upto(w, r)
           u == Echo!Upto(w, r)
           b == Echo!Behind(w, r)
           t == Echo!Upto(j, n)
           l == Echo!Behind(j, n)
<1>1. u \in Seq(Units) /\ b \in Seq(Units) /\ u \o b = w
  BY Halves
<1>2. j = i \o u
  OBVIOUS
<1> HIDE DEF j
<1>3. j \in Seq(Units)
  BY <1>1, <1>2, Joins
<1>4. t \in Seq(Units) /\ l \in Seq(Units) /\ t \o l = j
  BY <1>3, Halves
<1> HIDE DEF u, b, t, l
<1>5. (x \o i) \o w = x \o (i \o w)
  <2>1. AnyWay(x, i, w)
    BY Regroup, Zenon
  <2> QED BY <2>1, Zenon DEF AnyWay
<1>6. i \o w = j \o b
  <2>1. (i \o u) \o b = i \o (u \o b)
    <3>1. AnyWay(i, u, b)
      BY <1>1, Regroup, Zenon
    <3> QED BY <3>1, Zenon DEF AnyWay
  <2> QED BY <1>1, <1>2, <2>1
<1>7. j \o b = t \o (l \o b)
  <2>1. (t \o l) \o b = t \o (l \o b)
    <3>1. t \in Seq(Units) /\ l \in Seq(Units) /\ b \in Seq(Units)
      BY <1>1, <1>4
    <3>2. AnyWay(t, l, b)
      BY <3>1, Regroup, Zenon
    <3> QED BY <3>2, Zenon DEF AnyWay
  <2> QED BY <1>4, <2>1
<1>8. l \o b \in Seq(Units)
  BY <1>1, <1>4, Joins
<1>9. x \o (t \o (l \o b)) = (x \o t) \o (l \o b)
  <2>1. AnyWay(x, t, l \o b)
    BY <1>4, <1>8, Regroup, Zenon
  <2> QED BY <2>1, Zenon DEF AnyWay
<1>10. (x \o i) \o w = (x \o t) \o (l \o b)
  BY <1>5, <1>6, <1>7, <1>9, Zenon
<1> QED BY <1>1, <1>3, <1>4, <1>10 DEF Splits, j, u, b, t, l

OneBehind(g, o, v, l, b) == ((g \o (o \o v)) \o l) \o b = ((g \o o) \o v) \o (l \o b)

LEMMA AllQueued ==
    \A g, o, v, l, b \in Seq(Units) : OneBehind(g, o, v, l, b)
<1> TAKE g, o, v, l, b \in Seq(Units)
<1>1. g \o o \in Seq(Units) /\ (g \o o) \o v \in Seq(Units)
  BY Joins
<1>2. g \o (o \o v) = (g \o o) \o v
  <2>1. AnyWay(g, o, v)
    BY Regroup, Zenon
  <2> QED BY <2>1, Zenon DEF AnyWay
<1> DEFINE y == (g \o o) \o v
<1>3. y \in Seq(Units) /\ g \o (o \o v) = y
  BY <1>1, <1>2
<1> HIDE DEF y
<1>4. (y \o l) \o b = y \o (l \o b)
  <2>1. AnyWay(y, l, b)
    BY <1>3, Regroup, Zenon
  <2> QED BY <2>1, Zenon DEF AnyWay
<1>5. ((g \o (o \o v)) \o l) \o b = ((g \o o) \o v) \o (l \o b)
  BY <1>3, <1>4, Zenon DEF y
<1> QED BY <1>5, Zenon DEF OneBehind

(* A read event queues for the client what it took, or, of a line with a   *)
(* NUL in it or one that fills buf, what strlen() counts.                  *)
LEMMA EchoReads ==
    ASSUME GreetersTypeOK, NEW d \in Clients, ClientInv(d),
           Echo!ConnReadcb(d) \/ Echo!Readcb(d)
    PROVE  GreetersTypeOK' /\ ClientInv(d)' /\ \A c \in Clients : c # d => Same(c)
<1> DEFINE x == got[d] \o output[d]
           j == Echo!Input(d)
           t == Echo!Taken(d)
           l == Echo!Left(d)
           b == Echo!Behind(wire[d], ReadMax)
<1>1. PICK v : /\ Echo!ReadEvent(d, l, v)
               /\ \/ program = "change" /\ v = t
                  \/ program = "demo" /\ \E o \in Echo!Overrun(t) : v = Echo!Cut(t) \o o
  BY DEF Echo!ConnReadcb, Echo!Readcb
<1>2. /\ wire' = [wire EXCEPT ![d] = b] /\ input' = [input EXCEPT ![d] = l]
      /\ output' = [output EXCEPT ![d] = output[d] \o v] /\ conn[d] = "open"
      /\ UNCHANGED <<program, loop, conn, peer, sentUnits, reading, got>>
  BY <1>1 DEF Echo!ReadEvent, Echo!CanRead
<1>3. /\ x \in Seq(Units) /\ got[d] \in Seq(Units) /\ output[d] \in Seq(Units)
      /\ input[d] \in Seq(Units) /\ wire[d] \in Seq(Units)
      /\ Echo!Path(d) = (x \o input[d]) \o wire[d]
  BY ClientTypes
<1>4. j = input[d] \o Echo!Upto(wire[d], ReadMax) /\ t = Echo!Upto(j, BufMax)
      /\ l = Echo!Behind(j, BufMax)
  BY DEF Echo!Input, Echo!Taken, Echo!Left
<1> HIDE DEF x, j, t, l
<1>5. /\ j \in Seq(Units) /\ t \in Seq(Units) /\ l \in Seq(Units) /\ b \in Seq(Units)
      /\ (x \o input[d]) \o wire[d] = (x \o t) \o (l \o b)
  <2>1. ReadMax \in Nat /\ BufMax \in Nat
    BY EchoConstants
  <2>2. j = input[d] \o Echo!Upto(wire[d], ReadMax)
    BY <1>4
  <2>3. /\ j \in Seq(Units) /\ Echo!Upto(j, BufMax) \in Seq(Units)
        /\ Echo!Behind(j, BufMax) \in Seq(Units) /\ Echo!Behind(wire[d], ReadMax) \in Seq(Units)
        /\ (x \o input[d]) \o wire[d]
             = (x \o Echo!Upto(j, BufMax)) \o (Echo!Behind(j, BufMax) \o Echo!Behind(wire[d], ReadMax))
    <3>1. x \in Seq(Units) /\ input[d] \in Seq(Units) /\ wire[d] \in Seq(Units)
      BY <1>3
    <3>2. Splits(x, input[d], wire[d], ReadMax, BufMax)
      BY <2>1, <3>1, ReadSplits, Zenon
    <3> QED BY <2>2, <3>2 DEF Splits
  <2> QED BY <1>4, <2>3
<1> HIDE DEF b
<1>6. Echo!Path(d) = (x \o t) \o (l \o b) /\ l \o b \in Seq(Units)
  BY <1>3, <1>5, Joins
<1>7. PICK z \in Seq(Units) : t = Echo!Cut(t) \o z
  BY <1>5, CutBegins
<1>8. Echo!Cut(t) \in Seq(Units)
  BY <1>5, CutBegins
<1>9. ASSUME NEW o \in Echo!Overrun(t) PROVE o \in Seq(Units) /\ Mute(o)
  <2>1. o = <<>> \/ o = << <<"over", 0>> >>
    BY DEF Echo!Overrun
  <2>2. << <<"over", 0>> >> \in Seq(Units)
    <3>1. <<"over", 0>> \in Units
      BY DEF Units
    <3> QED BY <3>1
  <2>3. Mute(<< <<"over", 0>> >>)
    BY DEF Mute, Echo!Sent
  <2> QED BY <2>1, <2>2, <2>3, Greets
<1>10. v \in Seq(Units)
  BY <1>1, <1>5, <1>8, <1>9, Joins
<1>11. output[d] \o v \in Seq(Units)
  BY <1>3, <1>10, Joins
<1>12. /\ wire'[d] = b /\ input'[d] = l /\ output'[d] = output[d] \o v
       /\ \A c \in Clients : c # d =>
            wire'[c] = wire[c] /\ input'[c] = input[c] /\ output'[c] = output[c]
  BY <1>2 DEF GreetersTypeOK
<1>13. Echo!Path(d)' = (x \o v) \o (l \o b)
  <2>1. Echo!Path(d)' = ((got[d] \o (output[d] \o v)) \o l) \o b
    BY <1>2, <1>12 DEF Echo!Path
  <2>2. ((got[d] \o (output[d] \o v)) \o l) \o b = (x \o v) \o (l \o b)
    <3>1. ((got[d] \o (output[d] \o v)) \o l) \o b
            = ((got[d] \o output[d]) \o v) \o (l \o b)
      <4>1. got[d] \in Seq(Units) /\ output[d] \in Seq(Units)
        BY <1>3
      <4>2. v \in Seq(Units) /\ l \in Seq(Units) /\ b \in Seq(Units)
        BY <1>5, <1>10
      <4>3. OneBehind(got[d], output[d], v, l, b)
        BY <4>1, <4>2, AllQueued, Zenon
      <4> QED BY <4>3 DEF OneBehind
    <3> QED BY <3>1 DEF x
  <2> QED BY <2>1, <2>2
<1>14. GreetersTypeOK'
  BY <1>2, <1>5, <1>11 DEF GreetersTypeOK
<1>15. Rising(Echo!Path(d)) /\ Within(Echo!Path(d), Len(sentUnits[d]))
  BY <1>2 DEF ClientInv
<1>16. CASE program = "change"
  <2>1. v = t
    BY <1>1, <1>16
  <2>2. Echo!Path(d)' = Echo!Path(d)
    BY <1>6, <1>13, <2>1
  <2>3. ClientInv(d)'
    BY <1>2, <1>16, <2>2 DEF ClientInv
  <2> QED BY <1>2, <1>12, <1>14, <2>3 DEF Same
<1>17. CASE program = "demo"
  <2>1. PICK o \in Echo!Overrun(t) : v = Echo!Cut(t) \o o
    BY <1>1, <1>17
  <2>2. o \in Seq(Units) /\ Mute(o)
    BY <1>9
  <2>3. /\ Rising((x \o (Echo!Cut(t) \o z)) \o (l \o b))
        /\ Within((x \o (Echo!Cut(t) \o z)) \o (l \o b), Len(sentUnits[d]))
    BY <1>6, <1>7, <1>15
  <2>4. /\ Rising((x \o (Echo!Cut(t) \o o)) \o (l \o b))
        /\ Within((x \o (Echo!Cut(t) \o o)) \o (l \o b), Len(sentUnits[d]))
    BY <1>3, <1>6, <1>8, <2>2, <2>3, CutRises
  <2>5. Rising(Echo!Path(d)') /\ Within(Echo!Path(d)', Len(sentUnits[d]))
    BY <1>13, <2>1, <2>4
  <2>6. ClientInv(d)'
    BY <1>2, <1>17, <2>5 DEF ClientInv
  <2> QED BY <1>2, <1>12, <1>14, <2>6 DEF Same
<1> QED BY <1>1, <1>16, <1>17

(* The socket takes the first unit of the output. *)
LEMMA EchoDrains ==
    ASSUME GreetersTypeOK, NEW d \in Clients, ClientInv(d),
           Echo!Drain(d) \/ (Echo!DrainAndFree(d) /\ program = "sample")
    PROVE  GreetersTypeOK' /\ ClientInv(d)' /\ \A c \in Clients : c # d => Same(c)
<1> DEFINE g == Append(got[d], Head(output[d]))
           o == Tail(output[d])
<1>1. /\ got[d] \in Seq(Units) /\ output[d] \in Seq(Units)
      /\ Echo!Path(d) = ((got[d] \o output[d]) \o input[d]) \o wire[d]
  BY ClientTypes
<1>2. /\ conn[d] = "open" /\ output[d] # <<>> /\ got' = [got EXCEPT ![d] = g]
      /\ UNCHANGED <<program, loop, peer, sentUnits, wire, reading, input>>
  BY DEF Echo!Drain, Echo!DrainAndFree, Echo!CanWrite
<1>3. g \in Seq(Units) /\ o \in Seq(Units) /\ g \o o = got[d] \o output[d]
  <2>1. \A s, t \in Seq(Units) : t # <<>> =>
          /\ Append(s, Head(t)) \in Seq(Units) /\ Tail(t) \in Seq(Units)
          /\ Append(s, Head(t)) \o Tail(t) = s \o t
    BY HeadMoves
  <2>2. got[d] \in Seq(Units) /\ output[d] \in Seq(Units)
    BY <1>1
  <2> QED BY <1>2, <2>1, <2>2
<1>4. Len(output[d]) = 1 => o = <<>>
  <2> SUFFICES ASSUME Len(output[d]) = 1 PROVE o = <<>>
    OBVIOUS
  <2>1. Len(o) = Len(output[d]) - 1
    BY <1>1, <1>2, HeadTailProperties
  <2>2. Len(o) = 0
    BY <2>1
  <2> QED BY <1>3, <2>2, EmptySeq
<1> HIDE DEF g, o
<1>5. got'[d] = g /\ \A c \in Clients : c # d => got'[c] = got[c]
  BY <1>2 DEF GreetersTypeOK
<1>6. CASE Echo!Drain(d)
  <2>1. output' = [output EXCEPT ![d] = o] /\ UNCHANGED conn
    BY <1>6 DEF Echo!Drain, o
  <2>2. output'[d] = o /\ \A c \in Clients : c # d => output'[c] = output[c]
    BY <2>1 DEF GreetersTypeOK
  <2>3. got'[d] \o output'[d] = got[d] \o output[d] /\ Echo!Path(d)' = Echo!Path(d)
    BY <1>1, <1>2, <1>3, <1>5, <2>2 DEF Echo!Path
  <2>4. GreetersTypeOK'
    BY <1>2, <1>3, <2>1 DEF GreetersTypeOK
  <2>5. ClientInv(d)'
    BY <1>2, <2>1, <2>3 DEF ClientInv
  <2> QED BY <1>2, <1>5, <2>1, <2>2, <2>4, <2>5 DEF Same
<1>7. CASE Echo!DrainAndFree(d) /\ program = "sample"
  <2>1. /\ output' = [output EXCEPT ![d] = <<>>] /\ conn' = [conn EXCEPT ![d] = "freed"]
        /\ Len(output[d]) = 1
    BY <1>7 DEF Echo!DrainAndFree
  <2>2. /\ output'[d] = <<>> /\ conn'[d] = "freed"
        /\ \A c \in Clients : c # d => output'[c] = output[c] /\ conn'[c] = conn[c]
    BY <2>1 DEF GreetersTypeOK
  <2>3. got'[d] = Echo!Greeting
    <3>1. got[d] \o output[d] = Echo!Greeting
      BY <1>2, <1>7 DEF ClientInv
    <3>2. g \o <<>> = g
      BY <1>3, Alone
    <3> QED BY <1>3, <1>4, <1>5, <2>1, <3>1, <3>2
  <2>4. GreetersTypeOK'
    BY <1>2, <1>3, <2>1, Greets DEF GreetersTypeOK, States
  <2>5. ClientInv(d)'
    BY <1>2, <2>2, <2>3 DEF ClientInv
  <2> QED BY <1>2, <1>5, <2>2, <2>4, <2>5 DEF Same
<1> QED BY <1>6, <1>7

(* A bufferevent is freed when its client has gone. *)
LEMMA EchoFrees ==
    ASSUME GreetersTypeOK, NEW d \in Clients, ClientInv(d), Echo!EndFrees(d) \/ Echo!WriteFrees(d)
    PROVE  GreetersTypeOK' /\ ClientInv(d)' /\ \A c \in Clients : c # d => Same(c)
<1> DEFINE e == IF peer[d] = "rst" THEN "broken" ELSE peer[d]
<1>1. /\ conn' = [conn EXCEPT ![d] = "freed"] /\ input' = [input EXCEPT ![d] = <<>>]
      /\ output' = [output EXCEPT ![d] = <<>>] /\ peer' = [peer EXCEPT ![d] = e]
      /\ UNCHANGED <<program, loop, sentUnits, wire, reading, got>>
  BY DEF Echo!EndFrees, Echo!WriteFrees, Echo!Reported, Echo!Gone
<1>2. peer[d] # "none"
  BY DEF Echo!EndFrees, Echo!WriteFrees, Echo!AtEnd, Echo!WriteFails
<1>3. e \in Leaves /\ e # "none"
  BY <1>2 DEF GreetersTypeOK, Leaves
<1> HIDE DEF e
<1>4. /\ conn'[d] = "freed" /\ peer'[d] = e
      /\ \A c \in Clients : c # d =>
           /\ conn'[c] = conn[c] /\ peer'[c] = peer[c]
           /\ input'[c] = input[c] /\ output'[c] = output[c]
  BY <1>1 DEF GreetersTypeOK
<1>5. GreetersTypeOK'
  BY <1>1, <1>3, Greets DEF GreetersTypeOK, States
<1>6. ClientInv(d)'
  BY <1>1, <1>3, <1>4 DEF ClientInv
<1> QED BY <1>1, <1>4, <1>5, <1>6 DEF Same

LEMMA EchoStops ==
    ASSUME GreetersTypeOK, NEW l, Echo!Stop(l)
    PROVE  GreetersTypeOK' /\ \A c \in Clients : Same(c)
BY DEF Echo!Stop, GreetersTypeOK, Same

LEMMA EchoInvInit == MCInit => EchoInv
<1> SUFFICES ASSUME MCInit, program \in Echo!EchoPrograms PROVE EchoInv
  BY DEF EchoInv
<1>1. Echo!BevInit
  BY DEF MCInit, Echo!Init, Web!Init, Echo!BevInit, Web!BevInit, Echo!Empty, Web!Empty
<1>2. /\ sentUnits = [c \in Clients |-> <<>>] /\ wire = [c \in Clients |-> <<>>]
      /\ input = [c \in Clients |-> <<>>] /\ output = [c \in Clients |-> <<>>]
      /\ got = [c \in Clients |-> <<>>] /\ conn = [c \in Clients |-> "idle"]
      /\ peer = [c \in Clients |-> "none"] /\ reading = [c \in Clients |-> FALSE]
  BY <1>1 DEF Echo!BevInit, Echo!Empty
<1>3. GreetersTypeOK
  BY <1>2, Greets DEF GreetersTypeOK, States, Leaves
<1>4. ASSUME NEW c \in Clients PROVE ClientInv(c)
  <2>1. Rising(<<>>) /\ Within(<<>>, Len(<<>>))
    BY Greets, MuteRises
  <2> QED BY <1>2, <2>1 DEF ClientInv
<1> QED BY <1>3, <1>4 DEF EchoInv

(* What is done at one client, and to the loop. *)
LEMMA EchoStepOK ==
    ASSUME EchoInv, program \in Echo!EchoPrograms, Echo!Next
    PROVE  EchoInv'
<1>1. GreetersTypeOK /\ \A c \in Clients : ClientInv(c)
  BY DEF EchoInv
<1>2. ASSUME NEW d \in Clients,
             GreetersTypeOK' /\ ClientInv(d)' /\ \A c \in Clients : c # d => Same(c)
      PROVE  EchoInv'
  BY <1>1, <1>2, ClientSame DEF EchoInv
<1>3. ASSUME NEW l, Echo!Stop(l) PROVE EchoInv'
  BY <1>1, <1>3, EchoStops, ClientSame DEF EchoInv
<1>4. CASE \/ Echo!SignalCb \/ Echo!SampleSignalCb \/ Echo!LoopExit \/ Echo!ListenerBreaks
           \/ Echo!Sigint
  BY <1>3, <1>4 DEF Echo!SignalCb, Echo!SampleSignalCb, Echo!LoopExit, Echo!ListenerBreaks,
     Echo!Sigint
<1>5. ASSUME NEW d \in Clients, Echo!Client(d) PROVE EchoInv'
  BY <1>1, <1>2, <1>5, EchoConnect, EchoLeave, EchoSend DEF Echo!Client
<1>6. ASSUME NEW d \in Clients, Echo!Listening(d) PROVE EchoInv'
  <2>1. PICK read \in BOOLEAN :
          Echo!NewBev(d, read, Echo!Greeting) /\ (program = "sample" => ~read)
    BY <1>6 DEF Echo!Listening, Echo!ChangeListenerCb, Echo!ListenCb, Echo!SampleListenerCb
  <2> QED BY <1>1, <1>2, <2>1, EchoNewBev
<1>7. ASSUME NEW d \in Clients, Echo!Writing(d) PROVE EchoInv'
  <2>1. CASE Echo!Written(d)
    <3>1. Echo!Drain(d)
      BY <2>1 DEF Echo!Written
    <3> QED BY <1>1, <1>2, <3>1, EchoDrains
  <2>2. CASE Echo!SampleWritecb(d)
    BY <1>1, <1>2, <2>2, EchoDrains DEF Echo!SampleWritecb
  <2>3. CASE Echo!Sigpipe(d)
    BY <1>3, <2>3 DEF Echo!Sigpipe
  <2> QED BY <1>7, <2>1, <2>2, <2>3 DEF Echo!Writing
<1>8. ASSUME NEW d \in Clients, Echo!Reading(d) PROVE EchoInv'
  BY <1>1, <1>2, <1>8, EchoReads DEF Echo!Reading
<1>9. ASSUME NEW d \in Clients, Echo!Ending(d) PROVE EchoInv'
  BY <1>1, <1>2, <1>9, EchoFrees DEF Echo!Ending, Echo!ConnEventcb, Echo!DemoEventcb,
     Echo!SampleEventcb
<1> QED BY <1>4, <1>5, <1>6, <1>7, <1>8, <1>9 DEF Echo!Next

LEMMA WebProgram == Web!Next => program' = program
<1>1. ASSUME NEW c, NEW s, Web!Send(c, s) PROVE program' = program
  BY <1>1 DEF Web!Send
<1>2. ASSUME NEW c, NEW s, NEW t, Web!ReadEvent(c, s, t) PROVE program' = program
  BY <1>2 DEF Web!ReadEvent
<1>3. ASSUME NEW c, Web!ReadAndFree(c) PROVE program' = program
  BY <1>3 DEF Web!ReadAndFree
<1> QED
  BY <1>1, <1>2, <1>3 DEF Web!Next, Web!Client, Web!Connect, Web!Leave, Web!Listening, Web!ListenCb,
     Web!ListenerCb, Web!NewBev, Web!Reading, Web!ReadCb, Web!ReadCbAnyMethod, Web!WebReadCb,
     Web!ReadCbGet, Web!Ending, Web!BeventCb, Web!BeventCbEofOnly, Web!NoEventCb, Web!EndFrees,
     Web!WriteFrees, Web!EndIgnored, Web!WriteIgnored, Web!Gone, Web!Writing, Web!Drain,
     Web!Sigpipe, Web!Stop

LEMMA EchoInvStep == EchoInv /\ [MCNext]_allVars => EchoInv'
<1> SUFFICES ASSUME EchoInv, [MCNext]_allVars PROVE EchoInv'
  OBVIOUS
<1>1. CASE UNCHANGED bevVars
  <2>1. UNCHANGED <<program, conn, peer, sentUnits, wire, reading, input, output, got>>
    BY <1>1 DEF bevVars
  <2>2. GreetersTypeOK => GreetersTypeOK'
    BY <2>1 DEF GreetersTypeOK
  <2>3. \A c \in Clients : ClientInv(c) => ClientInv(c)'
    BY <2>1, ClientSame DEF Same
  <2> QED BY <2>1, <2>2, <2>3 DEF EchoInv
<1>2. CASE Echo!Next /\ program \in Echo!EchoPrograms
  BY <1>2, EchoStepOK
<1>3. CASE Web!Next /\ program \in Web!WebPrograms
  <2>1. program \notin Echo!EchoPrograms
    BY <1>3 DEF Echo!EchoPrograms, Web!WebPrograms
  <2>2. program' = program
    BY <1>3, WebProgram
  <2> QED BY <2>1, <2>2 DEF EchoInv
<1> QED BY <1>1, <1>2, <1>3 DEF MCNext, Table, allVars, Next

LEMMA EchoesFollow == EchoInv => EchoesRight
<1> SUFFICES ASSUME EchoInv PROVE EchoesRight
  OBVIOUS
<1>1. Echo!EchoInOrder
  <2> SUFFICES ASSUME program \in Echo!EchoPrograms, NEW c \in Clients, conn[c] = "open"
               PROVE  /\ program = "change" => Echo!Path(c) = Echo!Greeting \o sentUnits[c]
                      /\ \A j, k \in DOMAIN Echo!Path(c) :
                           j < k /\ Echo!Sent(Echo!Path(c)[j]) /\ Echo!Sent(Echo!Path(c)[k])
                             => Echo!Path(c)[j][2] < Echo!Path(c)[k][2]
    BY DEF Echo!EchoInOrder
  <2>1. GreetersTypeOK /\ ClientInv(c)
    BY DEF EchoInv
  <2>2. Rising(Echo!Path(c)) /\ (program = "change" => Echo!Path(c) = Echo!Greeting \o sentUnits[c])
    BY <2>1 DEF ClientInv
  <2>3. DOMAIN Echo!Path(c) = 1..Len(Echo!Path(c))
    BY <2>1, ClientTypes
  <2> QED BY <2>2, <2>3 DEF Rising
<1>2. Echo!FlushedFirst
  BY DEF EchoInv, ClientInv, Echo!FlushedFirst, Echo!EchoPrograms
<1> QED BY <1>1, <1>2 DEF EchoesRight

(* Whatever way a client's text is cut into read events and buffers,       *)
(* helloworld-change.c loses and repeats nothing of it, myWwriteDemo.c     *)
(* never repeats or reorders, and hello-world.c frees nobody who listens   *)
(* before the greeting has gone out.                                       *)
THEOREM EchoesAreRight == MCSpec => []EchoesRight
<1> QED BY EchoInvInit, EchoInvStep, EchoesFollow, PTL DEF MCSpec
=============================================================================
