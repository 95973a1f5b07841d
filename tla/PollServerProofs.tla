-------------------------- MODULE PollServerProofs --------------------------
(***************************************************************************)
(* For every number of clients, descriptors and slots, and whatever the    *)
(* uninitialized revents hold: the poll server's array is the list of its  *)
(* open connections, its Read() never waits, and it implements             *)
(* StreamService.                                                          *)
(***************************************************************************)
EXTENDS PollServer, FiniteSetTheorems, TLAPS

(* The slots from i to k that the scan would take for ready. *)
HitsTo(k) == {s \in i..k : Hit(s)}

(* Those up to k are ready indeed, and nready counts them (and the         *)
(* listener, until accept() is done).                                      *)
Backed(k) ==
    /\ \A s \in HitsTo(k) :
         (pc = "write" /\ s = i) \/ Readable(fdtab[client[s]])
    /\ Cardinality(HitsTo(k)) = nready - (IF pc = "accept" THEN 1 ELSE 0)

(* poll() has just filled in every slot up to maxi. *)
AcceptInv ==
    pc = "accept" =>
        /\ i = 1 /\ nready > 0 /\ Backed(maxi)
        /\ \A s \in 1..maxi : revents[s] => client[s] # NoFd

(* Above k there may be the slot accept() took last, whose revents poll()  *)
(* has not set: the scan stops before it, as nready reaches 0 at k.        *)
ScanInv ==
    pc \in {"scan", "write"} =>
        /\ i <= maxi /\ nready > 0
        /\ \E k \in 0..maxi : Backed(k)
        /\ pc = "write" => Hit(i)

(* A descriptor stands for an open connection, and for one of its own.     *)
ConnInv ==
    /\ \A f \in OpenFds : phase[fdtab[f]] = "open"
    /\ \A f, g \in OpenFds : fdtab[f] = fdtab[g] => f = g

IInv == TypeOK /\ SlotsMatch /\ AcceptInv /\ ScanInv /\ ConnInv

-----------------------------------------------------------------------------
LEMMA Constants ==
    /\ NoConn \notin Conns /\ NoFd \notin Fds /\ Stack \subseteq BOOLEAN
    /\ OpenMax \in Nat /\ OpenMax > 1 /\ MaxLine \in Nat /\ MaxLine > 0
    /\ Slots = 1..(OpenMax - 1)
BY SocketsAssumption, PollAssumption DEF Slots

(* The invariant holds initially. *)
LEMMA InitInv == Init => IInv
<1> SUFFICES ASSUME Init PROVE IInv
  OBVIOUS
<1>1. EchoTypeOK /\ OpenFds = {}
  BY DEF Init, EchoInit, SockInit, EchoTypeOK, SockTypeOK, Phases, Ends, OpenFds
<1>2. TypeOK
  <2>1. revents \in [Slots -> BOOLEAN]
    BY Constants DEF Init
  <2>2. i \in 1..OpenMax /\ maxi \in 0..(OpenMax - 1) /\ nready \in Nat
    BY Constants DEF Init
  <2> QED BY <1>1, <2>1, <2>2 DEF Init, TypeOK
<1>3. SlotsMatch
  BY <1>1 DEF Init, SlotsMatch
<1> QED BY <1>1, <1>2, <1>3 DEF Init, IInv, AcceptInv, ScanInv, ConnInv

(* Slots and descriptors name connections. *)
LEMMA SlotType ==
    ASSUME IInv
    PROVE  /\ \A f \in OpenFds : f \in Fds /\ fdtab[f] \in Conns
           /\ \A s \in Slots : client[s] # NoFd =>
                client[s] \in OpenFds /\ fdtab[client[s]] \in Conns
           /\ \A s, t \in Slots :
                client[s] # NoFd /\ client[t] # NoFd /\ s # t =>
                    fdtab[client[s]] # fdtab[client[t]]
<1>1. \A f \in OpenFds : f \in Fds /\ fdtab[f] \in Conns
  BY DEF IInv, TypeOK, EchoTypeOK, SockTypeOK, OpenFds
<1>2. \A s \in Slots : client[s] # NoFd => client[s] \in OpenFds
  BY DEF IInv, SlotsMatch
<1>3. \A s, t \in Slots : client[s] # NoFd /\ client[t] # NoFd /\ s # t =>
         client[s] # client[t]
  BY DEF IInv, SlotsMatch
<1> QED BY <1>1, <1>2, <1>3 DEF IInv, ConnInv

(* The scan stays among the slots, and their number is a number. *)
LEMMA HitsFinite ==
    ASSUME TypeOK, NEW k \in 0..maxi
    PROVE  /\ HitsTo(k) \subseteq Slots /\ IsFiniteSet(HitsTo(k))
           /\ Cardinality(HitsTo(k)) \in Nat
<1>1. i \in Int /\ k \in Int /\ maxi \in Int /\ maxi <= OpenMax - 1 /\ 1 <= i /\ k <= maxi
  BY Constants DEF TypeOK
<1>2. i..k \subseteq Slots
  BY <1>1, Constants
<1>3. IsFiniteSet(i..k)
  BY <1>1, FS_Interval
<1>4. HitsTo(k) \subseteq i..k
  BY DEF HitsTo
<1> QED BY <1>2, <1>3, <1>4, FS_Subset, FS_CardinalityType

(* Where the count is positive there is a slot left; one that is passed    *)
(* over was not counted, one that is handled is counted off.               *)
LEMMA Counting ==
    ASSUME IInv, pc \in {"scan", "write"}, NEW k \in 0..maxi, Backed(k)
    PROVE  /\ i <= k
           /\ Hit(i) => i \in HitsTo(k)
           /\ ~Hit(i) => {s \in (i+1)..k : Hit(s)} = HitsTo(k)
           /\ Hit(i) => /\ {s \in (i+1)..k : Hit(s)} = HitsTo(k) \ {i}
                        /\ Cardinality(HitsTo(k) \ {i}) = nready - 1
<1>1. /\ i \in Int /\ k \in Int /\ nready \in Nat /\ nready > 0
      /\ Cardinality(HitsTo(k)) = nready
  BY Constants DEF IInv, TypeOK, ScanInv, Backed
<1>2. HitsTo(k) # {}
  BY <1>1, FS_EmptySet
<1>3. i <= k
  BY <1>1, <1>2 DEF HitsTo
<1>4. ~Hit(i) => {s \in (i+1)..k : Hit(s)} = HitsTo(k)
  BY <1>1, <1>3 DEF HitsTo
<1>5. Hit(i) => i \in HitsTo(k)
  BY <1>1, <1>3 DEF HitsTo
<1>6. {s \in (i+1)..k : Hit(s)} = HitsTo(k) \ {i}
  BY <1>1, <1>3 DEF HitsTo
<1>7. Hit(i) => Cardinality(HitsTo(k) \ {i}) = nready - 1
  BY <1>1, <1>5, HitsFinite, FS_RemoveElement DEF IInv
<1> QED BY <1>3, <1>4, <1>5, <1>6, <1>7

-----------------------------------------------------------------------------
(* Clients leave the descriptors alone, and take nothing away that is      *)
(* waiting to be read.                                                     *)
LEMMA ClientStep == ASSUME IInv, NEW c \in Conns, Client(c) PROVE IInv'
<1> USE DEF IInv
<1>1. UNCHANGED <<taken, fdtab, pc, client, revents, maxi, nready, i>> /\ EchoTypeOK'
  BY DEF Client, pollVars, ClientActs, Consume, Connect, Deliver, Fin, Abort, sockVars,
         TypeOK, EchoTypeOK, SockTypeOK, Phases, Ends, Alive
<1>2. OpenFds' = OpenFds
  BY <1>1 DEF OpenFds
<1>3. \A d \in Conns : phase[d] = "open" => phase'[d] = "open"
  BY DEF Client, ClientActs, Consume, Connect, Deliver, Fin, Abort, sockVars,
         TypeOK, EchoTypeOK, SockTypeOK
<1>4. \A d \in Conns : Readable(d) => Readable(d)'
  BY DEF Client, ClientActs, Consume, Connect, Deliver, Fin, Abort, sockVars,
         TypeOK, EchoTypeOK, SockTypeOK, Readable, Avail
<1>5. TypeOK'
  BY <1>1 DEF TypeOK
<1>6. SlotsMatch'
  BY <1>1, <1>2 DEF SlotsMatch
<1>7. ASSUME NEW k \in 0..maxi, Backed(k) PROVE Backed(k)'
  <2>1. HitsTo(k)' = HitsTo(k)
    BY <1>1 DEF HitsTo, Hit
  <2>2. \A s \in HitsTo(k) : fdtab[client[s]] \in Conns
    BY HitsFinite, SlotType DEF HitsTo, Hit
  <2> QED BY <1>1, <1>4, <1>7, <2>1, <2>2 DEF Backed
<1>8. AcceptInv'
  <2>1. maxi \in 0..maxi
    BY Constants DEF TypeOK
  <2> QED BY <1>1, <1>7, <2>1 DEF AcceptInv
<1>9. ScanInv'
  <2>1. Hit(i)' = Hit(i)
    BY <1>1 DEF Hit
  <2> QED BY <1>1, <1>7, <2>1 DEF ScanInv
<1>10. ConnInv'
  BY <1>1, <1>2, <1>3, SlotType DEF ConnInv
<1> QED BY <1>5, <1>6, <1>8, <1>9, <1>10

-----------------------------------------------------------------------------
(* A step of the scan: slot i is passed over or handled, and what is ahead *)
(* stays ready.                                                            *)
LEMMA ScanMoves ==
    ASSUME IInv, pc \in {"scan", "write"},
           i' = i + 1, maxi' = maxi,
           pc' \in {"poll", "scan"},
           pc' = "scan" => i # maxi /\ nready' > 0,
           nready' = IF Hit(i) THEN nready - 1 ELSE nready,
           \A s \in Slots \ {i} : Hit(s)' = Hit(s),
           \A s \in Slots \ {i} :
               Hit(s) /\ Readable(fdtab[client[s]]) => Readable(fdtab[client[s]])'
    PROVE  ScanInv' /\ AcceptInv'
<1>1. AcceptInv'
  BY DEF AcceptInv
<1>2. SUFFICES ASSUME pc' = "scan" PROVE ScanInv'
  BY <1>1 DEF ScanInv
<1>3. i \in Int /\ maxi \in Int /\ i <= maxi /\ i + 1 <= maxi
  BY <1>2, Constants DEF IInv, TypeOK, ScanInv
<1>4. PICK k \in 0..maxi : Backed(k)
  BY DEF IInv, ScanInv
<1>5. /\ i <= k /\ k \in Int
      /\ Hit(i) => i \in HitsTo(k)
      /\ ~Hit(i) => {s \in (i+1)..k : Hit(s)} = HitsTo(k)
      /\ Hit(i) => /\ {s \in (i+1)..k : Hit(s)} = HitsTo(k) \ {i}
                   /\ Cardinality(HitsTo(k) \ {i}) = nready - 1
  BY <1>3, <1>4, Counting
<1>6. \A s \in (i+1)..k : s \in Slots \ {i}
  BY <1>3, <1>5, Constants DEF IInv, TypeOK
<1>7. HitsTo(k)' = {s \in (i+1)..k : Hit(s)}
  BY <1>6 DEF HitsTo
<1>8. Cardinality(HitsTo(k)') = nready'
  <2>1. Cardinality(HitsTo(k)) = nready - 0
    BY <1>4 DEF Backed
  <2>2. nready - 0 = nready
    BY DEF IInv, TypeOK
  <2> QED BY <1>5, <1>7, <2>1, <2>2
<1>9. \A s \in HitsTo(k)' : Readable(fdtab[client[s]])'
  <2>1. \A s \in HitsTo(k)' : s \in HitsTo(k) /\ s \in Slots \ {i} /\ Hit(s)
    BY <1>5, <1>6, <1>7
  <2> QED BY <1>4, <2>1 DEF Backed
<1>10. Backed(k)'
  BY <1>2, <1>8, <1>9, Constants DEF Backed, IInv, TypeOK
<1> QED BY <1>2, <1>3, <1>4, <1>10 DEF ScanInv

(* The server's steps, one by one. *)
LEMMA ServerStep == ASSUME IInv, Server PROVE IInv'
<1> USE DEF IInv
<1>s. UNCHANGED sockVars => SockTypeOK' /\ OpenFds' = OpenFds /\ ConnInv'
  BY DEF TypeOK, EchoTypeOK, SockTypeOK, sockVars, OpenFds, ConnInv
<1>r. UNCHANGED sockVars => \A c \in Conns : Readable(c)' = Readable(c)
  BY DEF sockVars, Readable, Avail
<1>m. /\ maxi \in Nat /\ i \in Nat /\ nready \in Nat /\ maxi <= OpenMax - 1 /\ i >= 1
      /\ i <= OpenMax /\ OpenMax \in Nat
  BY Constants DEF TypeOK
<1>c. \A s \in Slots : Hit(s) =>
        client[s] \in OpenFds /\ client[s] \in Fds /\ fdtab[client[s]] \in Conns
  BY SlotType DEF Hit
<1>h. pc \in {"scan", "write"} => i <= maxi /\ i \in Slots
  BY <1>m, Constants DEF ScanInv
<1>1. CASE Poll
  <2>1. /\ pc = "poll" /\ i' = 1
        /\ revents' = [s \in Slots |-> IF s <= maxi THEN s \in ReadySlots ELSE revents[s]]
        /\ nready' = Cardinality(ReadySlots) + (IF Queued # {} THEN 1 ELSE 0)
        /\ pc' = IF Queued # {} THEN "accept" ELSE "scan"
        /\ UNCHANGED <<echoVars, client, maxi>>
        /\ Queued # {} \/ ReadySlots # {}
    BY <1>1 DEF Poll
  <2>2. UNCHANGED sockVars /\ UNCHANGED out
    BY <2>1 DEF echoVars
  <2>3. IsFiniteSet(ReadySlots) /\ Cardinality(ReadySlots) \in Nat
    <3>1. IsFiniteSet(1..maxi)
      BY <1>m, FS_Interval
    <3> QED BY <3>1, FS_Subset, FS_CardinalityType DEF ReadySlots
  <2>4. revents' \in [Slots -> BOOLEAN]
    <3>1. \A s \in Slots : revents[s] \in BOOLEAN
      BY DEF TypeOK
    <3>2. \A s \in Slots : (IF s <= maxi THEN s \in ReadySlots ELSE revents[s]) \in BOOLEAN
      <4> SUFFICES ASSUME NEW s \in Slots
                   PROVE  (IF s <= maxi THEN s \in ReadySlots ELSE revents[s]) \in BOOLEAN
        OBVIOUS
      <4>1. CASE s <= maxi
        <5>1. (s \in ReadySlots) \in BOOLEAN
          OBVIOUS
        <5> QED BY <4>1, <5>1, Zenon
      <4>2. CASE ~(s <= maxi)
        BY <3>1, <4>2, Zenon
      <4> QED BY <4>1, <4>2
    <3> QED BY <2>1, <3>2, Zenon
  <2>5. TypeOK'
    <3>1. EchoTypeOK'
      BY <1>s, <2>2 DEF TypeOK, EchoTypeOK
    <3>2. nready' \in Nat
      BY <2>1, <2>3
    <3>3. i' \in 1..OpenMax /\ pc' \in {"poll", "accept", "scan", "write", "dead"}
      BY <2>1, Constants
    <3> QED BY <2>1, <2>4, <3>1, <3>2, <3>3 DEF TypeOK
  <2>6. SlotsMatch'
    BY <1>s, <2>1, <2>2 DEF SlotsMatch
  <2>7. HitsTo(maxi)' = ReadySlots
    <3>1. \A s \in 1..maxi : s \in Slots /\ s <= maxi
      BY <1>m, Constants
    <3>2. \A s \in 1..maxi : Hit(s)' <=> s \in ReadySlots
      BY <2>1, <3>1 DEF Hit, ReadySlots
    <3>3. ReadySlots \subseteq 1..maxi
      BY DEF ReadySlots
    <3> QED BY <2>1, <3>2, <3>3 DEF HitsTo
  <2>8. Backed(maxi)'
    <3>1. \A s \in ReadySlots : Readable(fdtab[client[s]])'
      BY <2>1, <2>2 DEF ReadySlots, sockVars, Readable, Avail
    <3>2. Cardinality(ReadySlots) = nready' - (IF pc' = "accept" THEN 1 ELSE 0)
      BY <2>1, <2>3
    <3> QED BY <2>1, <2>7, <3>1, <3>2 DEF Backed
  <2>9. nready' > 0
    <3>1. ReadySlots # {} => Cardinality(ReadySlots) # 0
      BY <2>3, FS_EmptySet
    <3> QED BY <2>1, <2>3, <3>1
  <2>10. AcceptInv'
    <3>1. \A s \in 1..maxi : s \in Slots /\ s <= maxi
      BY <1>m, Constants
    <3>2. \A s \in 1..maxi : revents'[s] => client[s] # NoFd
      BY <2>1, <3>1 DEF ReadySlots
    <3> QED BY <2>1, <2>8, <2>9, <3>2 DEF AcceptInv
  <2>11. ScanInv'
    <3>1. ASSUME pc' = "scan" PROVE 1 <= maxi
      <4>1. PICK s \in ReadySlots : TRUE
        BY <2>1, <3>1
      <4> QED BY <1>m, <4>1 DEF ReadySlots
    <3>2. maxi \in 0..maxi /\ maxi' = maxi
      BY <1>m, <2>1
    <3>3. pc' # "write"
      BY <2>1
    <3> QED BY <2>1, <2>8, <2>9, <3>1, <3>2, <3>3 DEF ScanInv
  <2> QED BY <1>s, <2>2, <2>5, <2>6, <2>10, <2>11
<1>2. CASE Accept
  <2>1. PICK c \in Conns : \E f \in Fds : \E s \in Slots :
          /\ AcceptConn(c, f)
          /\ FirstFree(s)
          /\ client' = [client EXCEPT ![s] = f]
          /\ maxi' = IF s > maxi THEN s ELSE maxi
    BY <1>2 DEF Accept
  <2>2. PICK f \in Fds : \E s \in Slots :
          /\ AcceptConn(c, f)
          /\ FirstFree(s)
          /\ client' = [client EXCEPT ![s] = f]
          /\ maxi' = IF s > maxi THEN s ELSE maxi
    BY <2>1
  <2>3. PICK s \in Slots :
          /\ AcceptConn(c, f)
          /\ FirstFree(s)
          /\ client' = [client EXCEPT ![s] = f]
          /\ maxi' = IF s > maxi THEN s ELSE maxi
    BY <2>2
  <2>4. /\ pc = "accept" /\ nready' = nready - 1
        /\ pc' = IF nready = 1 THEN "poll" ELSE "scan"
        /\ UNCHANGED <<out, revents, i>>
    BY <1>2 DEF Accept
  <2>5. /\ phase' = [phase EXCEPT ![c] = "open"] /\ fdtab' = [fdtab EXCEPT ![f] = c]
        /\ phase[c] = "queued" /\ f \notin OpenFds /\ client[s] = NoFd
        /\ UNCHANGED <<sent, taken, end>>
    BY <2>3 DEF AcceptConn, Lowest, Free, Queued, FirstFree
  <2>6. SockTypeOK'
    BY <2>5 DEF TypeOK, EchoTypeOK, SockTypeOK, Phases
  <2>7. /\ OpenFds' = OpenFds \cup {f}
        /\ fdtab'[f] = c /\ \A g \in OpenFds : fdtab'[g] = fdtab[g]
    BY <2>5, Constants DEF TypeOK, EchoTypeOK, SockTypeOK, OpenFds
  <2>8. \A g \in OpenFds : phase[fdtab[g]] = "open" /\ fdtab[g] # c
    BY <2>5 DEF ConnInv
  <2>9. ConnInv'
    <3>1. \A g \in OpenFds' : phase'[fdtab'[g]] = "open"
      BY <2>5, <2>7, <2>8, SlotType DEF TypeOK, EchoTypeOK, SockTypeOK
    <3>2. \A g, h \in OpenFds' : fdtab'[g] = fdtab'[h] => g = h
      BY <2>7, <2>8 DEF ConnInv
    <3> QED BY <3>1, <3>2 DEF ConnInv
  <2>10. /\ maxi' \in 0..(OpenMax - 1) /\ maxi <= maxi' /\ s <= maxi' /\ s >= 1
         /\ maxi' \in Nat /\ s \in Nat
    BY <1>m, <2>3, Constants
  <2>11. client'[s] = f /\ \A t \in Slots \ {s} : client'[t] = client[t]
    BY <2>3 DEF TypeOK
  <2>12. nready' \in Nat /\ nready > 0
    BY <1>m, <2>4 DEF AcceptInv
  <2>13. TypeOK'
    <3>1. client' \in [Slots -> Fds \cup {NoFd}]
      BY <2>3 DEF TypeOK
    <3>2. pc' \in {"poll", "accept", "scan", "write", "dead"}
      BY <2>4
    <3>3. EchoTypeOK' /\ revents' \in [Slots -> BOOLEAN] /\ i' \in 1..OpenMax
      BY <2>4, <2>6 DEF TypeOK, EchoTypeOK
    <3> QED BY <2>10, <2>12, <3>1, <3>2, <3>3 DEF TypeOK
  <2>14. SlotsMatch'
    <3>1. ASSUME NEW g \in OpenFds' PROVE \E t \in 1..maxi' : client'[t] = g
      <4>1. CASE g = f
        BY <2>10, <2>11, <4>1
      <4>2. CASE g \in OpenFds
        <5>1. PICK t \in 1..maxi : client[t] = g
          BY <4>2 DEF SlotsMatch
        <5>2. t \in Slots /\ t # s /\ t \in 1..maxi'
          BY <1>m, <2>5, <2>10, <4>2, <5>1, Constants DEF OpenFds
        <5> QED BY <2>11, <5>1, <5>2
      <4> QED BY <2>7, <4>1, <4>2
    <3>2. \A t \in Slots : client'[t] # NoFd => client'[t] \in OpenFds'
      BY <2>7, <2>11 DEF SlotsMatch
    <3>3. \A t, u \in Slots : client'[t] = client'[u] /\ client'[t] # NoFd => t = u
      BY <2>5, <2>11 DEF SlotsMatch
    <3> QED BY <3>1, <3>2, <3>3 DEF SlotsMatch
  <2>15. AcceptInv'
    BY <2>4 DEF AcceptInv
  <2>16. ScanInv'
    <3>1. SUFFICES ASSUME pc' = "scan" PROVE ScanInv'
      BY <2>4 DEF ScanInv
    <3>2. nready' > 0 /\ i = 1 /\ Backed(maxi) /\ Cardinality(HitsTo(maxi)) = nready'
      BY <1>m, <2>4, <3>1 DEF AcceptInv, Backed
    <3>3. PICK k \in 0..maxi : k = maxi
      BY <1>m
    <3>4. HitsTo(k) # {}
      BY <2>12, <3>2, <3>3, FS_EmptySet
    <3>5. 1 <= k /\ k \in 0..maxi' /\ k \in Nat /\ 1 <= maxi'
      BY <1>m, <2>10, <3>2, <3>3, <3>4 DEF HitsTo
    <3>6. ASSUME NEW t \in 1..k PROVE t \in Slots /\ Hit(t)' = Hit(t) /\ (Hit(t) => t # s)
      <4>1. t \in Slots /\ t \in 1..maxi
        BY <1>m, <3>3, Constants
      <4>2. CASE t = s
        <5>1. ~revents[t]
          BY <2>4, <2>5, <4>1, <4>2 DEF AcceptInv
        <5> QED BY <2>4, <2>5, <4>1, <4>2, <5>1 DEF Hit
      <4>3. CASE t # s
        BY <2>4, <2>11, <4>1, <4>3 DEF Hit
      <4> QED BY <4>1, <4>2, <4>3
    <3>7. HitsTo(k)' = HitsTo(k)
      <4>1. HitsTo(k)' = {t \in 1..k : Hit(t)'}
        BY <2>4, <3>2 DEF HitsTo
      <4>2. HitsTo(k) = {t \in 1..k : Hit(t)}
        BY <3>2 DEF HitsTo
      <4> QED BY <3>6, <4>1, <4>2
    <3>8. \A t \in HitsTo(k) : Readable(fdtab[client[t]])'
      <4> SUFFICES ASSUME NEW t \in HitsTo(k) PROVE Readable(fdtab[client[t]])'
        OBVIOUS
      <4>1. t \in Slots /\ Hit(t) /\ t # s
        BY <3>2, <3>6 DEF HitsTo
      <4>2. client'[t] = client[t] /\ client[t] \in OpenFds
        BY <1>c, <2>11, <4>1
      <4>3. fdtab'[client[t]] = fdtab[client[t]]
        BY <2>7, <4>2
      <4>4. Readable(fdtab[client[t]])
        BY <2>4, <3>2, <3>3 DEF Backed
      <4> QED BY <2>5, <4>2, <4>3, <4>4 DEF Readable, Avail
    <3>9. Backed(k)'
      <4>1. nready' - 0 = nready'
        <5>1. \A x \in Nat : x - 0 = x
          OBVIOUS
        <5> QED BY <2>12, <5>1
      <4>2. Cardinality(HitsTo(k)) = nready'
        BY <3>2, <3>3
      <4> QED BY <3>1, <3>7, <3>8, <4>1, <4>2 DEF Backed
    <3> QED BY <2>4, <3>1, <3>2, <3>5, <3>9 DEF ScanInv
  <2> QED BY <2>9, <2>13, <2>14, <2>15, <2>16
<1>3. CASE AcceptFails \/ WriteSigpipe
  <2>1. pc' = "dead" /\ UNCHANGED <<echoVars, client, revents, maxi, nready, i>>
    BY <1>3 DEF AcceptFails, WriteSigpipe
  <2>2. UNCHANGED sockVars /\ UNCHANGED out
    BY <2>1 DEF echoVars
  <2>3. TypeOK'
    BY <1>s, <2>1, <2>2 DEF TypeOK, EchoTypeOK
  <2> QED BY <1>s, <2>1, <2>2, <2>3 DEF SlotsMatch, AcceptInv, ScanInv
<1>4. CASE Skip
  <2>1. /\ pc = "scan" /\ ~Hit(i) /\ NextSlot(FALSE)
        /\ UNCHANGED <<echoVars, client, revents, maxi, nready>>
    BY <1>4 DEF Skip
  <2>2. UNCHANGED sockVars /\ UNCHANGED out
    BY <2>1 DEF echoVars
  <2>3. /\ i' = i + 1 /\ pc' \in {"poll", "scan"}
        /\ pc' = "scan" => i # maxi
    BY <2>1 DEF NextSlot
  <2>4. TypeOK'
    <3>1. i' \in 1..OpenMax
      BY <1>m, <1>h, <2>1, <2>3
    <3> QED BY <1>s, <2>1, <2>2, <2>3, <3>1 DEF TypeOK, EchoTypeOK
  <2>5. nready' > 0
    BY <2>1 DEF ScanInv
  <2>6. \A s \in Slots : /\ Hit(s)' = Hit(s)
                         /\ Readable(fdtab[client[s]])' = Readable(fdtab[client[s]])
    BY <2>1, <2>2 DEF Hit, Readable, Avail, sockVars
  <2>7. ScanInv' /\ AcceptInv'
    BY <2>1, <2>3, <2>5, <2>6, ScanMoves
  <2> QED BY <1>s, <2>1, <2>2, <2>4, <2>7 DEF SlotsMatch
<1>5. CASE ReadData
  <2>1. /\ pc = "scan" /\ Hit(i) /\ HasData(Conn) /\ TakeData(Conn, ReadSize(Conn, MaxLine))
        /\ pc' = "write" /\ UNCHANGED <<out, client, revents, maxi, nready, i>>
    BY <1>5 DEF ReadData
  <2>2. Conn \in Conns /\ i \in Slots /\ i <= maxi
    BY <1>c, <1>h, <2>1 DEF Conn
  <2>3. ReadSize(Conn, MaxLine) \in Nat
    BY <2>1, <2>2, Constants DEF ReadSize, HasData, Avail, TypeOK, EchoTypeOK, SockTypeOK
  <2>4. /\ taken' = [taken EXCEPT ![Conn] = @ + ReadSize(Conn, MaxLine)]
        /\ UNCHANGED <<phase, sent, end, fdtab>>
    BY <2>1 DEF TakeData
  <2>5. SockTypeOK' /\ OpenFds' = OpenFds /\ ConnInv'
    BY <2>2, <2>3, <2>4 DEF TypeOK, EchoTypeOK, SockTypeOK, OpenFds, ConnInv
  <2>6. TypeOK' /\ SlotsMatch' /\ AcceptInv'
    BY <2>1, <2>5 DEF TypeOK, EchoTypeOK, SlotsMatch, AcceptInv
  <2>7. PICK k \in 0..maxi : Backed(k)
    BY <2>1 DEF ScanInv
  <2>8. \A s \in HitsTo(k) \ {i} : Readable(fdtab[client[s]])'
    <3> SUFFICES ASSUME NEW s \in HitsTo(k) \ {i} PROVE Readable(fdtab[client[s]])'
      OBVIOUS
    <3>1. s \in Slots /\ Hit(s) /\ s # i
      BY HitsFinite DEF HitsTo
    <3>2. fdtab[client[s]] # Conn /\ fdtab[client[s]] \in Conns
      BY <1>c, <2>1, <2>2, <3>1, SlotType DEF Conn, Hit
    <3>3. Readable(fdtab[client[s]])
      BY <2>1, <2>7 DEF Backed
    <3> QED BY <2>1, <2>4, <3>2, <3>3 DEF Readable, Avail, TypeOK, EchoTypeOK, SockTypeOK
  <2>9. HitsTo(k)' = HitsTo(k)
    BY <2>1 DEF HitsTo, Hit
  <2>10. Cardinality(HitsTo(k)) = nready - 0
    BY <2>1, <2>7 DEF Backed
  <2>11. Backed(k)'
    BY <2>1, <2>8, <2>9, <2>10 DEF Backed
  <2>12. ScanInv'
    BY <2>1, <2>2, <2>11 DEF ScanInv, Hit
  <2> QED BY <2>5, <2>6, <2>12
<1>6. CASE ReadEnd
  <2>1. /\ pc = "scan" /\ Hit(i) /\ CloseFd(client[i])
        /\ client' = [client EXCEPT ![i] = NoFd]
        /\ Handled /\ UNCHANGED <<out, revents, maxi>>
    BY <1>6 DEF ReadEnd
  <2>2. /\ i \in Slots /\ i <= maxi /\ client[i] # NoFd /\ client[i] \in OpenFds
        /\ client[i] \in Fds /\ Conn \in Conns
    BY <1>c, <1>h, <2>1 DEF Conn, Hit
  <2>3. /\ phase' = [phase EXCEPT ![Conn] = "closed"]
        /\ fdtab' = [fdtab EXCEPT ![client[i]] = NoConn]
        /\ UNCHANGED <<sent, taken, end>>
    BY <2>1 DEF CloseFd, Conn
  <2>4. SockTypeOK'
    BY <2>2, <2>3 DEF TypeOK, EchoTypeOK, SockTypeOK, Phases
  <2>5. OpenFds' = OpenFds \ {client[i]} /\ \A f \in OpenFds' : fdtab'[f] = fdtab[f]
    BY <2>2, <2>3, Constants DEF TypeOK, EchoTypeOK, SockTypeOK, OpenFds
  <2>6. client'[i] = NoFd /\ \A s \in Slots \ {i} : client'[s] = client[s]
    BY <2>1, <2>2 DEF TypeOK
  <2>7. ConnInv'
    <3>1. \A f \in OpenFds' : fdtab[f] # Conn
      BY <2>2, <2>5 DEF ConnInv, Conn
    <3> QED BY <2>3, <2>5, <3>1, SlotType DEF ConnInv, TypeOK, EchoTypeOK, SockTypeOK
  <2>8. SlotsMatch'
    <3>1. ASSUME NEW f \in OpenFds' PROVE \E s \in 1..maxi' : client'[s] = f
      <4>1. PICK s \in 1..maxi : client[s] = f
        BY <2>5 DEF SlotsMatch
      <4>2. s \in Slots /\ s # i
        BY <1>m, <2>5, <4>1, Constants
      <4> QED BY <2>1, <2>6, <4>1, <4>2
    <3>2. \A s \in Slots : client'[s] # NoFd => client'[s] \in OpenFds'
      BY <2>2, <2>5, <2>6 DEF SlotsMatch
    <3>3. \A s, t \in Slots : client'[s] = client'[t] /\ client'[s] # NoFd => s = t
      BY <2>6 DEF SlotsMatch
    <3> QED BY <3>1, <3>2, <3>3 DEF SlotsMatch
  <2>9. /\ nready' = nready - 1 /\ nready' \in Nat
        /\ i' = i + 1 /\ pc' \in {"poll", "scan"} /\ i' \in 1..OpenMax
        /\ pc' = "scan" => i # maxi /\ nready' > 0
    BY <1>m, <2>1, <2>2 DEF Handled, NextSlot, ScanInv
  <2>10. TypeOK'
    <3>1. client' \in [Slots -> Fds \cup {NoFd}]
      BY <2>1 DEF TypeOK
    <3> QED BY <2>1, <2>4, <2>9, <3>1 DEF TypeOK, EchoTypeOK
  <2>11. \A s \in Slots \ {i} :
           /\ Hit(s)' = Hit(s)
           /\ Hit(s) /\ Readable(fdtab[client[s]]) => Readable(fdtab[client[s]])'
    <3> SUFFICES ASSUME NEW s \in Slots \ {i}
                 PROVE  /\ Hit(s)' = Hit(s)
                        /\ Hit(s) /\ Readable(fdtab[client[s]]) => Readable(fdtab[client[s]])'
      OBVIOUS
    <3>1. Hit(s)' = Hit(s)
      BY <2>1, <2>6 DEF Hit
    <3>2. ASSUME Hit(s) PROVE client'[s] = client[s] /\ fdtab'[client[s]] = fdtab[client[s]]
      <4>1. client[s] \in OpenFds /\ client[s] # client[i]
        BY <1>c, <2>2, <3>2 DEF SlotsMatch, Hit
      <4> QED BY <2>5, <2>6, <4>1
    <3> QED BY <2>3, <3>1, <3>2 DEF Readable, Avail
  <2>12. ScanInv' /\ AcceptInv'
    BY <2>1, <2>9, <2>11, ScanMoves
  <2> QED BY <2>7, <2>8, <2>10, <2>12
<1>7. CASE Write
  <2>1. /\ pc = "write" /\ Handled /\ UNCHANGED <<client, revents, maxi>>
        /\ WriteOk(Conn) \/ WriteReset(Conn)
    BY <1>7 DEF Write
  <2>2. i \in Slots /\ i <= maxi /\ Hit(i) /\ Conn \in Conns
    BY <1>c, <1>h, <2>1 DEF Conn, ScanInv
  <2>3. /\ UNCHANGED <<phase, sent, taken, fdtab>>
        /\ end' \in [Conns -> Ends] /\ out' \in [Conns -> Nat]
        /\ \A d \in Conns : end[d] # "none" => end'[d] # "none"
    BY <2>1, <2>2 DEF WriteOk, WriteReset, TakeError, TypeOK, EchoTypeOK, SockTypeOK, Ends,
                      sockVars
  <2>4. SockTypeOK' /\ OpenFds' = OpenFds /\ ConnInv'
    BY <2>3 DEF TypeOK, EchoTypeOK, SockTypeOK, OpenFds, ConnInv
  <2>5. /\ nready' = nready - 1 /\ nready' \in Nat
        /\ i' = i + 1 /\ pc' \in {"poll", "scan"} /\ i' \in 1..OpenMax
        /\ pc' = "scan" => i # maxi /\ nready' > 0
    BY <1>m, <2>1, <2>2 DEF Handled, NextSlot, ScanInv
  <2>6. TypeOK' /\ SlotsMatch'
    BY <2>1, <2>3, <2>4, <2>5 DEF TypeOK, EchoTypeOK, SlotsMatch
  <2>7. \A s \in Slots \ {i} :
           /\ Hit(s)' = Hit(s)
           /\ Hit(s) /\ Readable(fdtab[client[s]]) => Readable(fdtab[client[s]])'
    BY <1>c, <2>1, <2>3 DEF Hit, Readable, Avail
  <2>8. ScanInv' /\ AcceptInv'
    BY <2>1, <2>2, <2>5, <2>7, ScanMoves
  <2> QED BY <2>4, <2>6, <2>8
<1> QED BY <1>1, <1>2, <1>3, <1>4, <1>5, <1>6, <1>7 DEF Server

LEMMA NextInv == IInv /\ [Next]_vars => IInv'
<1> SUFFICES ASSUME IInv, [Next]_vars PROVE IInv'
  OBVIOUS
<1>1. CASE Server
  BY <1>1, ServerStep
<1>2. ASSUME NEW c \in Conns, Client(c) PROVE IInv'
  BY <1>2, ClientStep
<1>3. CASE UNCHANGED vars
  <2>1. TypeOK' /\ SlotsMatch' /\ ConnInv'
    BY <1>3 DEF IInv, vars, echoVars, sockVars, pollVars, TypeOK, EchoTypeOK, SockTypeOK,
                SlotsMatch, ConnInv, OpenFds
  <2>2. UNCHANGED <<pc, i, maxi, nready, revents, client, fdtab>>
    BY <1>3 DEF vars, echoVars, sockVars, pollVars
  <2>3. \A k \in Int : HitsTo(k)' = HitsTo(k) /\ (Backed(k) => Backed(k)')
    BY <1>3, <2>2 DEF vars, echoVars, sockVars, HitsTo, Hit, Backed, Readable, Avail
  <2>4. maxi \in Int /\ \A k \in 0..maxi : k \in Int
    BY Constants DEF IInv, TypeOK
  <2>5. AcceptInv' /\ ScanInv'
    <3>1. pc = "accept" => Backed(maxi)'
      <4>1. PICK k \in Int : k = maxi
        BY <2>4
      <4>2. Backed(k) => Backed(k)'
        BY <2>3
      <4> QED BY <2>2, <4>1, <4>2 DEF IInv, AcceptInv, Backed, HitsTo
    <3> QED BY <2>2, <2>3, <2>4, <3>1 DEF IInv, AcceptInv, ScanInv, Hit
  <2> QED BY <2>1, <2>5 DEF IInv
<1> QED BY <1>1, <1>2, <1>3 DEF Next

LEMMA Invariance == Spec => []IInv
BY InitInv, NextInv, PTL DEF Spec

-----------------------------------------------------------------------------
(* Every reachable state of the poll server is well typed. *)
THEOREM TypeCorrect == Spec => []TypeOK
<1>1. IInv => TypeOK
  BY DEF IInv
<1> QED BY <1>1, Invariance, PTL

(* client[] and maxi (pollDemo.c:66-93, 108-125) stay the list of the open *)
(* connections, whatever the order slots are freed and taken again in.     *)
THEOREM ArrayIsConnections == Spec => []SlotsMatch
<1>1. IInv => SlotsMatch
  BY DEF IInv
<1> QED BY <1>1, Invariance, PTL

(* The blocking Read() of pollDemo.c:107 never waits, although the revents *)
(* of a slot that was just taken may hold anything.                        *)
THEOREM NeverWaitsInRead == Spec => []ReadOnlyWhenReady
<1>1. IInv => ReadOnlyWhenReady
  <2> SUFFICES ASSUME IInv, pc = "scan", Hit(i) PROVE Readable(Conn)
    BY DEF ReadOnlyWhenReady
  <2>1. PICK k \in 0..maxi : Backed(k)
    BY DEF IInv, ScanInv
  <2>2. i \in HitsTo(k)
    BY <2>1, Counting
  <2> QED BY <2>1, <2>2 DEF Backed, Conn
<1> QED BY <1>1, Invariance, PTL

-----------------------------------------------------------------------------
(* Every step is one of StreamService, or changes nothing it shows. *)
LEMMA StepRefines == IInv /\ [Next]_vars => [Abstract!Next]_Abstract!vars
<1> SUFFICES ASSUME IInv, [Next]_vars PROVE [Abstract!Next]_Abstract!vars
  OBVIOUS
<1> USE DEF Abstract!vars
<1>t. SockTypeOK
  BY DEF IInv, TypeOK, EchoTypeOK
<1>h. pc \in {"scan", "write"} /\ Hit(i) =>
        Conn \in Conns /\ phase[Conn] = "open" /\ Conn = fdtab[client[i]]
  <2>1. pc \in {"scan", "write"} => i \in Slots
    BY Constants DEF IInv, TypeOK, ScanInv
  <2> QED BY <2>1, SlotType DEF IInv, ConnInv, Conn, Hit
<1>w. pc = "write" => Hit(i)
  BY DEF IInv, ScanInv
<1>1. ASSUME NEW c \in Conns, Client(c) PROVE [Abstract!Next]_Abstract!vars
  <2>1. UNCHANGED pc
    BY <1>1 DEF Client, pollVars
  <2>2. CASE Connect(c)
    BY <2>1, <2>2 DEF Connect, Abstract!Connect, Abstract!Next
  <2>3. CASE sent[c] < MaxSent[c] /\ Deliver(c, 1)
    BY <2>1, <2>3 DEF Deliver, Alive, Abstract!Send, Abstract!Next
  <2>4. CASE Fin(c)
    BY <2>1, <2>4 DEF Fin, Alive, Abstract!End, Abstract!Next
  <2>5. CASE Abort(c)
    BY <1>t, <2>1, <2>5 DEF Abort, Alive, Abstract!End, Abstract!Next, SockTypeOK
  <2>6. CASE Consume(c)
    BY <2>1, <2>6 DEF Consume, sockVars
  <2> QED BY <1>1, <2>2, <2>3, <2>4, <2>5, <2>6 DEF Client, ClientActs
<1>2. CASE Accept
  <2>1. PICK c \in Conns : \E f \in Fds : AcceptConn(c, f)
    BY <1>2 DEF Accept
  <2>2. Abstract!Accept(c)
    BY <1>2, <2>1 DEF Accept, AcceptConn, Queued, Abstract!Accept
  <2> QED BY <2>2 DEF Abstract!Next
<1>3. CASE AcceptFails \/ WriteSigpipe
  BY <1>3 DEF AcceptFails, WriteSigpipe, echoVars, sockVars, Abstract!Die, Abstract!Next
<1>4. CASE ReadData
  <2>1. /\ pc = "scan" /\ Hit(i) /\ HasData(Conn) /\ pc' = "write"
        /\ TakeData(Conn, ReadSize(Conn, MaxLine))
    BY <1>4 DEF ReadData
  <2>2. ReadSize(Conn, MaxLine) \in 1..(sent[Conn] - taken[Conn])
    BY <1>t, <1>h, <2>1, Constants DEF HasData, ReadSize, Avail, SockTypeOK
  <2>3. Abstract!Take(Conn)
    BY <1>h, <2>1, <2>2 DEF TakeData, Abstract!Take
  <2> QED BY <1>h, <2>1, <2>3 DEF Abstract!Serve, Abstract!Next
<1>5. CASE ReadEnd
  <2>1. /\ pc = "scan" /\ Hit(i) /\ CloseFd(client[i]) /\ pc' \in {"poll", "scan"}
        /\ AtEof(Conn) \/ HasError(Conn)
    BY <1>5 DEF ReadEnd, Handled, NextSlot
  <2>2. taken[Conn] = sent[Conn] /\ end[Conn] # "none"
    BY <1>t, <1>h, <2>1 DEF AtEof, HasError, Avail, SockTypeOK
  <2>3. Abstract!Close(Conn)
    BY <1>h, <2>1, <2>2 DEF CloseFd, Abstract!Close
  <2> QED BY <1>h, <2>1, <2>3 DEF Abstract!Serve, Abstract!Next
<1>6. CASE Write
  <2>1. pc = "write" /\ pc' \in {"poll", "scan"} /\ (WriteOk(Conn) \/ WriteReset(Conn))
    BY <1>6 DEF Write, Handled, NextSlot
  <2>2. CASE WriteOk(Conn)
    BY <2>1, <2>2 DEF WriteOk, sockVars
  <2>3. CASE WriteReset(Conn)
    <3>1. Abstract!Learn(Conn)
      BY <1>t, <1>h, <1>w, <2>1, <2>3 DEF WriteReset, TakeError, Abstract!Learn, SockTypeOK
    <3> QED BY <1>h, <1>w, <2>1, <3>1 DEF Abstract!Next
  <2> QED BY <2>1, <2>2, <2>3
<1>7. CASE Poll
  BY <1>7 DEF Poll, echoVars, sockVars
<1>8. CASE Skip
  BY <1>8 DEF Skip, NextSlot, echoVars, sockVars
<1>9. CASE UNCHANGED vars
  BY <1>9 DEF vars, echoVars, sockVars, pollVars
<1> QED BY <1>1, <1>2, <1>3, <1>4, <1>5, <1>6, <1>7, <1>8, <1>9 DEF Next, Server

(* The poll server takes only what was sent, in order, and closes only     *)
(* what has ended and been read to the end.                                *)
THEOREM KeepsThePromise == Spec => Implements
<1>1. Init => Abstract!Init
  BY DEF Init, EchoInit, SockInit, Abstract!Init
<1> QED BY <1>1, StepRefines, Invariance, PTL DEF Spec, Implements, Abstract!Spec
=============================================================================
