------------------------- MODULE SelectServerProofs -------------------------
(***************************************************************************)
(* For every number of clients and descriptors: the select server watches  *)
(* exactly its open connections, never waits in Read(), and implements     *)
(* StreamService.                                                          *)
(***************************************************************************)
EXTENDS SelectServer, FiniteSetTheorems, TLAPS

(* What the scan has still ahead of it is open and has something to read.  *)
Ahead == IF pc = "accept" THEN rest
         ELSE {f \in rest : f > i \/ (pc = "scan" /\ f = i)}

RestInv ==
    pc \in {"accept", "scan", "write"} =>
        \A f \in Ahead : f \in OpenFds /\ Readable(fdtab[f])

(* select() counted the listener before accept() is called; Write() answers*)
(* an open connection.                                                     *)
PlaceInv ==
    /\ pc = "accept" => n > 0
    /\ pc = "write" => i \in OpenFds

(* A descriptor stands for an open connection, and for one of its own.     *)
ConnInv ==
    /\ \A f \in OpenFds : phase[fdtab[f]] = "open"
    /\ \A f, g \in OpenFds : fdtab[f] = fdtab[g] => f = g

IInv == TypeOK /\ WatchesAll /\ RestInv /\ PlaceInv /\ ConnInv

-----------------------------------------------------------------------------
LEMMA Constants ==
    /\ LFd \in Nat /\ Fds \subseteq Nat /\ NoConn \notin Conns /\ BufSize \in Nat
    /\ LFd \notin Fds
BY SocketsAssumption, SelectAssumption

(* The invariant holds initially. *)
LEMMA InitInv == Init => IInv
BY Constants
   DEF Init, EchoInit, SockInit, IInv, TypeOK, EchoTypeOK, SockTypeOK, Phases, Ends,
       WatchesAll, RestInv, Ahead, PlaceInv, ConnInv, OpenFds

(* Descriptors name connections. *)
LEMMA OpenType == IInv => \A f \in OpenFds : f \in Fds /\ f \in Nat /\ fdtab[f] \in Conns
BY Constants DEF IInv, TypeOK, EchoTypeOK, SockTypeOK, OpenFds

(* Clients leave the descriptors alone, and take nothing away that is      *)
(* waiting to be read.                                                     *)
LEMMA ClientStep == ASSUME IInv, NEW c \in Conns, Client(c) PROVE IInv'
<1> USE DEF IInv, TypeOK, EchoTypeOK
<1>1. UNCHANGED <<taken, fdtab, pc, oldSet, rest, maxFd, n, i>> /\ EchoTypeOK'
  BY DEF Client, selectVars, ClientActs, Consume, Connect, Deliver, Fin, Abort, sockVars,
         SockTypeOK, Phases, Ends, Alive
<1>2. OpenFds' = OpenFds /\ Ahead' = Ahead
  BY <1>1 DEF OpenFds, Ahead
<1>3. \A d \in Conns : phase[d] = "open" => phase'[d] = "open"
  BY DEF Client, ClientActs, Consume, Connect, Deliver, Fin, Abort, sockVars, SockTypeOK
<1>4. \A d \in Conns : Readable(d) => Readable(d)'
  BY DEF Client, ClientActs, Consume, Connect, Deliver, Fin, Abort, sockVars, SockTypeOK,
         Readable, Avail
<1>5. RestInv'
  BY <1>1, <1>2, <1>4, OpenType DEF RestInv
<1>6. ConnInv'
  BY <1>1, <1>2, <1>3, OpenType DEF ConnInv
<1> QED BY <1>1, <1>2, <1>5, <1>6 DEF WatchesAll, PlaceInv

(* The server's steps, one by one. *)
LEMMA ServerStep == ASSUME IInv, Server PROVE IInv'
<1> USE Constants DEF IInv, TypeOK, EchoTypeOK
<1>s. UNCHANGED sockVars => SockTypeOK' /\ OpenFds' = OpenFds /\ ConnInv'
  BY DEF SockTypeOK, sockVars, OpenFds, ConnInv
<1>r. UNCHANGED sockVars => \A f \in OpenFds : Readable(fdtab[f])' = Readable(fdtab[f])
  BY DEF sockVars, Readable, Avail
<1>o. \A f \in OpenFds : f \in Fds /\ f \in Nat /\ fdtab[f] \in Conns
  BY OpenType
<1>m. /\ maxFd \in Nat /\ i \in Nat /\ n \in Nat
      /\ i + 1 \in Nat /\ LFd + 1 \in Nat
      /\ \A f \in oldSet : f \in Nat
      /\ \A f \in rest : f \in Nat
  OBVIOUS
<1>1. CASE Select
  <2> DEFINE R == {f \in oldSet : f <= maxFd /\ Readable(fdtab[f])}
  <2>1. /\ rest' = R /\ n' = Cardinality(R) + (IF Queued # {} THEN 1 ELSE 0)
        /\ pc' = IF Queued # {} THEN "accept" ELSE "scan"
        /\ i' = LFd + 1
        /\ UNCHANGED <<echoVars, oldSet, maxFd>>
    BY <1>1 DEF Select
  <2>2. Cardinality(R) \in Nat
    <3>1. IsFiniteSet(0..maxFd)
      BY <1>m, FS_Interval
    <3>2. R \subseteq 0..maxFd
      <4> SUFFICES ASSUME NEW f \in R PROVE f \in 0..maxFd
        OBVIOUS
      <4>1. f \in Nat /\ f <= maxFd
        BY <1>m
      <4> QED BY <1>m, <4>1
    <3>3. IsFiniteSet(R)
      BY <3>1, <3>2, FS_Subset
    <3> QED BY <3>3, FS_CardinalityType
  <2>3. UNCHANGED sockVars /\ UNCHANGED out
    BY <2>1 DEF echoVars
  <2>4. TypeOK'
    <3>1. n' \in Nat
      BY <2>1, <2>2
    <3>2. rest' \subseteq Fds
      BY <2>1
    <3>3. pc' \in {"select", "accept", "scan", "write", "dead"}
      BY <2>1
    <3> QED BY <1>s, <1>m, <2>1, <2>3, <3>1, <3>2, <3>3
  <2>5. RestInv'
    <3>1. Ahead' \subseteq rest'
      BY DEF Ahead
    <3>2. \A f \in R : f \in OpenFds /\ Readable(fdtab[f])
      BY DEF WatchesAll
    <3> QED BY <1>s, <1>r, <2>1, <2>3, <3>1, <3>2 DEF RestInv, sockVars
  <2>6. PlaceInv'
    BY <2>1, <2>2 DEF PlaceInv
  <2> QED BY <1>s, <2>1, <2>3, <2>4, <2>5, <2>6 DEF WatchesAll
<1>2. CASE Accept
  <2>1. PICK c \in Conns : \E f \in Fds :
          /\ AcceptConn(c, f)
          /\ oldSet' = oldSet \cup {f}
          /\ maxFd' = IF f > maxFd THEN f ELSE maxFd
    BY <1>2 DEF Accept
  <2>2. PICK f \in Fds :
          /\ AcceptConn(c, f)
          /\ oldSet' = oldSet \cup {f}
          /\ maxFd' = IF f > maxFd THEN f ELSE maxFd
    BY <2>1
  <2>3. /\ pc = "accept" /\ n' = n - 1 /\ pc' = IF n = 1 THEN "select" ELSE "scan"
        /\ UNCHANGED <<out, rest, i>>
    BY <1>2 DEF Accept
  <2>4. /\ phase' = [phase EXCEPT ![c] = "open"] /\ fdtab' = [fdtab EXCEPT ![f] = c]
        /\ phase[c] = "queued" /\ f \notin OpenFds /\ UNCHANGED <<sent, taken, end>>
    BY <2>2 DEF AcceptConn, Lowest, Free, Queued
  <2>5. SockTypeOK'
    BY <2>4 DEF SockTypeOK, Phases
  <2>6. /\ OpenFds' = OpenFds \cup {f}
        /\ fdtab'[f] = c /\ \A g \in OpenFds : fdtab'[g] = fdtab[g]
    BY <2>4 DEF OpenFds, SockTypeOK
  <2>7. \A g \in OpenFds : phase[fdtab[g]] = "open" /\ fdtab[g] # c
    BY <2>4 DEF ConnInv
  <2>8. ConnInv'
    <3>1. \A g \in OpenFds' : phase'[fdtab'[g]] = "open"
      BY <2>4, <2>6, <2>7, <1>o DEF SockTypeOK
    <3>2. \A g, h \in OpenFds' : fdtab'[g] = fdtab'[h] => g = h
      BY <2>6, <2>7 DEF ConnInv
    <3> QED BY <3>1, <3>2 DEF ConnInv
  <2>9. WatchesAll'
    <3>1. oldSet' = OpenFds'
      BY <2>2, <2>6 DEF WatchesAll
    <3>2. f \in Nat /\ maxFd' \in Nat /\ maxFd <= maxFd' /\ f <= maxFd'
      BY <1>m, <2>2, Constants
    <3>3. ASSUME NEW g \in OpenFds PROVE g <= maxFd'
      <4>1. g \in Nat /\ g <= maxFd
        BY <1>o DEF WatchesAll
      <4> QED BY <1>m, <3>2, <4>1
    <3> QED BY <2>6, <3>1, <3>2, <3>3 DEF WatchesAll
  <2>10. TypeOK' /\ PlaceInv'
    BY <1>m, <2>2, <2>3, <2>5 DEF PlaceInv
  <2>11. RestInv'
    <3>1. \A g \in rest : g \in OpenFds /\ Readable(fdtab[g])
      BY <2>3 DEF RestInv, Ahead
    <3>2. \A g \in OpenFds : Readable(fdtab[g]) => Readable(fdtab[g])'
      BY <2>4, <2>6 DEF Readable, Avail
    <3>3. Ahead' \subseteq rest
      BY <2>3 DEF Ahead
    <3> QED BY <2>6, <3>1, <3>2, <3>3 DEF RestInv
  <2> QED BY <2>8, <2>9, <2>10, <2>11
<1>3. CASE AcceptFails
  <2>1. pc' = "dead" /\ UNCHANGED <<echoVars, oldSet, rest, maxFd, n, i>>
    BY <1>3 DEF AcceptFails
  <2>2. UNCHANGED sockVars /\ UNCHANGED out
    BY <2>1 DEF echoVars
  <2> QED BY <1>s, <2>1, <2>2 DEF WatchesAll, RestInv, PlaceInv
<1>4. CASE Skip
  <2>1. /\ pc = "scan" /\ i \notin rest /\ i' = i + 1
        /\ UNCHANGED <<echoVars, pc, oldSet, rest, maxFd, n>>
    BY <1>4 DEF Skip
  <2>2. UNCHANGED sockVars /\ UNCHANGED out
    BY <2>1 DEF echoVars
  <2>3. Ahead' \subseteq Ahead
    <3> SUFFICES ASSUME NEW f \in Ahead' PROVE f \in Ahead
      OBVIOUS
    <3>1. f \in rest /\ f >= i + 1 /\ f \in Nat
      BY <1>m, <2>1 DEF Ahead
    <3> QED BY <1>m, <2>1, <3>1 DEF Ahead
  <2>4. RestInv'
    BY <1>s, <1>r, <2>1, <2>2, <2>3 DEF RestInv, sockVars
  <2>5. TypeOK'
    BY <1>s, <1>m, <2>1, <2>2
  <2>6. WatchesAll' /\ PlaceInv'
    BY <1>s, <2>1, <2>2 DEF WatchesAll, PlaceInv
  <2> QED BY <1>s, <2>2, <2>4, <2>5, <2>6
<1>5. CASE ScanDone
  <2>1. pc' = "select" /\ UNCHANGED <<echoVars, oldSet, rest, maxFd, n, i>>
    BY <1>5 DEF ScanDone
  <2>2. UNCHANGED sockVars /\ UNCHANGED out
    BY <2>1 DEF echoVars
  <2> QED BY <1>s, <2>1, <2>2 DEF WatchesAll, RestInv, PlaceInv
<1>h. Hit => i \in Ahead /\ i \in OpenFds /\ Conn \in Conns
  BY <1>o DEF Hit, Ahead, RestInv, Conn
<1>6. CASE ReadData
  <2>1. /\ Hit /\ HasData(Conn) /\ TakeData(Conn, ReadSize(Conn, BufSize))
        /\ pc' = "write" /\ UNCHANGED <<out, oldSet, rest, maxFd, n, i>>
    BY <1>6 DEF ReadData
  <2>2. ReadSize(Conn, BufSize) \in Nat
    BY <1>h, <2>1 DEF ReadSize, HasData, Avail, SockTypeOK
  <2>3. /\ taken' = [taken EXCEPT ![Conn] = @ + ReadSize(Conn, BufSize)]
        /\ UNCHANGED <<phase, sent, end, fdtab>>
    BY <2>1 DEF TakeData
  <2>4. SockTypeOK' /\ OpenFds' = OpenFds /\ ConnInv'
    BY <1>h, <2>1, <2>2, <2>3 DEF SockTypeOK, OpenFds, ConnInv
  <2>5. RestInv'
    <3>1. Ahead' \subseteq Ahead \ {i}
      <4> SUFFICES ASSUME NEW f \in Ahead' PROVE f \in Ahead \ {i}
        OBVIOUS
      <4>1. f \in rest /\ f >= i + 1 /\ f \in Nat
        BY <1>m, <2>1 DEF Ahead, Hit
      <4> QED BY <1>m, <2>1, <4>1 DEF Ahead, Hit
    <3>2. \A f \in OpenFds \ {i} : fdtab[f] \in Conns \ {Conn}
      BY <1>h, <1>o, <2>1 DEF ConnInv, Conn
    <3>3. \A f \in OpenFds \ {i} : Readable(fdtab[f]) => Readable(fdtab[f])'
      BY <2>3, <3>2 DEF Readable, Avail, SockTypeOK
    <3>4. \A f \in Ahead : f \in OpenFds /\ Readable(fdtab[f])
      BY <2>1 DEF RestInv, Hit
    <3> QED BY <2>4, <3>1, <3>3, <3>4 DEF RestInv
  <2> QED BY <1>h, <2>1, <2>3, <2>4, <2>5 DEF WatchesAll, PlaceInv
<1>7. CASE ReadEnd
  <2>1. /\ Hit /\ CloseFd(i) /\ oldSet' = oldSet \ {i} /\ i' = i + 1
        /\ UNCHANGED <<out, pc, rest, maxFd, n>>
    BY <1>7 DEF ReadEnd
  <2>2. /\ phase' = [phase EXCEPT ![Conn] = "closed"] /\ fdtab' = [fdtab EXCEPT ![i] = NoConn]
        /\ UNCHANGED <<sent, taken, end>>
    BY <2>1 DEF CloseFd, Conn
  <2>3. i \in OpenFds /\ i \in Fds /\ Conn \in Conns
    BY <1>h, <1>o, <2>1
  <2>4. SockTypeOK'
    BY <2>2, <2>3 DEF SockTypeOK, Phases
  <2>5. OpenFds' = OpenFds \ {i} /\ \A f \in OpenFds' : fdtab'[f] = fdtab[f]
    BY <2>2, <2>3 DEF OpenFds, SockTypeOK
  <2>6. ConnInv'
    <3>1. \A f \in OpenFds' : fdtab[f] # Conn
      BY <2>3, <2>5 DEF ConnInv, Conn
    <3> QED BY <1>o, <2>2, <2>5, <3>1 DEF ConnInv, SockTypeOK
  <2>7. RestInv'
    <3>1. Ahead' \subseteq Ahead \ {i}
      <4> SUFFICES ASSUME NEW f \in Ahead' PROVE f \in Ahead \ {i}
        OBVIOUS
      <4>1. f \in rest /\ f >= i + 1 /\ f \in Nat
        BY <1>m, <2>1 DEF Ahead, Hit
      <4> QED BY <1>m, <2>1, <4>1 DEF Ahead, Hit
    <3>2. \A f \in OpenFds' : Readable(fdtab[f]) => Readable(fdtab[f])'
      BY <2>2, <2>5 DEF Readable, Avail
    <3>3. \A f \in Ahead : f \in OpenFds /\ Readable(fdtab[f])
      BY <2>1 DEF RestInv, Hit
    <3> QED BY <2>5, <3>1, <3>2, <3>3 DEF RestInv
  <2>8. TypeOK' /\ WatchesAll'
    BY <1>m, <2>1, <2>4, <2>5 DEF WatchesAll
  <2>9. PlaceInv'
    BY <2>1 DEF PlaceInv, Hit
  <2> QED BY <2>6, <2>7, <2>8, <2>9
<1>8. CASE Write
  <2>1. /\ pc = "write" /\ pc' = "scan" /\ i' = i + 1
        /\ UNCHANGED <<oldSet, rest, maxFd, n>>
        /\ WriteOk(Conn) \/ WriteReset(Conn)
    BY <1>8 DEF Write
  <2>2. Conn \in Conns
    BY <1>o, <2>1 DEF PlaceInv, Conn
  <2>3. /\ UNCHANGED <<phase, sent, taken, fdtab>>
        /\ end' \in [Conns -> Ends] /\ out' \in [Conns -> Nat]
        /\ \A d \in Conns : end[d] # "none" => end'[d] # "none"
    BY <2>1, <2>2 DEF WriteOk, WriteReset, TakeError, SockTypeOK, Ends, sockVars
  <2>4. SockTypeOK' /\ OpenFds' = OpenFds /\ ConnInv'
    BY <2>3 DEF SockTypeOK, OpenFds, ConnInv
  <2>5. RestInv'
    <3>1. Ahead' \subseteq Ahead
      <4> SUFFICES ASSUME NEW f \in Ahead' PROVE f \in Ahead
        OBVIOUS
      <4>1. f \in rest /\ f >= i + 1 /\ f \in Nat
        BY <1>m, <2>1 DEF Ahead
      <4> QED BY <1>m, <2>1, <4>1 DEF Ahead
    <3>2. \A f \in OpenFds : Readable(fdtab[f]) => Readable(fdtab[f])'
      BY <1>o, <2>3 DEF Readable, Avail
    <3> QED BY <2>1, <2>4, <3>1, <3>2 DEF RestInv
  <2> QED BY <1>m, <2>1, <2>3, <2>4, <2>5 DEF WatchesAll, PlaceInv
<1>9. CASE WriteSigpipe
  <2>1. pc' = "dead" /\ UNCHANGED <<echoVars, oldSet, rest, maxFd, n, i>>
    BY <1>9 DEF WriteSigpipe
  <2>2. UNCHANGED sockVars /\ UNCHANGED out
    BY <2>1 DEF echoVars
  <2> QED BY <1>s, <2>1, <2>2 DEF WatchesAll, RestInv, PlaceInv
<1> QED BY <1>1, <1>2, <1>3, <1>4, <1>5, <1>6, <1>7, <1>8, <1>9 DEF Server

LEMMA NextInv == IInv /\ [Next]_vars => IInv'
<1> SUFFICES ASSUME IInv, [Next]_vars PROVE IInv'
  OBVIOUS
<1>1. CASE Server
  BY <1>1, ServerStep
<1>2. ASSUME NEW c \in Conns, Client(c) PROVE IInv'
  BY <1>2, ClientStep
<1>3. CASE UNCHANGED vars
  BY <1>3 DEF IInv, vars, echoVars, sockVars, selectVars, TypeOK, EchoTypeOK, SockTypeOK,
              WatchesAll, RestInv, Ahead, PlaceInv, ConnInv, OpenFds, Readable, Avail
<1> QED BY <1>1, <1>2, <1>3 DEF Next

LEMMA Invariance == Spec => []IInv
BY InitInv, NextInv, PTL DEF Spec

-----------------------------------------------------------------------------
(* Every reachable state of the select server is well typed. *)
THEOREM TypeCorrect == Spec => []TypeOK
<1>1. IInv => TypeOK
  BY DEF IInv
<1> QED BY <1>1, Invariance, PTL

(* oldSet and maxFd (selectFun.c:61-66, 84-95) stay in step with the open  *)
(* connections: select() looks at all of them and at nothing else.         *)
THEOREM NoneIsForgotten == Spec => []WatchesAll
<1>1. IInv => WatchesAll
  BY DEF IInv
<1> QED BY <1>1, Invariance, PTL

(* The blocking Read() of selectFun.c:83 never waits. *)
THEOREM NeverWaitsInRead == Spec => []ReadOnlyWhenReady
<1>1. IInv => ReadOnlyWhenReady
  <2> SUFFICES ASSUME IInv, Hit PROVE Conn # NoConn /\ Readable(Conn)
    BY DEF ReadOnlyWhenReady
  <2>1. i \in Ahead /\ pc = "scan"
    BY DEF Hit, Ahead
  <2> QED BY <2>1 DEF IInv, RestInv, OpenFds, Conn
<1> QED BY <1>1, Invariance, PTL

-----------------------------------------------------------------------------
(* Every step is one of StreamService, or changes nothing it shows. *)
LEMMA StepRefines == IInv /\ [Next]_vars => [Abstract!Next]_Abstract!vars
<1> SUFFICES ASSUME IInv, [Next]_vars PROVE [Abstract!Next]_Abstract!vars
  OBVIOUS
<1> USE DEF Abstract!vars
<1>t. SockTypeOK
  BY DEF IInv, TypeOK, EchoTypeOK
<1>h. Hit => Conn \in Conns /\ phase[Conn] = "open"
  BY OpenType DEF IInv, RestInv, Ahead, Hit, ConnInv, Conn
<1>w. pc = "write" => Conn \in Conns /\ phase[Conn] = "open"
  BY OpenType DEF IInv, PlaceInv, ConnInv, Conn
<1>1. ASSUME NEW c \in Conns, Client(c) PROVE [Abstract!Next]_Abstract!vars
  <2>1. UNCHANGED pc
    BY <1>1 DEF Client, selectVars
  <2>2. CASE Connect(c)
    BY <2>1, <2>2 DEF Connect, Abstract!Connect, Abstract!Next
  <2>3. CASE sent[c] < MaxSent[c] /\ Deliver(c, 1)
    BY <2>1, <2>3 DEF Deliver, Alive, Abstract!Send, Abstract!Next
  <2>4. CASE Fin(c)
    BY <2>1, <2>4 DEF Fin, Alive, Abstract!End, Abstract!Next
  <2>5. CASE Abort(c)
    BY <1>t, <2>1, <2>5 DEF Abort, Alive, Abstract!End, Abstract!Next, SockTypeOK
  <2>6. CASE Consume(c)
    BY <2>1, <2>6 DEF Consume, sockVars
  <2> QED BY <1>1, <2>2, <2>3, <2>4, <2>5, <2>6 DEF Client, ClientActs
<1>2. CASE Accept
  <2>1. PICK c \in Conns : \E f \in Fds : AcceptConn(c, f)
    BY <1>2 DEF Accept
  <2>2. Abstract!Accept(c)
    BY <1>2, <2>1 DEF Accept, AcceptConn, Queued, Abstract!Accept
  <2> QED BY <2>2 DEF Abstract!Next
<1>3. CASE AcceptFails \/ WriteSigpipe
  BY <1>3 DEF AcceptFails, WriteSigpipe, echoVars, sockVars, Abstract!Die, Abstract!Next
<1>4. CASE ReadData
  <2>1. Hit /\ HasData(Conn) /\ TakeData(Conn, ReadSize(Conn, BufSize)) /\ pc' = "write"
    BY <1>4 DEF ReadData
  <2>2. ReadSize(Conn, BufSize) \in 1..(sent[Conn] - taken[Conn])
    BY <1>t, <1>h, <2>1, SelectAssumption DEF HasData, ReadSize, Avail, SockTypeOK
  <2>3. Abstract!Take(Conn)
    BY <1>h, <2>1, <2>2 DEF Hit, TakeData, Abstract!Take
  <2> QED BY <1>h, <2>1, <2>3 DEF Abstract!Serve, Abstract!Next
<1>5. CASE ReadEnd
  <2>1. Hit /\ CloseFd(i) /\ UNCHANGED pc /\ (AtEof(Conn) \/ HasError(Conn))
    BY <1>5 DEF ReadEnd
  <2>2. taken[Conn] = sent[Conn] /\ end[Conn] # "none"
    BY <1>t, <1>h, <2>1 DEF AtEof, HasError, Avail, SockTypeOK
  <2>3. Abstract!Close(Conn)
    BY <1>h, <2>1, <2>2 DEF Hit, CloseFd, Conn, Abstract!Close
  <2> QED BY <1>h, <2>1, <2>3 DEF Abstract!Serve, Abstract!Next
<1>6. CASE Write
  <2>1. pc = "write" /\ pc' = "scan" /\ (WriteOk(Conn) \/ WriteReset(Conn))
    BY <1>6 DEF Write
  <2>2. CASE WriteOk(Conn)
    BY <2>1, <2>2 DEF WriteOk, sockVars
  <2>3. CASE WriteReset(Conn)
    <3>1. Abstract!Learn(Conn)
      BY <1>t, <1>w, <2>1, <2>3 DEF WriteReset, TakeError, Abstract!Learn, SockTypeOK
    <3> QED BY <1>w, <2>1, <3>1 DEF Abstract!Next
  <2> QED BY <2>1, <2>2, <2>3
<1>7. CASE Select
  BY <1>7 DEF Select, echoVars, sockVars
<1>8. CASE Skip \/ ScanDone \/ UNCHANGED vars
  BY <1>8 DEF Skip, ScanDone, vars, echoVars, sockVars, selectVars
<1> QED BY <1>1, <1>2, <1>3, <1>4, <1>5, <1>6, <1>7, <1>8 DEF Next, Server

(* The select server takes only what was sent, in order, and closes only   *)
(* what has ended and been read to the end.                                *)
THEOREM KeepsThePromise == Spec => Implements
<1>1. Init => Abstract!Init
  BY DEF Init, EchoInit, SockInit, Abstract!Init
<1> QED BY <1>1, StepRefines, Invariance, PTL DEF Spec, Implements, Abstract!Spec
=============================================================================
