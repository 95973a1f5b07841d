--------------------------- MODULE EpollETProofs ---------------------------
(***************************************************************************)
(* For every number of clients and descriptors: the edge-triggered reader  *)
(* loses no edge, and each of its steps is one that StreamService allows.  *)
(***************************************************************************)
EXTENDS EpollET, TLAPS

(* Which descriptors are where: the batch is empty between two rounds, the *)
(* tree and the ready list hold open descriptors only.                     *)
PlaceInv ==
    /\ pc = "wait" => evs = {}
    /\ tree \subseteq OpenFds /\ ready \subseteq tree

(* A connection that has something to read is on the ready list, in the    *)
(* batch, or being read; one that is off the tree is being read, and its   *)
(* end is known.                                                           *)
EdgeInv ==
    \A f \in OpenFds :
        /\ Readable(fdtab[f]) => f \in ready \cup evs \/ (pc = "read" /\ f = cur)
        /\ f \notin tree => pc = "read" /\ f = cur /\ end[fdtab[f]] = "broken"

(* A descriptor stands for an open connection, and for one of its own.     *)
ConnInv ==
    /\ \A f \in OpenFds : phase[fdtab[f]] = "open"
    /\ \A f, g \in OpenFds : fdtab[f] = fdtab[g] => f = g

IInv == TypeOK /\ BatchIsOpen /\ PlaceInv /\ EdgeInv /\ ConnInv

-----------------------------------------------------------------------------
(* The invariant holds initially. *)
LEMMA InitInv == Init => IInv
BY DEF Init, SockInit, IInv, TypeOK, SockTypeOK, Phases, Ends, BatchIsOpen, PlaceInv,
       EdgeInv, ConnInv, OpenFds

(* What a client does keeps the descriptors as they are, and what it makes *)
(* readable is put on the ready list.                                      *)
LEMMA ClientStep == ASSUME IInv, NEW c \in Conns, Client(c) PROVE IInv'
<1> USE DEF IInv, TypeOK, SockTypeOK
<1>1. /\ UNCHANGED <<taken, fdtab, pc, evs, cur, tree, nonblock>>
      /\ SockTypeOK' /\ OpenFds' = OpenFds
      /\ \A d \in Conns : phase[d] = "open" => phase'[d] = "open"
      /\ \A d \in Conns : end[d] = "broken" => end'[d] = "broken"
  BY DEF Client, Connect, Deliver, Fin, Abort, Phases, Ends, OpenFds, Alive
<1>2. /\ ready \subseteq ready' /\ ready' \subseteq tree
      /\ \A f \in tree : fdtab[f] = c => f \in ready' \/ (sent'[c] = sent[c] /\ end'[c] = end[c])
  BY DEF Client, Connect, Edge, PlaceInv
<1>3. \A d \in Conns \ {c} : sent'[d] = sent[d] /\ end'[d] = end[d]
  BY DEF Client, Connect, Deliver, Fin, Abort
<1>4. \A f \in OpenFds : fdtab[f] \in Conns
  BY DEF OpenFds
<1>5. TypeOK'
  BY <1>1, <1>2
<1>6. BatchIsOpen' /\ PlaceInv'
  BY <1>1, <1>2 DEF BatchIsOpen, PlaceInv
<1>7. ConnInv'
  BY <1>1, <1>4 DEF ConnInv
<1>8. EdgeInv'
  <2> SUFFICES ASSUME NEW f \in OpenFds
               PROVE  /\ Readable(fdtab[f])' => f \in ready' \cup evs \/ (pc = "read" /\ f = cur)
                      /\ f \notin tree => pc = "read" /\ f = cur /\ end'[fdtab[f]] = "broken"
    BY <1>1 DEF EdgeInv
  <2>1. f \notin tree => pc = "read" /\ f = cur /\ end'[fdtab[f]] = "broken"
    BY <1>1, <1>4 DEF EdgeInv
  <2>2. CASE f \in ready' \/ f \notin tree
    BY <2>1, <2>2
  <2>3. CASE f \notin ready' /\ f \in tree
    <3>1. sent'[fdtab[f]] = sent[fdtab[f]] /\ end'[fdtab[f]] = end[fdtab[f]]
      BY <1>2, <1>3, <1>4, <2>3
    <3>2. Readable(fdtab[f])' => Readable(fdtab[f])
      BY <1>1, <3>1 DEF Readable, Avail
    <3> QED BY <1>2, <2>1, <3>2 DEF EdgeInv
  <2> QED BY <2>2, <2>3
<1> QED BY <1>5, <1>6, <1>7, <1>8

(* The server's steps, one by one. *)
LEMMA ServerStep == ASSUME IInv, Server PROVE IInv'
<1> USE SocketsAssumption, EpollETAssumption DEF IInv, TypeOK
<1>s. UNCHANGED sockVars => SockTypeOK' /\ OpenFds' = OpenFds /\ ConnInv'
  BY DEF SockTypeOK, sockVars, OpenFds, ConnInv
<1>r. UNCHANGED sockVars => \A f \in OpenFds : Readable(fdtab[f])' = Readable(fdtab[f])
  BY DEF sockVars, Readable, Avail
<1>o. \A f \in OpenFds : f \in Fds /\ fdtab[f] \in Conns
  BY DEF OpenFds, SockTypeOK
<1>1. CASE EpollWait
  <2>1. PICK S \in SUBSET Reportable : evs' = S /\ ready' = {f \in ready \ S : Readable(fdtab[f])}
    BY <1>1 DEF EpollWait
  <2>2. /\ UNCHANGED <<sockVars, cur, tree, nonblock>> /\ pc = "wait" /\ pc' = "next"
        /\ evs = {}
    BY <1>1 DEF EpollWait, PlaceInv
  <2>3. Reportable \subseteq ready \cup {LFd} /\ ready \subseteq OpenFds
    BY DEF Reportable, PlaceInv
  <2>4. TypeOK' /\ BatchIsOpen' /\ PlaceInv'
    BY <1>s, <1>o, <2>1, <2>2, <2>3 DEF BatchIsOpen, PlaceInv
  <2>5. EdgeInv'
    BY <1>s, <1>r, <2>1, <2>2 DEF EdgeInv, sockVars
  <2> QED BY <1>s, <2>2, <2>4, <2>5
<1>2. CASE BatchDone
  <2>1. /\ UNCHANGED <<sockVars, evs, cur, tree, ready, nonblock>>
        /\ pc = "next" /\ evs = {} /\ pc' = "wait"
    BY <1>2 DEF BatchDone
  <2>2. EdgeInv'
    BY <1>s, <1>r, <2>1 DEF EdgeInv, sockVars
  <2> QED BY <1>s, <2>1, <2>2 DEF BatchIsOpen, PlaceInv
<1>3. CASE AcceptEvent
  <2>1. PICK c \in Conns : \E f \in Fds :
          /\ AcceptConn(c, f)
          /\ nonblock' = nonblock \cup {f} /\ tree' = tree \cup {f}
          /\ ready' = ready \cup (IF Readable(c) THEN {f} ELSE {})
    BY <1>3 DEF AcceptEvent
  <2>2. PICK f \in Fds :
          /\ AcceptConn(c, f)
          /\ nonblock' = nonblock \cup {f} /\ tree' = tree \cup {f}
          /\ ready' = ready \cup (IF Readable(c) THEN {f} ELSE {})
    BY <2>1
  <2>3. pc = "next" /\ evs' = evs \ {LFd} /\ UNCHANGED <<pc, cur, sent, taken, end>>
    BY <1>3, <2>2 DEF AcceptEvent, AcceptConn
  <2>4. /\ phase' = [phase EXCEPT ![c] = "open"] /\ fdtab' = [fdtab EXCEPT ![f] = c]
        /\ phase[c] = "queued" /\ f \notin OpenFds
    BY <2>2 DEF AcceptConn, Lowest, Free, Queued
  <2>5. SockTypeOK'
    BY <2>3, <2>4 DEF SockTypeOK, Phases
  <2>6. /\ OpenFds' = OpenFds \cup {f}
        /\ fdtab'[f] = c /\ \A g \in OpenFds : fdtab'[g] = fdtab[g]
    BY <2>4 DEF OpenFds, SockTypeOK
  <2>7. \A g \in OpenFds : phase[fdtab[g]] = "open" /\ fdtab[g] # c
    BY <2>4 DEF ConnInv
  <2>8. ConnInv'
    <3>1. \A g \in OpenFds' : phase'[fdtab'[g]] = "open"
      BY <2>4, <2>6, <2>7, <1>o DEF SockTypeOK
    <3>2. \A g, h \in OpenFds' : fdtab'[g] = fdtab'[h] => g = h
      BY <2>6, <2>7 DEF ConnInv
    <3> QED BY <3>1, <3>2 DEF ConnInv
  <2>9. TypeOK' /\ BatchIsOpen' /\ PlaceInv'
    BY <2>2, <2>3, <2>5, <2>6 DEF BatchIsOpen, PlaceInv
  <2>10. EdgeInv'
    <3>1. \A d \in Conns : Readable(d)' = Readable(d)
      BY <2>3 DEF Readable, Avail
    <3>2. \A g \in OpenFds' : Readable(fdtab[g])' => Readable(fdtab'[g])
      BY <2>3, <2>6 DEF Readable, Avail
    <3>3. LFd \notin OpenFds
      BY <1>o
    <3>4. \A g \in OpenFds : (Readable(fdtab[g]) => g \in ready' \cup evs') /\ g \in tree'
      BY <2>2, <2>3, <3>3 DEF EdgeInv
    <3>5. (Readable(c) => f \in ready') /\ f \in tree'
      BY <2>2
    <3> QED BY <2>6, <3>2, <3>4, <3>5 DEF EdgeInv
  <2> QED BY <2>8, <2>9, <2>10
<1>4. CASE AcceptFails
  <2>1. /\ UNCHANGED <<sockVars, evs, cur, tree, ready, nonblock>>
        /\ pc = "next" /\ pc' = "exit"
    BY <1>4 DEF AcceptFails
  <2>2. EdgeInv'
    BY <1>s, <1>r, <2>1 DEF EdgeInv, sockVars
  <2> QED BY <1>s, <2>1, <2>2 DEF BatchIsOpen, PlaceInv
<1>5. CASE StartEvent
  <2>1. PICK f \in evs \ {LFd} : cur' = f /\ evs' = evs \ {f}
    BY <1>5 DEF StartEvent
  <2>2. pc = "next" /\ pc' = "read" /\ UNCHANGED <<sockVars, tree, ready, nonblock>>
    BY <1>5 DEF StartEvent
  <2>3. EdgeInv'
    BY <1>s, <1>r, <2>1, <2>2 DEF EdgeInv, sockVars
  <2> QED BY <1>s, <2>1, <2>2, <2>3 DEF BatchIsOpen, PlaceInv
<1>6. CASE ReadSome
  <2>1. /\ pc = "read" /\ HasData(Conn) /\ TakeData(Conn, ReadSize(Conn, BufSize))
        /\ UNCHANGED <<pc, evs, cur, tree, ready, nonblock>>
    BY <1>6 DEF ReadSome
  <2>2. cur \in OpenFds /\ Conn \in Conns
    BY <1>o, <2>1 DEF BatchIsOpen, Conn
  <2>3. ReadSize(Conn, BufSize) \in Nat
    BY <2>1, <2>2 DEF ReadSize, HasData, Avail, SockTypeOK
  <2>4. /\ taken' = [taken EXCEPT ![Conn] = @ + ReadSize(Conn, BufSize)]
        /\ UNCHANGED <<phase, sent, end, fdtab>>
    BY <2>1 DEF TakeData
  <2>5. SockTypeOK' /\ OpenFds' = OpenFds /\ ConnInv'
    BY <2>2, <2>3, <2>4 DEF SockTypeOK, OpenFds, ConnInv
  <2>6. EdgeInv'
    <3>1. \A f \in OpenFds : f # cur => fdtab[f] # Conn
      BY <2>2 DEF ConnInv, Conn
    <3>2. \A f \in OpenFds : f # cur => (Readable(fdtab[f])' <=> Readable(fdtab[f]))
      BY <1>o, <2>4, <3>1 DEF Readable, Avail, SockTypeOK
    <3> QED BY <2>1, <2>4, <2>5, <3>2 DEF EdgeInv
  <2> QED BY <2>1, <2>5, <2>6 DEF BatchIsOpen, PlaceInv
<1>7. CASE ReadAgain
  <2>1. /\ UNCHANGED <<sockVars, evs, cur, tree, ready, nonblock>>
        /\ pc = "read" /\ WouldBlock(Conn) /\ pc' = "next"
    BY <1>7 DEF ReadAgain
  <2>2. ~Readable(fdtab[cur]) /\ end[fdtab[cur]] = "none"
    BY <2>1 DEF WouldBlock, Readable, Conn
  <2>3. EdgeInv'
    BY <1>s, <1>r, <2>1, <2>2 DEF EdgeInv, sockVars
  <2> QED BY <1>s, <2>1, <2>3 DEF BatchIsOpen, PlaceInv
<1>8. CASE ReadError
  <2>1. /\ pc = "read" /\ HasError(Conn) /\ TakeError(Conn)
        /\ tree' = tree \ {cur} /\ ready' = ready \ {cur}
        /\ UNCHANGED <<pc, evs, cur, nonblock>>
    BY <1>8 DEF ReadError
  <2>2. cur \in OpenFds /\ Conn \in Conns
    BY <1>o, <2>1 DEF BatchIsOpen, Conn
  <2>3. /\ end' = [end EXCEPT ![Conn] = "broken"]
        /\ UNCHANGED <<phase, sent, taken, fdtab>>
    BY <2>1, <2>2 DEF TakeError, HasError, SockTypeOK
  <2>4. SockTypeOK' /\ OpenFds' = OpenFds /\ ConnInv'
    BY <2>2, <2>3 DEF SockTypeOK, OpenFds, ConnInv, Ends
  <2>5. EdgeInv'
    <3>1. end'[fdtab[cur]] = "broken"
      BY <2>2, <2>3 DEF Conn, SockTypeOK
    <3>2. \A f \in OpenFds : f # cur => fdtab[f] # Conn
      BY <2>2 DEF ConnInv, Conn
    <3>3. \A f \in OpenFds : f # cur => (Readable(fdtab[f])' <=> Readable(fdtab[f]))
      BY <1>o, <2>3, <3>2 DEF Readable, Avail, SockTypeOK
    <3> QED BY <2>1, <2>3, <2>4, <3>1, <3>3 DEF EdgeInv
  <2> QED BY <2>1, <2>4, <2>5 DEF BatchIsOpen, PlaceInv
<1>9. CASE ReadEof
  <2>1. /\ pc = "read" /\ CloseFd(cur) /\ pc' = "next"
        /\ tree' = tree \ {cur} /\ ready' = ready \ {cur} /\ nonblock' = nonblock \ {cur}
        /\ UNCHANGED <<evs, cur>>
    BY <1>9 DEF ReadEof
  <2>2. cur \in OpenFds \ evs /\ Conn \in Conns /\ cur \in Fds
    BY <1>o, <2>1 DEF BatchIsOpen, Conn
  <2>3. /\ phase' = [phase EXCEPT ![Conn] = "closed"] /\ fdtab' = [fdtab EXCEPT ![cur] = NoConn]
        /\ UNCHANGED <<sent, taken, end>>
    BY <2>1 DEF CloseFd, Conn
  <2>4. SockTypeOK'
    BY <2>2, <2>3 DEF SockTypeOK, Phases
  <2>5. OpenFds' = OpenFds \ {cur} /\ \A f \in OpenFds' : fdtab'[f] = fdtab[f]
    BY <2>2, <2>3 DEF OpenFds, SockTypeOK
  <2>6. \A f \in OpenFds' : fdtab[f] # Conn
    BY <2>2, <2>5 DEF ConnInv, Conn
  <2>7. ConnInv'
    BY <1>o, <2>3, <2>5, <2>6 DEF ConnInv, SockTypeOK
  <2>8. EdgeInv'
    <3>1. \A f \in OpenFds' : Readable(fdtab[f])' => Readable(fdtab[f])
      BY <2>3, <2>5 DEF Readable, Avail
    <3> QED BY <2>1, <2>3, <2>5, <3>1 DEF EdgeInv
  <2> QED BY <2>1, <2>2, <2>4, <2>5, <2>7, <2>8 DEF BatchIsOpen, PlaceInv
<1> QED BY <1>1, <1>2, <1>3, <1>4, <1>5, <1>6, <1>7, <1>8, <1>9 DEF Server

LEMMA NextInv == IInv /\ [Next]_vars => IInv'
<1> SUFFICES ASSUME IInv, [Next]_vars PROVE IInv'
  OBVIOUS
<1>1. CASE Server
  BY <1>1, ServerStep
<1>2. ASSUME NEW c \in Conns, Client(c) PROVE IInv'
  BY <1>2, ClientStep
<1>3. CASE UNCHANGED vars
  BY <1>3 DEF IInv, vars, sockVars, TypeOK, SockTypeOK, BatchIsOpen, PlaceInv, EdgeInv,
              ConnInv, OpenFds, Readable, Avail, Conn
<1> QED BY <1>1, <1>2, <1>3 DEF Next

LEMMA Invariance == Spec => []IInv
BY InitInv, NextInv, PTL DEF Spec

-----------------------------------------------------------------------------
(* Every reachable state of the edge-triggered reader is well typed. *)
THEOREM TypeCorrect == Spec => []TypeOK
<1>1. IInv => TypeOK
  BY DEF IInv
<1> QED BY <1>1, Invariance, PTL

(* No edge is lost: reading to EAGAIN (demo03.c:73-84) leaves nothing      *)
(* behind that epoll would not report again.                               *)
THEOREM NoEdgeIsLost == Spec => []NoLostEdge
<1>1. IInv => NoLostEdge
  BY DEF IInv, PlaceInv, EdgeInv, NoLostEdge
<1> QED BY <1>1, Invariance, PTL

(* The batch of epoll_wait() names open descriptors only, though           *)
(* connections are closed and accepted while it is worked off.             *)
THEOREM BatchStaysOpen == Spec => []BatchIsOpen
<1>1. IInv => BatchIsOpen
  BY DEF IInv
<1> QED BY <1>1, Invariance, PTL

-----------------------------------------------------------------------------
(* Every step is one of StreamService, or changes nothing it shows. *)
LEMMA StepRefines == IInv /\ [Next]_vars => [Abstract!Next]_Abstract!vars
<1> SUFFICES ASSUME IInv, [Next]_vars PROVE [Abstract!Next]_Abstract!vars
  OBVIOUS
<1> USE DEF Abstract!vars
<1>o. pc = "read" => Conn \in Conns /\ phase[Conn] = "open"
  BY DEF IInv, TypeOK, SockTypeOK, BatchIsOpen, ConnInv, OpenFds, Conn
<1>1. ASSUME NEW c \in Conns, Client(c) PROVE Abstract!Next
  <2>1. UNCHANGED pc
    BY <1>1 DEF Client
  <2>2. CASE Connect(c)
    BY <2>1, <2>2 DEF Connect, Abstract!Connect, Abstract!Next
  <2>3. CASE sent[c] < MaxSent[c] /\ Deliver(c, 1)
    BY <2>1, <2>3 DEF Deliver, Alive, Abstract!Send, Abstract!Next
  <2>4. CASE Fin(c)
    BY <2>1, <2>4 DEF Fin, Alive, Abstract!End, Abstract!Next
  <2>5. CASE Abort(c)
    BY <2>1, <2>5 DEF Abort, Alive, Abstract!End, Abstract!Next, IInv, TypeOK, SockTypeOK
  <2> QED BY <1>1, <2>2, <2>3, <2>4, <2>5 DEF Client
<1>2. CASE AcceptEvent
  <2>1. PICK c \in Conns : \E f \in Fds : AcceptConn(c, f)
    BY <1>2 DEF AcceptEvent
  <2>2. Abstract!Accept(c)
    BY <1>2, <2>1 DEF AcceptEvent, AcceptConn, Queued, Abstract!Accept
  <2> QED BY <2>2 DEF Abstract!Next
<1>3. CASE AcceptFails
  BY <1>3 DEF AcceptFails, sockVars, Abstract!Die, Abstract!Next
<1>4. CASE ReadSome
  <2>1. ReadSize(Conn, BufSize) \in 1..(sent[Conn] - taken[Conn])
    BY <1>4, <1>o, EpollETAssumption
       DEF ReadSome, HasData, ReadSize, Avail, IInv, TypeOK, SockTypeOK
  <2>2. Abstract!Take(Conn)
    BY <1>4, <1>o, <2>1 DEF ReadSome, TakeData, Abstract!Take
  <2> QED BY <1>4, <1>o, <2>2 DEF ReadSome, Abstract!Serve, Abstract!Next
<1>5. CASE ReadError
  <2>1. Abstract!Learn(Conn)
    BY <1>5, <1>o DEF ReadError, HasError, TakeError, Abstract!Learn, IInv, TypeOK, SockTypeOK
  <2> QED BY <1>5, <1>o, <2>1 DEF ReadError, Abstract!Next
<1>6. CASE ReadEof
  <2>1. taken[Conn] = sent[Conn] /\ end[Conn] # "none"
    BY <1>6, <1>o DEF ReadEof, AtEof, Avail, IInv, TypeOK, SockTypeOK
  <2>2. Abstract!Close(Conn)
    BY <1>6, <1>o, <2>1 DEF ReadEof, CloseFd, Conn, Abstract!Close
  <2> QED BY <1>6, <1>o, <2>2 DEF ReadEof, Abstract!Serve, Abstract!Next
<1>7. CASE EpollWait \/ BatchDone \/ StartEvent \/ ReadAgain \/ UNCHANGED vars
  BY <1>7 DEF EpollWait, BatchDone, StartEvent, ReadAgain, vars, sockVars
<1> QED BY <1>1, <1>2, <1>3, <1>4, <1>5, <1>6, <1>7 DEF Next, Server

(* The edge-triggered reader takes only what was sent, in order, and       *)
(* closes only what has ended and been read to the end.                    *)
THEOREM ImplementsSafety == Spec => Abstract!Spec
<1>1. Init => Abstract!Init
  BY DEF Init, SockInit, Abstract!Init
<1> QED BY <1>1, StepRefines, Invariance, PTL DEF Spec, Abstract!Spec
=============================================================================
