--------------------------- MODULE EpollLTProofs ---------------------------
(***************************************************************************)
(* For every number of clients and descriptors and any batch size: the     *)
(* level-triggered server never waits in read(), leaks nothing but the     *)
(* connections that were reset, and implements StreamService.              *)
(***************************************************************************)
EXTENDS EpollLT, TLAPS

(* What is still in the batch is watched and has something to read; the    *)
(* event at hand is not in it any more.                                    *)
BatchInv == \A f \in evs \ {LFd} : f \in tree /\ Readable(fdtab[f])

PlaceInv ==
    /\ pc \in {"read", "write"} => cur \in tree /\ cur \notin evs
    /\ pc = "read" => Readable(Conn)

(* A descriptor stands for an open connection, and for one of its own.     *)
ConnInv ==
    /\ tree \subseteq OpenFds
    /\ \A f \in OpenFds : phase[fdtab[f]] = "open"
    /\ \A f, g \in OpenFds : fdtab[f] = fdtab[g] => f = g

IInv == TypeOK /\ BatchInv /\ PlaceInv /\ ConnInv /\ LeaksOnlyResets

-----------------------------------------------------------------------------
LEMMA Constants ==
    /\ NoConn \notin Conns /\ LFd \notin Fds /\ BufSize \in Nat /\ BufSize > 0
BY SocketsAssumption, EpollLTAssumption

(* The invariant holds initially. *)
LEMMA InitInv == Init => IInv
BY Constants
   DEF Init, EchoInit, SockInit, IInv, TypeOK, EchoTypeOK, SockTypeOK, Phases, Ends,
       BatchInv, PlaceInv, ConnInv, LeaksOnlyResets, OpenFds

(* Descriptors name connections. *)
LEMMA OpenType == IInv => \A f \in OpenFds : f \in Fds /\ fdtab[f] \in Conns
BY DEF IInv, TypeOK, EchoTypeOK, SockTypeOK, OpenFds

(* Clients leave the descriptors alone, take nothing away that is waiting  *)
(* to be read, and do not undo a reset.                                    *)
LEMMA ClientStep == ASSUME IInv, NEW c \in Conns, Client(c) PROVE IInv'
<1> USE DEF IInv, TypeOK, EchoTypeOK
<1>1. UNCHANGED <<taken, fdtab, pc, evs, cur, tree>> /\ EchoTypeOK'
  BY DEF Client, ClientActs, Consume, Connect, Deliver, Fin, Abort, sockVars,
         SockTypeOK, Phases, Ends, Alive
<1>2. OpenFds' = OpenFds
  BY <1>1 DEF OpenFds
<1>3. \A d \in Conns : /\ phase[d] = "open" => phase'[d] = "open"
                       /\ end[d] = "broken" => end'[d] = "broken"
  BY DEF Client, ClientActs, Consume, Connect, Deliver, Fin, Abort, sockVars, SockTypeOK
<1>4. \A d \in Conns : Readable(d) => Readable(d)'
  BY DEF Client, ClientActs, Consume, Connect, Deliver, Fin, Abort, sockVars, SockTypeOK,
         Readable, Avail
<1>5. ConnInv' /\ LeaksOnlyResets'
  BY <1>1, <1>2, <1>3, OpenType DEF ConnInv, LeaksOnlyResets
<1>6. BatchInv'
  BY <1>1, <1>4, OpenType DEF BatchInv, ConnInv
<1>7. PlaceInv'
  BY <1>1, <1>4, OpenType DEF PlaceInv, ConnInv, Conn
<1> QED BY <1>1, <1>5, <1>6, <1>7

(* The server's steps, one by one. *)
LEMMA ServerStep == ASSUME IInv, Server PROVE IInv'
<1> USE Constants DEF IInv, TypeOK, EchoTypeOK
<1>s. UNCHANGED <<sockVars, tree>> =>
        SockTypeOK' /\ OpenFds' = OpenFds /\ ConnInv' /\ LeaksOnlyResets'
  BY DEF SockTypeOK, sockVars, OpenFds, ConnInv, LeaksOnlyResets
<1>r. UNCHANGED sockVars => \A c : Readable(c)' = Readable(c)
  BY DEF sockVars, Readable, Avail
<1>o. \A f \in OpenFds : f \in Fds /\ f # LFd /\ fdtab[f] \in Conns
  BY OpenType
<1>1. CASE EpollWait
  <2>1. PICK S \in SUBSET Reportable : evs' = S
    BY <1>1 DEF EpollWait
  <2>2. pc' = "next" /\ UNCHANGED <<echoVars, cur, tree>>
    BY <1>1 DEF EpollWait
  <2>3. UNCHANGED sockVars /\ UNCHANGED out
    BY <2>2 DEF echoVars
  <2>4. \A f \in S \ {LFd} : f \in tree /\ Readable(fdtab[f])
    BY <2>1 DEF Reportable
  <2>5. S \subseteq Fds \cup {LFd}
    BY <2>4
  <2>6. BatchInv'
    BY <1>r, <2>1, <2>2, <2>3, <2>4 DEF BatchInv, sockVars
  <2> QED BY <1>s, <2>1, <2>2, <2>3, <2>5, <2>6 DEF PlaceInv
<1>2. CASE BatchDone
  <2>1. pc' = "wait" /\ UNCHANGED <<echoVars, evs, cur, tree>>
    BY <1>2 DEF BatchDone
  <2>2. UNCHANGED sockVars /\ UNCHANGED out
    BY <2>1 DEF echoVars
  <2>3. BatchInv'
    BY <1>r, <2>1, <2>2 DEF BatchInv, sockVars
  <2> QED BY <1>s, <2>1, <2>2, <2>3 DEF PlaceInv
<1>3. CASE AcceptEvent
  <2>1. PICK c \in Conns : \E f \in Fds : AcceptConn(c, f) /\ tree' = tree \cup {f}
    BY <1>3 DEF AcceptEvent
  <2>2. PICK f \in Fds : AcceptConn(c, f) /\ tree' = tree \cup {f}
    BY <2>1
  <2>3. pc = "next" /\ evs' = evs \ {LFd} /\ UNCHANGED <<out, pc, cur>>
    BY <1>3 DEF AcceptEvent
  <2>4. /\ phase' = [phase EXCEPT ![c] = "open"] /\ fdtab' = [fdtab EXCEPT ![f] = c]
        /\ phase[c] = "queued" /\ f \notin OpenFds /\ UNCHANGED <<sent, taken, end>>
    BY <2>2 DEF AcceptConn, Lowest, Free, Queued
  <2>5. SockTypeOK'
    BY <2>4 DEF SockTypeOK, Phases
  <2>6. /\ OpenFds' = OpenFds \cup {f}
        /\ fdtab'[f] = c /\ \A g \in OpenFds : fdtab'[g] = fdtab[g]
    BY <2>4 DEF OpenFds, SockTypeOK
  <2>7. \A g \in OpenFds : phase[fdtab[g]] = "open" /\ fdtab[g] # c
    BY <2>4 DEF ConnInv
  <2>8. ConnInv'
    <3>1. \A g \in OpenFds' : phase'[fdtab'[g]] = "open"
      BY <1>o, <2>4, <2>6, <2>7 DEF SockTypeOK
    <3>2. \A g, h \in OpenFds' : fdtab'[g] = fdtab'[h] => g = h
      BY <2>6, <2>7 DEF ConnInv
    <3> QED BY <2>2, <2>6, <3>1, <3>2 DEF ConnInv
  <2>9. LeaksOnlyResets'
    BY <2>2, <2>4, <2>6 DEF LeaksOnlyResets
  <2>10. BatchInv'
    <3>1. \A g \in evs \ {LFd} : g \in OpenFds /\ g \in tree /\ Readable(fdtab[g])
      BY DEF BatchInv, ConnInv
    <3>2. \A g \in OpenFds : Readable(fdtab[g]) => Readable(fdtab[g])'
      BY <2>4, <2>6 DEF Readable, Avail
    <3> QED BY <2>2, <2>3, <3>1, <3>2 DEF BatchInv
  <2> QED BY <2>2, <2>3, <2>5, <2>8, <2>9, <2>10 DEF PlaceInv
<1>4. CASE AcceptFails \/ WriteSigpipe
  <2>1. pc' = "dead" /\ UNCHANGED <<echoVars, evs, cur, tree>>
    BY <1>4 DEF AcceptFails, WriteSigpipe
  <2>2. UNCHANGED sockVars /\ UNCHANGED out
    BY <2>1 DEF echoVars
  <2>3. BatchInv'
    BY <1>r, <2>1, <2>2 DEF BatchInv, sockVars
  <2> QED BY <1>s, <2>1, <2>2, <2>3 DEF PlaceInv
<1>5. CASE StartEvent
  <2>1. PICK f \in evs \ {LFd} : cur' = f /\ evs' = evs \ {f}
    BY <1>5 DEF StartEvent
  <2>2. pc' = "read" /\ UNCHANGED <<echoVars, tree>>
    BY <1>5 DEF StartEvent
  <2>3. UNCHANGED sockVars /\ UNCHANGED out
    BY <2>2 DEF echoVars
  <2>4. BatchInv'
    BY <1>r, <2>1, <2>2, <2>3 DEF BatchInv, sockVars
  <2>5. PlaceInv'
    BY <1>r, <2>1, <2>2, <2>3 DEF PlaceInv, BatchInv, Conn, sockVars
  <2> QED BY <1>s, <2>1, <2>2, <2>3, <2>4, <2>5
<1>h. pc \in {"read", "write"} =>
        /\ cur \in tree /\ cur \in OpenFds /\ cur \in Fds /\ cur \notin evs /\ Conn \in Conns
        /\ \A f \in OpenFds \ {cur} : fdtab[f] # Conn
        /\ \A f \in evs \ {LFd} : f \in OpenFds \ {cur} /\ f \in tree /\ Readable(fdtab[f])
  BY <1>o DEF PlaceInv, ConnInv, BatchInv, Conn
<1>6. CASE ReadData
  <2>1. /\ pc = "read" /\ HasData(Conn) /\ TakeData(Conn, ReadSize(Conn, BufSize))
        /\ pc' = "write" /\ UNCHANGED <<out, evs, cur, tree>>
    BY <1>6 DEF ReadData
  <2>2. ReadSize(Conn, BufSize) \in Nat
    BY <1>h, <2>1 DEF ReadSize, HasData, Avail, SockTypeOK
  <2>3. /\ taken' = [taken EXCEPT ![Conn] = @ + ReadSize(Conn, BufSize)]
        /\ UNCHANGED <<phase, sent, end, fdtab>>
    BY <2>1 DEF TakeData
  <2>4. SockTypeOK' /\ OpenFds' = OpenFds /\ ConnInv' /\ LeaksOnlyResets'
    BY <1>h, <2>1, <2>2, <2>3 DEF SockTypeOK, OpenFds, ConnInv, LeaksOnlyResets
  <2>5. \A f \in evs \ {LFd} : f \in tree /\ Readable(fdtab[f])'
    BY <1>h, <1>o, <2>1, <2>3 DEF Readable, Avail, SockTypeOK
  <2> QED BY <1>h, <2>1, <2>3, <2>4, <2>5 DEF BatchInv, PlaceInv
<1>7. CASE ReadError
  <2>1. /\ pc = "read" /\ HasError(Conn) /\ TakeError(Conn) /\ tree' = tree \ {cur}
        /\ pc' = "next" /\ UNCHANGED <<out, evs, cur>>
    BY <1>7 DEF ReadError
  <2>2. /\ end' = [end EXCEPT ![Conn] = "broken"] /\ UNCHANGED <<phase, sent, taken, fdtab>>
    BY <1>h, <2>1 DEF TakeError, HasError, SockTypeOK
  <2>3. SockTypeOK' /\ OpenFds' = OpenFds /\ ConnInv'
    BY <1>h, <2>1, <2>2 DEF SockTypeOK, Ends, OpenFds, ConnInv
  <2>4. LeaksOnlyResets'
    BY <1>h, <1>o, <2>1, <2>2, <2>3 DEF LeaksOnlyResets, Conn, SockTypeOK
  <2>5. \A f \in evs \ {LFd} : f \in tree \ {cur} /\ Readable(fdtab[f])'
    BY <1>h, <1>o, <2>1, <2>2 DEF Readable, Avail, SockTypeOK
  <2> QED BY <2>1, <2>2, <2>3, <2>4, <2>5 DEF BatchInv, PlaceInv
<1>8. CASE ReadEof
  <2>1. /\ pc = "read" /\ CloseFd(cur) /\ tree' = tree \ {cur} /\ evs' = {}
        /\ pc' = "next" /\ UNCHANGED <<out, cur>>
    BY <1>8 DEF ReadEof
  <2>2. /\ phase' = [phase EXCEPT ![Conn] = "closed"] /\ fdtab' = [fdtab EXCEPT ![cur] = NoConn]
        /\ UNCHANGED <<sent, taken, end>>
    BY <2>1 DEF CloseFd, Conn
  <2>3. SockTypeOK'
    BY <1>h, <2>1, <2>2 DEF SockTypeOK, Phases
  <2>4. OpenFds' = OpenFds \ {cur} /\ \A f \in OpenFds' : fdtab'[f] = fdtab[f]
    BY <1>h, <2>1, <2>2 DEF OpenFds, SockTypeOK
  <2>5. ConnInv'
    BY <1>h, <1>o, <2>1, <2>2, <2>4 DEF ConnInv, SockTypeOK
  <2>6. LeaksOnlyResets'
    BY <2>1, <2>2, <2>4 DEF LeaksOnlyResets
  <2> QED BY <2>1, <2>3, <2>5, <2>6 DEF BatchInv, PlaceInv
<1>9. CASE Write
  <2>1. /\ pc = "write" /\ pc' = "next" /\ UNCHANGED <<evs, cur, tree>>
        /\ WriteOk(Conn) \/ WriteReset(Conn)
    BY <1>9 DEF Write
  <2>2. /\ UNCHANGED <<phase, sent, taken, fdtab>>
        /\ end' \in [Conns -> Ends] /\ out' \in [Conns -> Nat]
        /\ \A d \in Conns : /\ end[d] # "none" => end'[d] # "none"
                            /\ end[d] = "broken" => end'[d] = "broken"
    BY <1>h, <2>1 DEF WriteOk, WriteReset, TakeError, SockTypeOK, Ends, sockVars
  <2>3. SockTypeOK' /\ OpenFds' = OpenFds /\ ConnInv' /\ LeaksOnlyResets'
    BY <1>o, <2>1, <2>2 DEF SockTypeOK, OpenFds, ConnInv, LeaksOnlyResets
  <2>4. BatchInv'
    BY <1>h, <1>o, <2>1, <2>2 DEF BatchInv, Readable, Avail
  <2> QED BY <2>1, <2>2, <2>3, <2>4 DEF PlaceInv
<1> QED BY <1>1, <1>2, <1>3, <1>4, <1>5, <1>6, <1>7, <1>8, <1>9 DEF Server

LEMMA NextInv == IInv /\ [Next]_vars => IInv'
<1> SUFFICES ASSUME IInv, [Next]_vars PROVE IInv'
  OBVIOUS
<1>1. CASE Server
  BY <1>1, ServerStep
<1>2. ASSUME NEW c \in Conns, Client(c) PROVE IInv'
  BY <1>2, ClientStep
<1>3. CASE UNCHANGED vars
  BY <1>3 DEF IInv, vars, echoVars, sockVars, TypeOK, EchoTypeOK, SockTypeOK, BatchInv,
              PlaceInv, ConnInv, LeaksOnlyResets, OpenFds, Conn, Readable, Avail
<1> QED BY <1>1, <1>2, <1>3 DEF Next

LEMMA Invariance == Spec => []IInv
BY InitInv, NextInv, PTL DEF Spec

-----------------------------------------------------------------------------
(* Every reachable state of the level-triggered server is well typed. *)
THEOREM TypeCorrect == Spec => []TypeOK
<1>1. IInv => TypeOK
  BY DEF IInv
<1> QED BY <1>1, Invariance, PTL

(* The blocking read() of demo02.c:70 never waits, whatever was closed,    *)
(* accepted or abandoned since epoll_wait().                               *)
THEOREM NeverWaitsInRead == Spec => []ReadNeverBlocks
<1>1. IInv => ReadNeverBlocks
  BY DEF IInv, PlaceInv, ConnInv, OpenFds, Conn, ReadNeverBlocks
<1> QED BY <1>1, Invariance, PTL

(* Only connections that were reset stay open unwatched (demo02.c:71-75).  *)
THEOREM OnlyResetsLeak == Spec => []LeaksOnlyResets
<1>1. IInv => LeaksOnlyResets
  BY DEF IInv
<1> QED BY <1>1, Invariance, PTL

-----------------------------------------------------------------------------
(* Every step is one of StreamService, or changes nothing it shows. *)
LEMMA StepRefines == IInv /\ [Next]_vars => [Abstract!Next]_Abstract!vars
<1> SUFFICES ASSUME IInv, [Next]_vars PROVE [Abstract!Next]_Abstract!vars
  OBVIOUS
<1> USE DEF Abstract!vars
<1>t. SockTypeOK
  BY DEF IInv, TypeOK, EchoTypeOK
<1>h. pc \in {"read", "write"} => Conn \in Conns /\ phase[Conn] = "open"
  BY OpenType DEF IInv, PlaceInv, ConnInv, Conn
<1>1. ASSUME NEW c \in Conns, Client(c) PROVE [Abstract!Next]_Abstract!vars
  <2>1. UNCHANGED pc
    BY <1>1 DEF Client
  <2>2. CASE Connect(c)
    BY <2>1, <2>2 DEF Connect, Abstract!Connect, Abstract!Next
  <2>3. CASE sent[c] < MaxSent[c] /\ Deliver(c, 1)
    BY <2>1, <2>3 DEF Deliver, Alive, Abstract!Send, Abstract!Next
  <2>4. CASE Fin(c)
    BY <2>1, <2>4 DEF Fin, Alive, Abstract!End, Abstract!Next
  <2>5. CASE Abort(c)
    BY <1>t, <2>1, <2>5 DEF Abort, Alive, Abstract!End, Abstract!Next, SockTypeOK
  <2>6. CASE Consume(c)
    BY <2>1, <2>6 DEF Consume, sockVars
  <2> QED BY <1>1, <2>2, <2>3, <2>4, <2>5, <2>6 DEF Client, ClientActs
<1>2. CASE AcceptEvent
  <2>1. PICK c \in Conns : \E f \in Fds : AcceptConn(c, f)
    BY <1>2 DEF AcceptEvent
  <2>2. Abstract!Accept(c)
    BY <1>2, <2>1 DEF AcceptEvent, AcceptConn, Queued, Abstract!Accept
  <2> QED BY <2>2 DEF Abstract!Next
<1>3. CASE AcceptFails \/ WriteSigpipe
  BY <1>3 DEF AcceptFails, WriteSigpipe, echoVars, sockVars, Abstract!Die, Abstract!Next
<1>4. CASE ReadData
  <2>1. /\ pc = "read" /\ HasData(Conn) /\ TakeData(Conn, ReadSize(Conn, BufSize))
        /\ pc' = "write"
    BY <1>4 DEF ReadData
  <2>2. ReadSize(Conn, BufSize) \in 1..(sent[Conn] - taken[Conn])
    BY <1>t, <1>h, <2>1, Constants DEF HasData, ReadSize, Avail, SockTypeOK
  <2>3. Abstract!Take(Conn)
    BY <1>h, <2>1, <2>2 DEF TakeData, Abstract!Take
  <2> QED BY <1>h, <2>1, <2>3 DEF Abstract!Serve, Abstract!Next
<1>5. CASE ReadError
  <2>1. Abstract!Learn(Conn)
    BY <1>t, <1>h, <1>5 DEF ReadError, HasError, TakeError, Abstract!Learn, SockTypeOK
  <2> QED BY <1>h, <1>5, <2>1 DEF ReadError, Abstract!Next
<1>6. CASE ReadEof
  <2>1. pc = "read" /\ AtEof(Conn) /\ CloseFd(cur) /\ pc' = "next"
    BY <1>6 DEF ReadEof
  <2>2. taken[Conn] = sent[Conn] /\ end[Conn] # "none"
    BY <1>t, <1>h, <2>1 DEF AtEof, Avail, SockTypeOK
  <2>3. Abstract!Close(Conn)
    BY <1>h, <2>1, <2>2 DEF CloseFd, Conn, Abstract!Close
  <2> QED BY <1>h, <2>1, <2>3 DEF Abstract!Serve, Abstract!Next
<1>7. CASE Write
  <2>1. pc = "write" /\ pc' = "next" /\ (WriteOk(Conn) \/ WriteReset(Conn))
    BY <1>7 DEF Write
  <2>2. CASE WriteOk(Conn)
    BY <2>1, <2>2 DEF WriteOk, sockVars
  <2>3. CASE WriteReset(Conn)
    <3>1. Abstract!Learn(Conn)
      BY <1>t, <1>h, <2>1, <2>3 DEF WriteReset, TakeError, Abstract!Learn, SockTypeOK
    <3> QED BY <1>h, <2>1, <3>1 DEF Abstract!Next
  <2> QED BY <2>1, <2>2, <2>3
<1>8. CASE EpollWait \/ BatchDone \/ StartEvent
  BY <1>8 DEF EpollWait, BatchDone, StartEvent, echoVars, sockVars
<1>9. CASE UNCHANGED vars
  BY <1>9 DEF vars, echoVars, sockVars
<1> QED BY <1>1, <1>2, <1>3, <1>4, <1>5, <1>6, <1>7, <1>8, <1>9 DEF Next, Server

(* The level-triggered server takes only what was sent, in order, and      *)
(* closes only what has ended and been read to the end.                    *)
THEOREM KeepsThePromise == Spec => Implements
<1>1. Init => Abstract!Init
  BY DEF Init, EchoInit, SockInit, Abstract!Init
<1> QED BY <1>1, StepRefines, Invariance, PTL DEF Spec, Implements, Abstract!Spec
=============================================================================
