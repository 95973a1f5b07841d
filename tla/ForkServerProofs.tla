-------------------------- MODULE ForkServerProofs --------------------------
(***************************************************************************)
(* For any number of clients: the types of ForkServer, that no exited      *)
(* child is forgotten, and that a connection stays with its own child.     *)
(***************************************************************************)
EXTENDS ForkServer, TLAPS

(* SIGCHLD is never unblocked without a handler: a child's exit is never   *)
(* dropped for want of one.                                                *)
SignalInv ==
    /\ blocked \/ handler
    /\ pc = "unblock" => handler

(* main() names a connection only while it deals with it. *)
FdInv ==
    /\ pc \in {"fork", "close"} => fd # NoConn
    /\ pc \notin {"fork", "close"} => fd = NoConn

IInv == TypeOK /\ NoLostReap /\ SignalInv /\ OwnChildOnly /\ FdInv

LEMMA InitInv == Init => IInv
<1> SUFFICES ASSUME Init PROVE IInv
  OBVIOUS
<1>1. TypeOK
  <2>1. /\ n \in [Conns -> Nat] /\ sent \in [Conns -> Nat]
        /\ taken \in [Conns -> Nat] /\ echoed \in [Conns -> Nat]
    BY DEF Init
  <2>2. blocked \in BOOLEAN /\ handler \in BOOLEAN /\ pending \in BOOLEAN /\ inFun \in BOOLEAN
    BY DEF Init
  <2>3. held \in [Conns -> SUBSET (Conns \cup {Parent})]
    BY DEF Init
  <2>4. child \in [Conns -> ChildStates] /\ end \in [Conns -> {"none", "fin", "rst", "broken"}]
    BY DEF Init, ChildStates
  <2> QED BY <2>1, <2>2, <2>3, <2>4 DEF Init, TypeOK
<1>2. NoLostReap /\ SignalInv /\ OwnChildOnly /\ FdInv
  BY DEF Init, NoLostReap, Zombies, SignalInv, OwnChildOnly, FdInv
<1> QED BY <1>1, <1>2 DEF IInv

(* One step per action of the parent, of its signal handler, of a child    *)
(* and of a client.                                                        *)
LEMMA StepInv == IInv /\ [Next]_vars => IInv'
<1> SUFFICES ASSUME IInv, [Next]_vars PROVE IInv'
  OBVIOUS
<1> USE ForkAssumption
    DEF IInv, TypeOK, ChildStates, NoLostReap, Zombies, SignalInv, OwnChildOnly, FdInv,
        Parent, parentVars, connVars
<1>1. CASE UNCHANGED vars
  BY <1>1 DEF vars
<1>2. ASSUME NEW c \in Conns, Connect(c) PROVE IInv'
  BY <1>2 DEF Connect
<1>3. ASSUME NEW c \in Conns, Send(c) PROVE IInv'
  BY <1>3 DEF Send
<1>4. ASSUME NEW c \in Conns, HangUp(c) PROVE IInv'
  BY <1>4 DEF HangUp
<1>5. CASE Accept
  BY <1>5 DEF Accept
<1>6. CASE Fork
  BY <1>6 DEF Fork
<1>7. CASE ForkFails
  BY <1>7 DEF ForkFails
<1>8. CASE ParentClose
  BY <1>8 DEF ParentClose
<1>9. CASE Sigaction
  BY <1>9 DEF Sigaction
<1>10. CASE Unblock
  <2>1. pending' \in BOOLEAN
    BY <1>10, Zenon DEF Unblock
  <2>2. NoLostReap'
    BY <1>10 DEF Unblock
  <2> QED BY <1>10, <2>1, <2>2 DEF Unblock
<1>11. CASE EnterFun
  BY <1>11 DEF EnterFun
<1>19. CASE Again
  BY <1>19 DEF Again
<1>12. CASE Reap
  BY <1>12 DEF Reap
<1>13. CASE ReapNothing
  BY <1>13 DEF ReapNothing, vars
<1>14. CASE LeaveFun
  BY <1>14 DEF LeaveFun
<1>15. ASSUME NEW c \in Conns, ChildRead(c) PROVE IInv'
  BY <1>15 DEF ChildRead, Avail
<1>16. ASSUME NEW c \in Conns, ChildLeaves(c) PROVE IInv'
  BY <1>16 DEF ChildLeaves, Exit
<1>17. ASSUME NEW c \in Conns, ChildWrite(c) PROVE IInv'
  BY <1>17 DEF ChildWrite
<1>18. ASSUME NEW c \in Conns, ChildSigpipe(c) PROVE IInv'
  BY <1>18 DEF ChildSigpipe, Exit
<1> HIDE DEF IInv
<1> QED
  BY <1>1, <1>2, <1>3, <1>4, <1>5, <1>6, <1>7, <1>8, <1>9, <1>10, <1>11, <1>12, <1>13,
     <1>14, <1>15, <1>16, <1>17, <1>18, <1>19 DEF Next, Main, Fun, Child, Client

THEOREM Invariance == Spec => []IInv
<1>1. Init => IInv
  BY InitInv
<1>2. IInv /\ [Next]_vars => IInv'
  BY StepInv
<1> QED BY <1>1, <1>2, PTL DEF Spec

(* The types of ForkServer. *)
THEOREM TypeCorrect == Spec => []TypeOK
BY Invariance, PTL DEF IInv

(* Blocking SIGCHLD until Fun is installed (process_tcp_server.c:37-40,    *)
(* 115-118) and looping in Fun (19-31) lose no child.                      *)
THEOREM NoChildIsForgotten == Spec => []NoLostReap
BY Invariance, PTL DEF IInv

(* close(fd) in the parent (process_tcp_server.c:107) keeps every          *)
(* connection with its own child.                                          *)
THEOREM ConnectionsArePrivate == Spec => []OwnChildOnly
BY Invariance, PTL DEF IInv

-----------------------------------------------------------------------------
(* A client has no child before fork(), and fork() is called for it once.  *)
NewInv ==
    /\ \A c \in queue : child[c] = "none" /\ c # fd
    /\ pc = "fork" => child[fd] = "none"

(* What a child has taken and not echoed is what its last read() returned. *)
EchoInv ==
    \A c \in Conns :
        /\ child[c] = "none" => taken[c] = 0 /\ echoed[c] = 0
        /\ end[c] \in {"none", "fin"} =>
             /\ child[c] = "read" => taken[c] = echoed[c]
             /\ child[c] = "write" => taken[c] = echoed[c] + n[c]

LEMMA EchoStep == IInv /\ NewInv /\ EchoInv /\ [Next]_vars => NewInv' /\ EchoInv'
<1> SUFFICES ASSUME IInv, NewInv, EchoInv, [Next]_vars PROVE NewInv' /\ EchoInv'
  OBVIOUS
<1> USE ForkAssumption DEF NewInv, EchoInv, parentVars, connVars
<1>0. /\ child \in [Conns -> ChildStates] /\ end \in [Conns -> {"none", "fin", "rst", "broken"}]
      /\ n \in [Conns -> Nat] /\ taken \in [Conns -> Nat] /\ echoed \in [Conns -> Nat]
      /\ sent \in [Conns -> Nat] /\ queue \subseteq Conns /\ fd \in Conns \cup {NoConn}
      /\ pc \in {"fork", "close"} => fd \in Conns
      /\ pc \notin {"fork", "close"} => fd = NoConn
  BY DEF IInv, TypeOK, FdInv
<1> USE <1>0
<1>1. CASE UNCHANGED vars
  BY <1>1 DEF vars
<1>2. ASSUME NEW c \in Conns, Connect(c) PROVE NewInv' /\ EchoInv'
  BY <1>2 DEF Connect, Fresh
<1>3. ASSUME NEW c \in Conns, Send(c) PROVE NewInv' /\ EchoInv'
  BY <1>3 DEF Send
<1>4. ASSUME NEW c \in Conns, HangUp(c) PROVE NewInv' /\ EchoInv'
  BY <1>4 DEF HangUp
<1>5. CASE Accept
  BY <1>5 DEF Accept
<1>6. CASE Fork
  BY <1>6 DEF Fork
<1>7. CASE ForkFails
  BY <1>7 DEF ForkFails
<1>8. CASE ParentClose \/ Sigaction \/ Unblock \/ Again
  BY <1>8 DEF ParentClose, Sigaction, Unblock, Again
<1>9. CASE EnterFun \/ ReapNothing \/ LeaveFun
  BY <1>9 DEF EnterFun, ReapNothing, LeaveFun, vars
<1>10. CASE Reap
  BY <1>10 DEF Reap, Zombies
<1>11. ASSUME NEW c \in Conns, ChildRead(c) PROVE NewInv' /\ EchoInv'
  <2>1. PICK k \in 1..Avail(c) : taken' = [taken EXCEPT ![c] = @ + k] /\ n' = [n EXCEPT ![c] = k]
    BY <1>11 DEF ChildRead
  <2>2. k \in Nat
    OBVIOUS
  <2> QED BY <1>11, <2>1, <2>2 DEF ChildRead
<1>12. ASSUME NEW c \in Conns, ChildLeaves(c) \/ ChildSigpipe(c) PROVE NewInv' /\ EchoInv'
  BY <1>12 DEF ChildLeaves, ChildSigpipe, Exit
<1>13. ASSUME NEW c \in Conns, ChildWrite(c) PROVE NewInv' /\ EchoInv'
  BY <1>13 DEF ChildWrite
<1> HIDE DEF NewInv, EchoInv
<1> QED
  BY <1>1, <1>2, <1>3, <1>4, <1>5, <1>6, <1>7, <1>8, <1>9, <1>10, <1>11, <1>12, <1>13
     DEF Next, Main, Fun, Child, Client

(* A child echoes all it reads, however read() cuts the stream, unless the *)
(* client breaks off (process_tcp_server.c:81-103).                        *)
THEOREM AllIsEchoed == Spec => []EchoComplete
<1>1. Init => NewInv /\ EchoInv
  BY DEF Init, NewInv, EchoInv
<1>2. IInv /\ NewInv /\ EchoInv /\ [Next]_vars => NewInv' /\ EchoInv'
  BY EchoStep
<1>3. EchoInv => EchoComplete
  BY DEF EchoInv, EchoComplete
<1> QED BY <1>1, <1>2, <1>3, Invariance, PTL DEF Spec
=============================================================================
