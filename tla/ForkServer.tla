----------------------------- MODULE ForkServer -----------------------------
(***************************************************************************)
(* TcpServerDemo/process_tcp_server.c: a process per client.  The parent   *)
(* accepts, forks and closes its copy of the descriptor; the child echoes  *)
(* until the client goes away; SIGCHLD makes the parent reap.  The child   *)
(* that serves connection c is named c.                                    *)
(*                                                                         *)
(* Signals are the kernel's: SIGCHLD is one pending bit, a blocked signal  *)
(* stays pending, an unblocked one with the default disposition is dropped *)
(* (SIGCHLD is ignored by default), and it is blocked while its handler    *)
(* runs.                                                                   *)
(***************************************************************************)
EXTENDS Integers, FiniteSets

CONSTANTS
    Conns,      \* clients
    NoConn,
    MaxSent,    \* bound: how many units each client sends
    ForkMayFail \* whether the system may run out of processes

ASSUME ForkAssumption ==
    /\ NoConn \notin Conns
    /\ MaxSent \in [Conns -> Nat]
    /\ ForkMayFail \in BOOLEAN

VARIABLES
    pc,         \* the parent, in main()
    fd,         \* the connection main() is busy with
    blocked,    \* SIGCHLD is in the parent's signal mask
    handler,    \* Fun is installed for SIGCHLD
    pending,    \* SIGCHLD is pending for the parent
    inFun,      \* the parent is in the signal handler
    child,      \* child[c]: where the child of c is
    n,          \* n[c]: what the last read() of child c returned
    held,       \* held[c]: processes that have connection c open
    queue,      \* connections waiting for accept()
    sent,       \* sent[c]: units that reached the server
    taken,      \* taken[c]: units the child has read
    echoed,     \* echoed[c]: units written back
    end         \* end[c]: none, fin, rst or broken, as in Sockets

parentVars == <<pc, fd, blocked, handler, inFun>>
connVars == <<sent, taken, echoed, end>>
vars == <<parentVars, pending, child, n, held, queue, connVars>>

Parent == NoConn        \* the name of the parent among the processes

ChildStates == {"none", "read", "write", "zombie", "reaped"}
Running(c) == child[c] \in {"read", "write"}
Zombies == {c \in Conns : child[c] = "zombie"}

(* Slip: SIGCHLD not blocked until there is a handler. *)
InitUnblocked ==
    /\ pc = "accept" /\ fd = NoConn
    /\ blocked = FALSE /\ handler = FALSE /\ pending = FALSE /\ inFun = FALSE
    /\ child = [c \in Conns |-> "none"]
    /\ n = [c \in Conns |-> 0]
    /\ held = [c \in Conns |-> {}]
    /\ queue = {}
    /\ sent = [c \in Conns |-> 0]
    /\ taken = [c \in Conns |-> 0]
    /\ echoed = [c \in Conns |-> 0]
    /\ end = [c \in Conns |-> "none"]

(* SIGCHLD is blocked first, then the socket is made. *)
Init ==
    /\ pc = "accept" /\ fd = NoConn
    /\ blocked = TRUE /\ handler = FALSE /\ pending = FALSE /\ inFun = FALSE
    /\ child = [c \in Conns |-> "none"]
    /\ n = [c \in Conns |-> 0]
    /\ held = [c \in Conns |-> {}]
    /\ queue = {}
    /\ sent = [c \in Conns |-> 0]
    /\ taken = [c \in Conns |-> 0]
    /\ echoed = [c \in Conns |-> 0]
    /\ end = [c \in Conns |-> "none"]

-----------------------------------------------------------------------------
(* Clients.                                                                *)

Connected(c) == c \in queue \/ held[c] # {}

Fresh(c) == ~Connected(c) /\ child[c] = "none" /\ end[c] = "none" /\ fd # c

Connect(c) ==
    /\ Fresh(c)
    /\ queue' = queue \cup {c}
    /\ UNCHANGED <<parentVars, pending, child, n, held, connVars>>

(* All a client has to say; a read() may find any part of it. *)
Send(c) ==
    /\ Connected(c) /\ end[c] = "none" /\ sent[c] = 0
    /\ sent' = [sent EXCEPT ![c] = MaxSent[c]]
    /\ UNCHANGED <<parentVars, pending, child, n, held, queue, taken, echoed, end>>

HangUp(c) ==
    /\ Connected(c)
    /\ \/ end[c] = "none" /\ end' = [end EXCEPT ![c] = "fin"]
       \/ end[c] = "none" /\ end' = [end EXCEPT ![c] = "rst"]
       \/ end[c] = "fin"  /\ end' = [end EXCEPT ![c] = "broken"]
    /\ UNCHANGED <<parentVars, pending, child, n, held, queue, sent, taken, echoed>>

Client(c) == Connect(c) \/ Send(c) \/ HangUp(c)

-----------------------------------------------------------------------------
(* The parent in main().                                                   *)

Accept ==
    /\ pc = "accept" /\ ~inFun
    /\ \E c \in queue :
         /\ queue' = queue \ {c}
         /\ fd' = c
         /\ held' = [held EXCEPT ![c] = {Parent}]
    /\ pc' = "fork"
    /\ UNCHANGED <<blocked, handler, inFun, pending, child, n, connVars>>

(* Slip: accept() < 0 is an error, whatever errno says: perr_exit(). *)
AgainExits ==
    /\ pc = "again" /\ ~inFun
    /\ pc' = "failed"
    /\ UNCHANGED <<fd, blocked, handler, inFun, pending, child, n, held, queue, connVars>>

(* accept() failed with EINTR: Fun has interrupted it (no SA_RESTART).  *)
(* Accept() calls it again.                                             *)
Again ==
    /\ pc = "again" /\ ~inFun
    /\ pc' = "accept"
    /\ UNCHANGED <<fd, blocked, handler, inFun, pending, child, n, held, queue, connVars>>

(* The child starts with close(sockFd), which only it could notice. *)
Fork ==
    /\ pc = "fork" /\ ~inFun
    /\ child' = [child EXCEPT ![fd] = "read"]
    /\ held' = [c \in Conns |->
                  IF Parent \in held[c] THEN held[c] \cup {fd} ELSE held[c]]
    /\ pc' = "close"
    /\ UNCHANGED <<fd, blocked, handler, inFun, pending, n, queue, connVars>>

(* fork() < 0: the parent leaves; the children stay, init reaps them. *)
ForkFails ==
    /\ pc = "fork" /\ ~inFun /\ ForkMayFail
    /\ pc' = "exited"
    /\ held' = [c \in Conns |-> held[c] \ {Parent}]
    /\ fd' = NoConn
    /\ child' = [c \in Conns |-> IF child[c] = "zombie" THEN "reaped" ELSE child[c]]
    /\ UNCHANGED <<blocked, handler, inFun, pending, n, queue, connVars>>

(* Slip: the parent keeps its copy of the descriptor. *)
ParentKeeps ==
    /\ pc = "close" /\ ~inFun
    /\ fd' = NoConn
    /\ pc' = "sigaction"
    /\ UNCHANGED <<blocked, handler, inFun, pending, child, n, held, queue, connVars>>

ParentClose ==
    /\ pc = "close" /\ ~inFun
    /\ held' = [held EXCEPT ![fd] = @ \ {Parent}]
    /\ fd' = NoConn
    /\ pc' = "sigaction"
    /\ UNCHANGED <<blocked, handler, inFun, pending, child, n, queue, connVars>>

Sigaction ==
    /\ pc = "sigaction" /\ ~inFun
    /\ handler' = TRUE
    /\ pc' = "unblock"
    /\ UNCHANGED <<fd, blocked, inFun, pending, child, n, held, queue, connVars>>

(* A pending SIGCHLD meets whatever disposition there is. *)
Unblock ==
    /\ pc = "unblock" /\ ~inFun
    /\ blocked' = FALSE
    /\ pending' = (pending /\ handler)
    /\ pc' = "accept"
    /\ UNCHANGED <<fd, handler, inFun, child, n, held, queue, connVars>>

-----------------------------------------------------------------------------
(* The signal handler Fun(): it interrupts main() anywhere, and an         *)
(* accept() that is waiting fails for it.                                  *)

EnterFun ==
    /\ pending /\ ~blocked /\ handler /\ ~inFun /\ pc # "exited"
    /\ pending' = FALSE
    /\ inFun' = TRUE
    /\ \/ pc' = pc
       \/ pc = "accept" /\ pc' = "again"
    /\ UNCHANGED <<fd, blocked, handler, child, n, held, queue, connVars>>

(* Slip: one waitpid() per signal. *)
ReapOne ==
    /\ inFun
    /\ \E c \in Zombies : child' = [child EXCEPT ![c] = "reaped"]
    /\ inFun' = FALSE
    /\ UNCHANGED <<pc, fd, blocked, handler, pending, n, held, queue, connVars>>

(* waitpid() > 0 *)
Reap ==
    /\ inFun
    /\ \E c \in Zombies : child' = [child EXCEPT ![c] = "reaped"]
    /\ UNCHANGED <<parentVars, pending, n, held, queue, connVars>>

(* waitpid() = 0: children are running, none has exited.  Around again. *)
ReapNothing ==
    /\ inFun /\ Zombies = {}
    /\ \E c \in Conns : Running(c)
    /\ UNCHANGED vars

(* waitpid() = -1: no child is left. *)
LeaveFun ==
    /\ inFun
    /\ \A c \in Conns : child[c] \in {"none", "reaped"}
    /\ inFun' = FALSE
    /\ UNCHANGED <<pc, fd, blocked, handler, pending, child, n, held, queue, connVars>>

-----------------------------------------------------------------------------
(* A child: echo, until the client is gone.                                *)

Avail(c) == sent[c] - taken[c]

(* exit(), or death by signal: descriptors close, the parent is told. *)
Exit(c) ==
    /\ child' = [child EXCEPT ![c] = IF pc = "exited" THEN "reaped" ELSE "zombie"]
    /\ held' = [d \in Conns |-> held[d] \ {c}]
    /\ pending' = (pending \/ (pc # "exited" /\ (blocked \/ handler)))
    /\ UNCHANGED <<parentVars, n, queue>>

ChildRead(c) ==
    /\ child[c] = "read" /\ Avail(c) > 0
    /\ \E k \in 1..Avail(c) :
         /\ taken' = [taken EXCEPT ![c] = @ + k]
         /\ n' = [n EXCEPT ![c] = k]
    /\ child' = [child EXCEPT ![c] = "write"]
    /\ UNCHANGED <<parentVars, pending, held, queue, sent, echoed, end>>

(* n < 0 (reset) and n = 0 (end of file) both close and exit. *)
ChildLeaves(c) ==
    /\ child[c] = "read" /\ Avail(c) = 0 /\ end[c] # "none"
    /\ Exit(c)
    /\ UNCHANGED connVars

(* Slip: one unit echoed whatever was read. *)
WriteOne(c) ==
    /\ child[c] = "write" /\ end[c] \in {"none", "fin"}
    /\ echoed' = [echoed EXCEPT ![c] = @ + 1]
    /\ child' = [child EXCEPT ![c] = "read"]
    /\ UNCHANGED <<parentVars, pending, n, held, queue, sent, taken, end>>

(* write()'s result is not looked at; a reset client costs the answer. *)
ChildWrite(c) ==
    /\ child[c] = "write"
    /\ \/ /\ end[c] \in {"none", "fin"}
          /\ echoed' = [echoed EXCEPT ![c] = @ + n[c]]
          /\ UNCHANGED end
       \/ /\ end[c] = "rst"
          /\ end' = [end EXCEPT ![c] = "broken"]
          /\ UNCHANGED echoed
    /\ child' = [child EXCEPT ![c] = "read"]
    /\ UNCHANGED <<parentVars, pending, n, held, queue, sent, taken>>

(* SIGPIPE kills the child. *)
ChildSigpipe(c) ==
    /\ child[c] = "write" /\ end[c] = "broken"
    /\ Exit(c)
    /\ UNCHANGED connVars

Child(c) == ChildRead(c) \/ ChildLeaves(c) \/ ChildWrite(c) \/ ChildSigpipe(c)

-----------------------------------------------------------------------------
Main == Accept \/ Again \/ Fork \/ ForkFails \/ ParentClose \/ Sigaction \/ Unblock

Fun == EnterFun \/ Reap \/ ReapNothing \/ LeaveFun

Next ==
    \/ Main \/ Fun
    \/ \E c \in Conns : Child(c) \/ Client(c)

Spec == Init /\ [][Next]_vars

(* The kernel runs every process that can run. *)
FairSpec == Spec /\ WF_vars(Main) /\ WF_vars(Fun) /\ \A c \in Conns : WF_vars(Child(c))

(* ... and every client hangs up some day. *)
PassingSpec == FairSpec /\ \A c \in Conns : WF_vars(HangUp(c))

-----------------------------------------------------------------------------
(* Properties.                                                             *)

(* The type invariant. *)
TypeOK ==
    /\ pc \in {"accept", "again", "fork", "close", "sigaction", "unblock", "exited"}
    /\ fd \in Conns \cup {NoConn}
    /\ blocked \in BOOLEAN /\ handler \in BOOLEAN
    /\ pending \in BOOLEAN /\ inFun \in BOOLEAN
    /\ child \in [Conns -> ChildStates]
    /\ n \in [Conns -> Nat]
    /\ held \in [Conns -> SUBSET (Conns \cup {Parent})]
    /\ queue \subseteq Conns
    /\ sent \in [Conns -> Nat] /\ taken \in [Conns -> Nat] /\ echoed \in [Conns -> Nat]
    /\ end \in [Conns -> {"none", "fin", "rst", "broken"}]

(* No exited child is forgotten, however the SIGCHLDs of several children  *)
(* coalesce, and from the first child on: while there is a zombie the      *)
(* parent has a SIGCHLD pending or is in Fun.                              *)
NoLostReap == Zombies # {} => pending \/ inFun

(* A connection is in the hands of its own child alone once the parent is  *)
(* back in accept(): the client sees the end as soon as the child leaves,  *)
(* and no child can touch another child's client.                          *)
OwnChildOnly ==
    \A c \in Conns : held[c] \subseteq {c} \cup (IF fd = c THEN {Parent} ELSE {})

(* What a child wrote is what it read, in order: at every read() all that  *)
(* was taken before has been echoed, unless the client broke off.          *)
EchoComplete ==
    \A c \in Conns : child[c] = "read" /\ end[c] \in {"none", "fin"} => echoed[c] = taken[c]

(* Every exited child is reaped. *)
EventuallyReaped == \A c \in Conns : (child[c] = "zombie") ~> (child[c] = "reaped")

(* Every client that connects is given a child, unless fork() failed and   *)
(* the server left: no signal takes the parent out of its accept loop.     *)
EventuallyServed ==
    \A c \in Conns : (c \in queue) ~> (child[c] # "none" \/ pc = "exited")

(* The comment in Fun (process_tcp_server.c:18): it waits for any child,   *)
(* and "when none has exited returns at once, without blocking".           *)
HandlerReturns == inFun ~> ~inFun
=============================================================================
