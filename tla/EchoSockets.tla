---------------------------- MODULE EchoSockets ----------------------------
(***************************************************************************)
(* Sockets with the direction back: what a blocking write() of a server    *)
(* that answers its clients does.  Like Sockets, the kernel's part.        *)
(***************************************************************************)
EXTENDS Sockets

CONSTANTS
    MaxSent,    \* bound: how many units each client sends
    SndBuf,     \* answers the kernel holds for a client that does not read
    Lazy        \* clients that never read their answers

ASSUME EchoAssumption ==
    /\ MaxSent \in [Conns -> Nat]
    /\ SndBuf \in Nat \ {0}
    /\ Lazy \subseteq Conns

VARIABLE out        \* out[c]: answers waiting in c's send buffer

echoVars == <<sockVars, out>>

EchoInit == SockInit /\ out = [c \in Conns |-> 0]

EchoTypeOK == SockTypeOK /\ out \in [Conns -> Nat]

ClientActs(c) ==
    /\ Connect(c) \/ (sent[c] < MaxSent[c] /\ Deliver(c, 1)) \/ Fin(c) \/ Abort(c)
    /\ UNCHANGED out

(* A client reads the answers it has. *)
Consume(c) ==
    /\ c \notin Lazy /\ out[c] > 0
    /\ out' = [out EXCEPT ![c] = 0]
    /\ UNCHANGED sockVars

(* write() > 0; it waits while the buffer is full. *)
WriteOk(c) ==
    /\ end[c] \in {"none", "fin"} /\ out[c] < SndBuf
    /\ out' = [out EXCEPT ![c] = @ + 1]
    /\ UNCHANGED sockVars

(* write() = -1: a reset not reported yet. *)
WriteReset(c) ==
    /\ end[c] = "rst"
    /\ TakeError(c)
    /\ UNCHANGED out

(* write() to a broken connection: SIGPIPE. *)
WriteKills(c) == end[c] = "broken"
=============================================================================
