------------------------------ MODULE Startup ------------------------------
(***************************************************************************)
(* How the TCP servers come up: tcp4bind(8888, NULL), Listen(), Accept()   *)
(* of wrap.c.  They share one port; any of them may be started, killed and *)
(* started again while connections of the one before linger in TIME_WAIT.  *)
(***************************************************************************)
EXTENDS Naturals

CONSTANTS
    Progs,      \* the servers
    MaxKills    \* bound: kills

VARIABLES
    stage,      \* stage[p]: off, socket, option, bound, listening or failed
    reuse,      \* reuse[p]: SO_REUSEADDR is set on its socket
    serving,    \* serving[p]: a connection is open
    waiting,    \* TIME_WAIT of a connection whose server is gone
    downs

startVars == <<stage, reuse, serving, waiting, downs>>

Init ==
    /\ stage = [p \in Progs |-> "off"]
    /\ reuse = [p \in Progs |-> FALSE] /\ serving = [p \in Progs |-> FALSE]
    /\ waiting = FALSE /\ downs = 0

To(p, s) == stage' = [stage EXCEPT ![p] = s]

Listening == {p \in Progs : stage[p] = "listening"}
Holding   == {p \in Progs : stage[p] \in {"bound", "listening"}}

-----------------------------------------------------------------------------
Socket(p) ==
    /\ stage[p] = "off"
    /\ To(p, "socket")
    /\ reuse' = [reuse EXCEPT ![p] = FALSE]
    /\ UNCHANGED <<serving, waiting, downs>>

(* Slip: the option forgotten. *)
NoSetsockopt(p) ==
    /\ stage[p] = "socket"
    /\ To(p, "option")
    /\ UNCHANGED <<reuse, serving, waiting, downs>>

(* setsockopt(SO_REUSEADDR), before the Bind().                            *)
Setsockopt(p) ==
    /\ stage[p] = "socket"
    /\ To(p, "option")
    /\ reuse' = [reuse EXCEPT ![p] = TRUE]
    /\ UNCHANGED <<serving, waiting, downs>>

(* The kernel's rule: nobody listens on the port, and with SO_REUSEADDR on *)
(* both sides a socket that is only bound, or lingers, does not matter.    *)
MayBind(p) ==
    /\ Listening = {}
    /\ reuse[p] \/ (Holding = {} /\ ~waiting)
    /\ \A q \in Holding : reuse[q]

(* Bind() and Listen() that fail end the program (perr_exit).              *)
Bind(p) ==
    /\ stage[p] = "option"
    /\ To(p, IF MayBind(p) THEN "bound" ELSE "failed")
    /\ UNCHANGED <<reuse, serving, waiting, downs>>

Listen(p) ==
    /\ stage[p] = "bound"
    /\ To(p, IF Listening = {} THEN "listening" ELSE "failed")
    /\ UNCHANGED <<reuse, serving, waiting, downs>>

(* Accept() tries again on ECONNABORTED and EINTR.                         *)
Accept(p) ==
    /\ stage[p] = "listening" /\ ~serving[p]
    /\ serving' = [serving EXCEPT ![p] = TRUE]
    /\ UNCHANGED <<stage, reuse, waiting, downs>>

(* Ctrl-C: the server closes first, so its end keeps the TIME_WAIT.  It    *)
(* stands for an error of accept(), too, which ends a listening server     *)
(* (perr_exit) and leaves the same behind.                                 *)
Kill(p) ==
    /\ stage[p] \notin {"off", "failed"} /\ downs < MaxKills
    /\ To(p, "off") /\ downs' = downs + 1
    /\ waiting' = (waiting \/ serving[p])
    /\ serving' = [serving EXCEPT ![p] = FALSE]
    /\ UNCHANGED reuse

Retry(p) == stage[p] = "failed" /\ To(p, "off") /\ UNCHANGED <<reuse, serving, waiting, downs>>

TimeWaitEnds == waiting /\ waiting' = FALSE /\ UNCHANGED <<stage, reuse, serving, downs>>

Next ==
    \/ TimeWaitEnds
    \/ \E p \in Progs :
         Socket(p) \/ Setsockopt(p) \/ Bind(p) \/ Listen(p) \/ Accept(p) \/ Kill(p) \/ Retry(p)

-----------------------------------------------------------------------------
(* Properties.                                                             *)

(* A server that is started fails only because another one has the port    *)
(* now: connections left over by one that was killed never keep it down    *)
(* (SO_REUSEADDR before Bind(), wrap.c:213-217).  Two servers that race    *)
(* through Bind() together are told apart by Listen().                     *)
FailsOnlyToAnother ==
    [][\A p \in Progs : stage[p] # "failed" /\ stage'[p] = "failed" => Listening \ {p} # {}]_startVars

=============================================================================
