--------------------------- MODULE StreamService ---------------------------
(***************************************************************************)
(* What a server of this repository promises about its connections,        *)
(* whatever it waits with: it takes only what was sent, in order, and      *)
(* closes a connection only after the client has ended it and everything   *)
(* it sent has been taken.  With fairness: everybody is accepted, all data *)
(* is taken and every connection that has ended is closed.                 *)
(*                                                                         *)
(* The programs are shown to implement it (Implements in EpollET, EpollLT, *)
(* PollServer and SelectServer).                                           *)
(***************************************************************************)
EXTENDS Integers

CONSTANTS Conns, MaxSent

VARIABLES phase, sent, taken, end,
          up        \* the server runs

vars == <<phase, sent, taken, end, up>>

Init ==
    /\ phase = [c \in Conns |-> "idle"]
    /\ sent = [c \in Conns |-> 0]
    /\ taken = [c \in Conns |-> 0]
    /\ end = [c \in Conns |-> "none"]
    /\ up = TRUE

-----------------------------------------------------------------------------
Connect(c) ==
    /\ phase[c] = "idle"
    /\ phase' = [phase EXCEPT ![c] = "queued"]
    /\ UNCHANGED <<sent, taken, end, up>>

Send(c) ==
    /\ phase[c] \in {"queued", "open"} /\ end[c] = "none"
    /\ sent[c] < MaxSent[c]
    /\ sent' = [sent EXCEPT ![c] = @ + 1]
    /\ UNCHANGED <<phase, taken, end, up>>

(* FIN, reset, or reset after FIN. *)
End(c) ==
    /\ phase[c] \in {"queued", "open"}
    /\ \/ end[c] = "none" /\ end' = [end EXCEPT ![c] = "fin"]
       \/ end[c] = "none" /\ end' = [end EXCEPT ![c] = "rst"]
       \/ end[c] = "fin"  /\ end' = [end EXCEPT ![c] = "broken"]
    /\ UNCHANGED <<phase, sent, taken, up>>

-----------------------------------------------------------------------------
Accept(c) ==
    /\ up /\ phase[c] = "queued"
    /\ phase' = [phase EXCEPT ![c] = "open"]
    /\ UNCHANGED <<sent, taken, end, up>>

Take(c) ==
    /\ up /\ phase[c] = "open"
    /\ \E k \in 1..(sent[c] - taken[c]) : taken' = [taken EXCEPT ![c] = @ + k]
    /\ UNCHANGED <<phase, sent, end, up>>

(* The server learns of a reset. *)
Learn(c) ==
    /\ up /\ phase[c] = "open" /\ end[c] = "rst"
    /\ end' = [end EXCEPT ![c] = "broken"]
    /\ UNCHANGED <<phase, sent, taken, up>>

Close(c) ==
    /\ up /\ phase[c] = "open"
    /\ end[c] # "none" /\ taken[c] = sent[c]
    /\ phase' = [phase EXCEPT ![c] = "closed"]
    /\ UNCHANGED <<sent, taken, end, up>>

(* The server ends: out of descriptors, or killed by SIGPIPE. *)
Die ==
    /\ up /\ up' = FALSE
    /\ UNCHANGED <<phase, sent, taken, end>>

Serve(c) == Take(c) \/ Close(c)

Next ==
    \/ Die
    \/ \E c \in Conns :
         Connect(c) \/ Send(c) \/ End(c) \/ Accept(c) \/ Serve(c) \/ Learn(c)

Spec == Init /\ [][Next]_vars

FairSpec == Spec /\ \A c \in Conns : WF_vars(Accept(c)) /\ WF_vars(Serve(c))
=============================================================================
