------------------------------ MODULE MCEpollET ------------------------------
(* Small instances of EpollET.                                             *)
EXTENDS EpollET

CONSTANTS c1, c2, c3

(* One client comes with more than one read() takes. *)
OneTalks == [c \in Conns |-> IF c = c1 THEN 2 ELSE 1]
=============================================================================
