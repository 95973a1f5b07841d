------------------------------ MODULE MCEpollLT ------------------------------
(* Small instances of EpollLT.                                             *)
EXTENDS EpollLT

CONSTANTS c1, c2, c3

(* One client sends more than one read() takes, one nothing; the third     *)
(* does not read its answers, of which the send buffer holds but the first.*)
Talks == [c \in Conns |-> CASE c = c1 -> 2 [] c = c2 -> 0 [] c = c3 -> 2]
=============================================================================
