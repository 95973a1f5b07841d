---------------------------- MODULE MCForkServer ----------------------------
(* Small instances of ForkServer: three clients, so that two children can  *)
(* die behind one pending SIGCHLD while a third lives.                     *)
EXTENDS ForkServer

CONSTANTS c1, c2, c3

(* One client talks, the others come and go. *)
OneTalks == [c \in Conns |-> IF c = c1 THEN 2 ELSE 0]
=============================================================================
