------------------------------ MODULE PipeDemo ------------------------------
(***************************************************************************)
(* EPollDemo/demo01/test.c: a child writes into a pipe every five seconds, *)
(* its parent waits for it with epoll and prints.  Either may be killed.   *)
(***************************************************************************)
EXTENDS Naturals

CONSTANTS
    Capacity,   \* messages of 128 bytes the pipe holds
    MaxWrites   \* bound: messages the child writes

VARIABLES
    parent,     \* start, wait, gone
    child,      \* none, writing, gone
    holders,    \* processes that hold the write end
    written, printed,
    closing     \* the parent has seen the end of the pipe

pipeVars == <<parent, child, holders, written, printed, closing>>

InPipe == written - printed

Init ==
    /\ parent = "start" /\ child = "none" /\ holders = {"parent"}
    /\ written = 0 /\ printed = 0 /\ closing = FALSE

(* pipe() or fork() failing ends the program. *)
Fork ==
    /\ parent = "start"
    /\ \/ parent' = "fork" /\ child' = "writing" /\ holders' = {"parent", "child"}
       \/ parent' = "gone" /\ holders' = {} /\ UNCHANGED child
    /\ UNCHANGED <<written, printed, closing>>

(* Slip: the parent keeps the write end. *)
ParentKeepsWriteEnd == parent = "fork" /\ parent' = "wait" /\ UNCHANGED <<child, holders, written, printed, closing>>

(* The write end closed, the read end put on the tree. *)
ParentCloses ==
    /\ parent = "fork"
    /\ parent' = "wait" /\ holders' = holders \ {"parent"}
    /\ UNCHANGED <<child, written, printed, closing>>

(* write() waits while the pipe is full; without a reader: SIGPIPE.        *)
ChildWrite ==
    /\ child = "writing" /\ written < MaxWrites
    /\ IF parent = "gone"
       THEN child' = "gone" /\ holders' = holders \ {"child"} /\ UNCHANGED written
       ELSE InPipe < Capacity /\ written' = written + 1 /\ UNCHANGED <<child, holders>>
    /\ UNCHANGED <<parent, printed, closing>>

(* EPOLLIN: 128 bytes are there, and printed. *)
ParentRead ==
    /\ parent = "wait" /\ InPipe > 0
    /\ printed' = printed + 1
    /\ UNCHANGED <<parent, child, holders, written, closing>>

(* EPOLLHUP: read() = 0, and the loop is left.                             *)
ParentEnd ==
    /\ parent = "wait" /\ InPipe = 0 /\ holders = {}
    /\ parent' = "gone" /\ closing' = TRUE
    /\ UNCHANGED <<child, holders, written, printed>>

Kill ==
    \/ child = "writing" /\ child' = "gone" /\ holders' = holders \ {"child"}
         /\ UNCHANGED <<parent, written, printed, closing>>
    \/ parent \in {"fork", "wait"} /\ parent' = "gone" /\ holders' = holders \ {"parent"}
         /\ UNCHANGED <<child, written, printed, closing>>

Parent == ParentCloses \/ ParentRead \/ ParentEnd

Next == Fork \/ Parent \/ ChildWrite \/ Kill

-----------------------------------------------------------------------------
(* Properties.                                                             *)

(* Once the child is gone the parent prints what is left in the pipe and   *)
(* ends: nobody else holds the write end, the parent's own copy included   *)
(* (test.c:39), or read() would never return 0.                            *)
PipeDrained ==
    (parent \in {"fork", "wait"} /\ child = "gone")
        ~> (parent = "gone" /\ (closing => printed = written))
=============================================================================
