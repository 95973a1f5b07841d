------------------------------- MODULE MsgLog -------------------------------
(***************************************************************************)
(* The log library log.c: two files, each opened once, with option words   *)
(* that say what stands before each line.  The caller may call anything at *)
(* any time; log_demo.c does not look at msgInit()'s result either.        *)
(***************************************************************************)
EXTENDS Naturals, Sequences

CONSTANTS
    Formats,    \* option sets given to msgLogFormat()
    MaxLines    \* bound: lines in the message file

VARIABLES
    file,       \* file[f]: null, open, or freed (closed, pointer kept)
    opt,        \* msgopt, wanopt
    lines,      \* lines[f]: for each line the options of its prefix
    halfOpen,   \* the second fopen() has failed
    told,       \* what msgInit() has returned last
    closed,     \* msgLogClose() was called
    broken      \* a null or freed FILE was written to

logVars == <<file, opt, lines, halfOpen, told, closed, broken>>

Files == {"msg", "wan"}
Default == {"name", "pid"}

Init ==
    /\ file = [f \in Files |-> "null"] /\ opt = [f \in Files |-> {}]
    /\ lines = [f \in Files |-> <<>>] /\ halfOpen = FALSE /\ broken = FALSE
    /\ told = "nothing" /\ closed = FALSE

(* A freed FILE takes the line to nowhere, or the program down.            *)
Log(to, files, opts) ==
    /\ lines' = [f \in Files |-> IF f \in to /\ files[f] = "open" THEN Append(lines[f], opts[f]) ELSE lines[f]]
    /\ broken' = \E f \in to : files[f] # "open"

(* Slip: the option words are left to msgLogFormat(). *)
MsgLogOpenKeepsOptions(msg, wan) ==
    LET files == [f \in Files |-> IF f = "msg" THEN msg ELSE wan]
    IN  /\ file' = files
        /\ halfOpen' = (halfOpen \/ (msg # "null" /\ wan = "null")) /\ UNCHANGED <<opt, closed>>
        /\ IF "null" \in {msg, wan} THEN told' = "failed" /\ UNCHANGED <<lines, broken>>
           ELSE told' = "ready" /\ Log({"msg"}, files, opt)

(* What is open, or was, is not opened again; the words are set, and the   *)
(* first line written, only with both files.                               *)
MsgLogOpen(msg, wan) ==
    LET files == [f \in Files |-> IF f = "msg" THEN msg ELSE wan]
    IN  /\ file' = files
        /\ halfOpen' = (halfOpen \/ (msg # "null" /\ wan = "null"))
        /\ IF "null" \in {msg, wan} THEN told' = "failed" /\ UNCHANGED <<opt, lines, broken>>
           ELSE told' = "ready" /\ opt' = [f \in Files |-> Default] /\ Log({"msg"}, files, opt')
        /\ UNCHANGED closed

(* msgInit(): the format it sets is the default again. *)
MsgInit ==
    /\ Len(lines["msg"]) < MaxLines /\ ~broken
    /\ \E m \in {"null", "open"}, w \in {"null", "open"} :
         LET msg == IF file["msg"] = "null" THEN m ELSE file["msg"]
         IN  MsgLogOpen(msg, IF msg # "null" /\ file["wan"] = "null" THEN w ELSE file["wan"])

(* MSG_INFO, MSG_WARN, MSG_BOTH. *)
Msglog(to) ==
    /\ Len(lines["msg"]) < MaxLines /\ Len(lines["wan"]) < MaxLines /\ ~broken
    /\ Log(to, file, opt)
    /\ UNCHANGED <<file, opt, halfOpen, told, closed>>

(* Every word of log.h is positive, the NLO_ masks too: the options are    *)
(* replaced, never masked.                                                 *)
MsgLogFormat(msgopt, wanopt) ==
    /\ ~broken
    /\ opt' = [f \in Files |-> IF f = "msg" THEN msgopt ELSE wanopt]
    /\ UNCHANGED <<file, lines, halfOpen, told, closed, broken>>

MsgLogClose ==
    /\ ~broken
    /\ \A f \in Files : file[f] # "freed"
    /\ file' = [f \in Files |-> IF file[f] = "open" THEN "freed" ELSE file[f]]
    /\ closed' = TRUE
    /\ UNCHANGED <<opt, lines, halfOpen, told, broken>>

Next ==
    \/ MsgInit \/ MsgLogClose
    \/ \E to \in (SUBSET Files) \ {{}} : Msglog(to)
    \/ \E m, w \in Formats : MsgLogFormat(m, w)

-----------------------------------------------------------------------------
(* Properties.                                                             *)

(* A line without a name or number before it was written by a caller that  *)
(* went on after msgLogOpen() had opened the first file only (log.c:57-60, *)
(* log_demo.c:9).  A caller that heeds what msgInit() returns, and does    *)
(* not go on after msgLogClose(), has both files open, however often it    *)
(* tried, and never writes to a FILE that is not.  After msgLogClose()     *)
(* that is no longer so: the pointers are kept (log.c:166-172), so the     *)
(* next msgInit() opens nothing, writes to the freed FILE and returns 0.   *)
LinesMarked ==
    /\ \A f \in Files, k \in 1..MaxLines : k <= Len(lines[f]) /\ lines[f][k] = {} => halfOpen
    /\ told = "ready" /\ ~closed => ~broken /\ \A f \in Files : file[f] = "open"
=============================================================================
