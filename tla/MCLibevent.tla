----------------------------- MODULE MCLibevent -----------------------------
(***************************************************************************)
(* Small instances of the libevent programs, each by itself: program says  *)
(* which one runs.  LibeventServer has the raw events, BevEcho and BevWeb  *)
(* share the bufferevents.                                                 *)
(***************************************************************************)
EXTENDS LibeventServer, Sequences

CONSTANTS c1, c2, c3, Clients, Browsers, ReadMax, BufMax, MaxUnits, Nul, Methods, FileSize, DirSize

(* A read event takes what a request is made of at once: 4096 bytes.       *)
ASSUME BevAssumption ==
    /\ ReadMax \in Nat /\ ReadMax >= 3 /\ BufMax \in Nat
    /\ Browsers \subseteq Clients /\ FileSize \in Nat /\ DirSize \in Nat

VARIABLES program, loop, conn, peer, sentUnits, wire, reading, input, output, got

Echo == INSTANCE BevEcho WITH sent <- sentUnits, MaxSent <- MaxUnits
Web  == INSTANCE BevWeb WITH sent <- sentUnits

bevVars == <<program, loop, conn, peer, sentUnits, wire, reading, input, output, got>>

MCInit == Init /\ (Echo!Init \/ Web!Init \/ (program = "table" /\ loop = "down" /\ Echo!BevInit))

Table(A) == program = "table" /\ A /\ UNCHANGED bevVars

(* Bound: the client the table has no entry for comes after the others, who *)
(* have been accepted.                                                     *)
OneTooMany == phase'[c3] # "idle" => \A c \in Conns \ {c3} : phase'[c] = "open"

MCNext ==
    \/ Table(Next /\ OneTooMany)
    \/ program \in Echo!EchoPrograms /\ Echo!Next /\ UNCHANGED vars
    \/ program \in Web!WebPrograms /\ Web!Next /\ UNCHANGED vars

allVars == <<vars, bevVars>>

EchoStep(A) == program \in Echo!EchoPrograms /\ A /\ UNCHANGED vars
WebStep(A)  == program \in Web!WebPrograms /\ A /\ UNCHANGED vars

MCSpec == MCInit /\ [][MCNext]_allVars

(* Every event of the base that stays ready gets its turn: a round of the  *)
(* loop runs the callbacks of all that were ready.  Clients read.          *)
MCFairSpec ==
    /\ MCSpec
    /\ WF_allVars(Table(Listener)) /\ WF_allVars(Table(Writer))
    /\ \A f \in Fds, c \in Conns : WF_allVars(Table(Cfdcb(Event(f, c))))
    /\ \A c \in Conns : WF_allVars(Table(Client(c) /\ Consume(c)))
    /\ \A c \in Clients :
         /\ WF_allVars(EchoStep(Echo!Listening(c))) /\ WF_allVars(EchoStep(Echo!Writing(c)))
         /\ WF_allVars(EchoStep(Echo!Reading(c)))   /\ WF_allVars(EchoStep(Echo!Ending(c)))
    /\ \A c \in Browsers :
         /\ WF_allVars(WebStep(Web!Listening(c)))   /\ WF_allVars(WebStep(Web!Writing(c)))
         /\ WF_allVars(WebStep(Web!Reading(c)))     /\ WF_allVars(WebStep(Web!Ending(c)))

(* One client of the table server sends more than one read() takes and     *)
(* more answers than are held for it; a third one is one more than the     *)
(* table has entries for, and only comes and goes.                         *)
Talks == [c \in Conns |-> IF c = c3 THEN 0 ELSE IF c = c1 THEN 1 ELSE 2]

(* One client of the greeters sends more than a read event moves at once,  *)
(* the other only listens.                                                 *)
OneTalks == [c \in Clients |-> IF c = c1 THEN 4 ELSE 0]

-----------------------------------------------------------------------------
(* What clients receive: echoes in order (BevEcho!EchoInOrder), greetings  *)
(* whole (BevEcho!FlushedFirst).                                           *)
EchoesRight == Echo!EchoInOrder /\ Echo!FlushedFirst

(* What browsers receive first: the page they named (BevWeb!RightPage);    *)
(* who is not let go had no whole answer (BevWeb!LeaksUnanswered).         *)
PagesRight == Web!RightPage /\ Web!LeaksUnanswered

(* The claim of webServer.c that does not hold (BevWeb!FilePushed).        *)
FilePushed == Web!FilePushed

(* Everybody gets an answer: the greeting of the echo programs             *)
(* (BevEcho!Greeted), the file asked for of event_wb.c                     *)
(* (BevWeb!FileArrives).                                                   *)
Answered == Echo!Greeted /\ Web!FileArrives

(* Whoever leaves one of the echo programs or event_wb.c is let go.        *)
LetGo == Echo!LetGo /\ Web!LetGo
=============================================================================
