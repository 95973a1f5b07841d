------------------------------- MODULE BevEcho -------------------------------
(***************************************************************************)
(* Three greeters over bufferevents: helloworld-change.c ("change", greets *)
(* and echoes), myWwriteDemo.c ("demo", the same with an unfinished signal *)
(* event and strlen() for a length), and libevent's own hello-world.c      *)
(* ("sample", greets and hangs up).                                        *)
(***************************************************************************)
EXTENDS BufferEvents, FiniteSets, SequencesExt

CONSTANTS
    BufMax,     \* units the buf[1500] of a read callback takes
    MaxSent,    \* bound: units each client sends
    Nul         \* the units (by position) that begin with a NUL byte

EchoPrograms == {"change", "demo", "sample"}

(* A unit says where it is from: the greeting, the client, or ("over")     *)
(* what strlen() runs into behind a full buffer.                           *)
Greeting == << <<"greet", 1>>, <<"greet", 2>> >>

(* The mains set up the base, the listener and the signal event.  Without  *)
(* one of them "change" and "sample" return before they loop; "demo" looks *)
(* at none, and has nothing to loop for without its listener.              *)
ChangeMain == program = "change" /\ loop \in {"running", "down"}
DemoMain   == program = "demo"   /\ loop \in {"running", "down"}
SampleMain == program = "sample" /\ loop \in {"running", "down"}

Init == BevInit /\ (ChangeMain \/ DemoMain \/ SampleMain)

Client(c) ==
    \/ Connect(c) \/ Leave(c)
    \/ Len(sent[c]) < MaxSent[c] /\ Send(c, << <<"sent", Len(sent[c]) + 1>> >>)

-----------------------------------------------------------------------------
(* helloworld-change.c                                                     *)

ChangeListenerCb(c) == program = "change" /\ NewBev(c, TRUE, Greeting)

(* Slip: what buf does not take is thrown away. *)
LeftDropped(c) == <<>>

(* One bufferevent_read(): what buf takes of the input.                    *)
Taken(c) == Upto(Input(c), BufMax)
Left(c) == Behind(Input(c), BufMax)

ConnReadcb(c) == program = "change" /\ ReadEvent(c, Left(c), Taken(c))

ConnEventcb(c) == program = "change" /\ (EndFrees(c) \/ WriteFrees(c))

SignalCb == program = "change" /\ loop = "running" /\ Stop("exiting")

(* bufferevent_socket_new() without memory breaks the loop.                *)
ListenerBreaks ==
    /\ program \in {"change", "sample"} /\ Live
    /\ \E c \in Clients : conn[c] = "queued"
    /\ Stop("down")

(* Two seconds after the signal the loop ends, whatever is still queued.   *)
LoopExit == loop = "exiting" /\ Stop("down")

-----------------------------------------------------------------------------
(* myWwriteDemo.c                                                          *)

ListenCb(c) == program = "demo" /\ NewBev(c, TRUE, Greeting)

(* strlen(buf): up to the first NUL; a full buffer has none of its own.    *)
Cut(s) == SubSeq(s, 1, Cardinality({k \in DOMAIN s : \A m \in 1..k : s[m][2] \notin Nul}))

Overrun(s) == IF Len(s) = BufMax /\ Cut(s) = s THEN { <<>>, << <<"over", 0>> >> } ELSE { <<>> }

Readcb(c) ==
    /\ program = "demo"
    /\ \E o \in Overrun(Taken(c)) : ReadEvent(c, Left(c), Cut(Taken(c)) \o o)

DemoEventcb(c) == program = "demo" /\ (EndFrees(c) \/ WriteFrees(c))

(* The SIGINT event is never added: the signal ends the process.           *)
Sigint == program = "demo" /\ Live /\ Stop("down")

-----------------------------------------------------------------------------
(* hello-world.c                                                           *)

SampleListenerCb(c) == program = "sample" /\ NewBev(c, FALSE, Greeting)

SampleWritecb(c) == program = "sample" /\ DrainAndFree(c)

SampleEventcb(c) == program = "sample" /\ (EndFrees(c) \/ WriteFrees(c))

SampleSignalCb == program = "sample" /\ loop = "running" /\ Stop("exiting")

-----------------------------------------------------------------------------
(* conn_writecb() and writecb() of the echoing programs do nothing.        *)
Written(c) == (program = "sample" => Len(output[c]) > 1) /\ Drain(c)

Listening(c) == ChangeListenerCb(c) \/ ListenCb(c) \/ SampleListenerCb(c)

Writing(c) == Written(c) \/ SampleWritecb(c) \/ Sigpipe(c)

Reading(c) == ConnReadcb(c) \/ Readcb(c)

Ending(c) == ConnEventcb(c) \/ DemoEventcb(c) \/ SampleEventcb(c)

Next ==
    \/ SignalCb \/ SampleSignalCb \/ LoopExit \/ ListenerBreaks \/ Sigint
    \/ \E c \in Clients :
         Client(c) \/ Listening(c) \/ Writing(c) \/ Reading(c) \/ Ending(c)

-----------------------------------------------------------------------------
(* Properties.                                                             *)

(* All that has come to a connection and not been thrown away, in order.   *)
Path(c) == got[c] \o output[c] \o input[c] \o wire[c]

Sent(u) == u[1] = "sent"

(* What a client gets from helloworld-change.c is the greeting and then    *)
(* what it sent, in order and without a gap: a read callback takes only    *)
(* 1500 bytes of an input buffer that a read event may have filled further *)
(* (helloworld-change.c:108), and the rest waits in the input buffer       *)
(* instead of being lost.  myWwriteDemo.c may drop text behind a NUL, but  *)
(* never repeats or reorders.                                              *)
EchoInOrder ==
    program \in EchoPrograms => \A c \in Clients : conn[c] = "open" =>
        /\ program = "change" => Path(c) = Greeting \o sent[c]
        /\ \A j, k \in DOMAIN Path(c) :
             j < k /\ Sent(Path(c)[j]) /\ Sent(Path(c)[k]) => Path(c)[j][2] < Path(c)[k][2]

(* hello-world.c frees a bufferevent only when the whole greeting has gone *)
(* out (conn_writecb), or its client had gone.                             *)
FlushedFirst ==
    \A c \in Clients : program = "sample" /\ conn[c] = "freed" =>
        got[c] = Greeting \/ peer[c] # "none"

(* Everybody is greeted, and whoever leaves is let go, unless the program  *)
(* ends.                                                                   *)
Greeted ==
    \A c \in Clients : (program \in EchoPrograms /\ conn[c] = "queued") ~>
        (IsPrefix(Greeting, got[c]) \/ peer[c] # "none" \/ ~Live)

LetGo ==
    \A c \in Clients : (program \in EchoPrograms /\ conn[c] = "open" /\ peer[c] # "none")
        ~> (conn[c] = "freed" \/ ~Live)
=============================================================================
