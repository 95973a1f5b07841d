----------------------------- MODULE MCPrograms -----------------------------
(***************************************************************************)
(* Small instances of the programs that stand alone, each by itself:       *)
(* program says which one runs.                                            *)
(***************************************************************************)
EXTENDS SelectTeacher, Sequences, TLC

CONSTANTS
    c1, c2,
    MaxOutput, ReadMax, MaxSay,
    Lines, BufLen, NulChar, Behind, MaxKills,
    Users, Texts, Empty, Nothing, MaxStarts,
    Capacity, MaxWrites,
    Want, ReadBuf, LineEnds, MaxBytes, MaxSignals, MaxCalls,
    Progs,
    Payloads, Src, Dst, Port, Mac, MaxFrames,
    Fields, Half, MaxClicks,
    Formats, MaxLines,
    Names, Safe, Types, Plain, ToSize, Size, Stream

VARIABLES
    program,
    evs, cur, tree,
    relay, side, link, partner, said, relayWire, input, output, heard, reading, choking, pending, calling,
    pieces, client, reBuf, server, toServer, toClient, asked, lost, kills,
    srv, served, starts, at, chatLink, typed, up, down, seen,
    parent, child, holders, piped, printed, closing,
    fn, calls, busy, buf, nleft, ret, given, readBuf, arrived, got, peer, written, signals,
    stage, reuse, serving, waiting, downs,
    wire, analyzed, asking, answer, count, captured, frames,
    page, questions, unanswered, failed, results,
    file, opt, lines, halfOpen, told, closed, broken,
    name, entryLink, opened, type, streamed, gone, used, lineAt, line, lineStart

Small   == INSTANCE WebDemo
Proxy   == INSTANCE LeProxy WITH peer <- partner, wire <- relayWire
Udp     == INSTANCE UdpChat WITH typed <- pieces
Chat    == INSTANCE UnixChat WITH link <- chatLink
Pipe    == INSTANCE PipeDemo WITH written <- piped
Calls   == INSTANCE Wrap WITH taken <- got
Ports   == INSTANCE Startup
Raw     == INSTANCE FrameTools WITH printed <- analyzed
Pages   == INSTANCE CgiPages WITH asked <- questions, waiting <- unanswered
Logs    == INSTANCE MsgLog
Pub     == INSTANCE PubHelpers WITH link <- entryLink, arrived <- streamed, at <- lineAt

smallVars == <<evs, cur, tree>>
proxyVars == <<relay, side, link, partner, said, relayWire, input, output, heard, reading, choking, pending, calling>>
udpVars   == <<pieces, client, reBuf, server, toServer, toClient, asked, lost, kills>>
chatVars  == <<srv, served, starts, at, chatLink, typed, up, down, seen>>
pipeVars  == <<parent, child, holders, piped, printed, closing>>
wrapVars  == <<fn, calls, busy, buf, nleft, ret, given, readBuf, arrived, got, peer, written, signals>>
startVars == <<stage, reuse, serving, waiting, downs>>
rawVars   == <<wire, analyzed, asking, answer, count, captured, frames>>
cgiVars   == <<page, questions, unanswered, failed, results>>
logVars   == <<file, opt, lines, halfOpen, told, closed, broken>>
pubVars   == <<name, entryLink, opened, type, streamed, gone, used, lineAt, line, lineStart>>

others  == <<proxyVars, udpVars, chatVars, pipeVars, wrapVars, startVars, rawVars, cgiVars, logVars, pubVars>>
allVars == <<vars, program, smallVars, others>>

MCInit ==
    /\ program \in {"select", "small", "proxy", "udp", "chat", "pipe", "wrap", "startup", "raw",
                     "cgi", "log", "pub"}
    /\ Init /\ Small!Init /\ Proxy!Init /\ Udp!Init /\ Chat!Init
    /\ Pipe!Init /\ Calls!Init /\ Ports!Init /\ Raw!Init /\ Pages!Init /\ Logs!Init /\ Pub!Init

(* A step of a program leaves the variables of all others alone.           *)
SelectStep(A) == program = "select" /\ A /\ UNCHANGED <<program, smallVars, others>>
SmallStep(A)  == program = "small" /\ A /\ UNCHANGED <<program, oldset, rset, maxfd, n, i, others>>

Idle(p, v) == IF program = p THEN TRUE ELSE UNCHANGED v
Alone(p, A) ==
    /\ program = p /\ A
    /\ Idle("proxy", proxyVars) /\ Idle("udp", udpVars) /\ Idle("chat", chatVars) /\ Idle("pipe", pipeVars)
    /\ Idle("wrap", wrapVars) /\ Idle("startup", startVars) /\ Idle("raw", rawVars)
    /\ Idle("cgi", cgiVars) /\ Idle("log", logVars) /\ Idle("pub", pubVars)
    /\ UNCHANGED <<program, vars, smallVars>>

MCNext ==
    \/ SelectStep(Next)            \/ SmallStep(Small!Next)
    \/ Alone("proxy", Proxy!Next)  \/ Alone("udp", Udp!Next)       \/ Alone("chat", Chat!Next)
    \/ Alone("pipe", Pipe!Next)    \/ Alone("wrap", Calls!Next)    \/ Alone("startup", Ports!Next)
    \/ Alone("raw", Raw!Next)      \/ Alone("cgi", Pages!Next)     \/ Alone("log", Logs!Next)
    \/ Alone("pub", Pub!Next)

MCSpec == MCInit /\ [][MCNext]_allVars

(* The programs' own steps; nobody has to type, connect, send or leave.    *)
MCFairSpec ==
    /\ MCSpec
    /\ WF_allVars(SelectStep(Server)) /\ WF_allVars(SmallStep(Small!Server))
    /\ \A c \in Conns :
         WF_allVars(SelectStep(Client(c) /\ Consume(c))) /\ WF_allVars(SmallStep(Small!Client(c) /\ Consume(c)))
    /\ \A s \in Proxy!Sides :
         /\ WF_allVars(Alone("proxy", Proxy!Socket(s))) /\ WF_allVars(Alone("proxy", Proxy!Output(s)))
         /\ WF_allVars(Alone("proxy", Proxy!Callback(s)))
    /\ WF_allVars(Alone("udp", Udp!Serve)) /\ WF_allVars(Alone("udp", Udp!Receive))
    /\ \A u \in Users : WF_allVars(Alone("chat", Chat!Server(u))) /\ WF_allVars(Alone("chat", Chat!Recv(u)))
    /\ WF_allVars(Alone("pipe", Pipe!Parent))

-----------------------------------------------------------------------------
(* What is assumed of the constants.                                       *)

ASSUME SelectAssumption == LFd \in Nat /\ BufSize \in Nat \ {0} /\ \A f \in Fds : f > LFd

(* One read moves less than the limit of the output (4 KiB and 512 KiB).   *)
ASSUME ProxyAssumption == MaxOutput \in Nat /\ ReadMax \in Nat /\ ReadMax < MaxOutput

(* Lines of any characters and any length, '\0' and longer than the buffer *)
(* among them.                                                             *)
Letters == {NulChar} \cup UNION {{l[k] : k \in DOMAIN l} : l \in Lines \cup Behind}

ASSUME UdpAssumption ==
    BufLen \in Nat \ {0} /\ \A l \in Lines \cup Behind : l \in Seq(Letters)

ASSUME ChatAssumption == Nothing \notin Texts \cup {Empty} \cup Users

(* A field of which "%d" takes nothing leaves the 0 that is there.         *)
ASSUME CgiAssumption ==
    /\ Half \in Nat \ {0} /\ Nothing \notin Pages!Pages
    /\ Fields \subseteq [kind : {"int", "cut", "none", "nan"}, number : Int]
    /\ \A f \in Fields : f.kind = "none" => f.number = 0

ASSUME WrapAssumption == Want \in Nat \ {0} /\ ReadBuf \in Nat \ {0}

(* Options are made of the words of log.h, and none of these is 0.         *)
ASSUME LogAssumption == {} \notin Formats

(* What is sent fits into the 128 bytes both senders read it into.         *)
ASSUME RawAssumption ==
    LET words == 0..(Raw!W - 1)
    IN  /\ Src \in words \X words /\ Dst \in words \X words /\ Port \in words
        /\ Mac \in (words \X words \X words) \X (words \X words \X words)
        /\ \A data \in Payloads : data \in Seq(words) /\ Len(data) <= 64

(* '%' is a character that is escaped. *)
ASSUME PubAssumption ==
    /\ Size \in Nat /\ Size > 1 /\ Stream \in Seq(Nat)
    /\ Names \subseteq Seq(0..255) /\ 37 \notin Safe /\ ToSize \in Nat \ {0}

-----------------------------------------------------------------------------
(* The instances.                                                          *)

(* One client sends more than one read() takes, and reads no answers, of   *)
(* which the send buffer holds but the first; the other reads them.        *)
Talks == [c \in Conns |-> IF c = c1 THEN 1 ELSE 2]

(* More from one peer than the other side's output holds.                  *)
Says == [s \in {"in", "out"} |-> IF s = "in" THEN 4 ELSE 1]

(* A short line after a long one, an empty one, one that is longer than    *)
(* the buffer; bytes behind the buffer.                                    *)
SomeLines == {<<>>, <<"a">>, <<"b", "c", "d", "e">>}
SomeBytes == {<<>>, <<"x">>}

Guest == <<192 * 256 + 168, 141 * 256 + 128>>
Host  == <<192 * 256 + 168, 141 * 256 + 1>>
Macs  == <<<<12, 10689, 54035>>, <<80, 22208, 8>>>>

(* With ints from -4 to 3: sums that fit, and sums that do not; a number   *)
(* that is no int, one that is cut, one that is none.                      *)
SomeFields == {[kind |-> "int", number |-> 3], [kind |-> "int", number |-> 9],
               [kind |-> "cut", number |-> -4], [kind |-> "none", number |-> 0],
               [kind |-> "nan", number |-> 0]}

(* "a", "a b" and "%a.c", "%" a character of its own; ".c" has a type.     *)
(* The link of the last one, three spaces, does not fit.                   *)
Entries == {<<97>>, <<97, 32, 98>>, <<37, 97, 46, 99>>, <<32, 32, 32>>}
Suffixes == <<46, 99>> :> "text/c"

(* Lines ended in three ways, one of them too long for the buffer.         *)
Segments == <<97, 13, 10, 98, 99, 100, 10, 13, 97>>

(* Nothing, two letters, a letter more; words at which the sum of the      *)
(* datagram has no carry, is 65535, and carries once more when folded.     *)
SomeData == {<<>>, <<24930>>, <<24930, 25344>>, <<9606>>, <<9607>>, <<9608>>}

-----------------------------------------------------------------------------
(* Both echo servers keep the promise of StreamService, whose variables    *)
(* they share (SelectTeacher.Implements, WebDemo.Implements).              *)
StreamsKept == Implements

(* What is encoded is decoded again: frames (FrameTools.FrameRight), links *)
(* (PubHelpers.LinkLeadsBack).                                             *)
DataExact == Raw!FrameRight /\ Pub!LinkLeadsBack

(* A server that does not come up has lost the port to another one         *)
(* (Startup.FailsOnlyToAnother).                                           *)
FailsOnlyToAnother == Ports!FailsOnlyToAnother

(* What the clients of the two chats print, and when they wait             *)
(* (UdpChat.PrintsWhole, UnixChat.BothWaitOnlyOnEmpty); what the           *)
(* calculator shows (CgiPages.ResultRight); what callers get from the read *)
(* and write functions (Wrap.Exact), from get_line() (PubHelpers.LineWhole)*)
(* and find in the log (MsgLog.LinesMarked).                               *)
AnswersRight ==
    /\ Udp!PrintsWhole /\ Chat!BothWaitOnlyOnEmpty /\ Pages!ResultRight
    /\ Calls!Exact /\ Pub!LineWhole /\ Logs!LinesMarked

(* Conversations end: datagrams and lines are answered, the pipe is        *)
(* drained, everybody is served (UdpChat.UdpAnswered,                      *)
(* UnixChat.LineAnswered, PipeDemo.PipeDrained, Served of both servers).   *)
Conversations ==
    /\ Udp!UdpAnswered /\ Chat!LineAnswered /\ Pipe!PipeDrained
    /\ program = "select" => Served
    /\ program = "small" => Small!Served

(* The relay holds no more than it may (LeProxy.Bounded) ...               *)
Bounded == Proxy!Bounded

(* ... and passes everything on (LeProxy.Delivered).                       *)
Delivered == Proxy!Delivered
=============================================================================
