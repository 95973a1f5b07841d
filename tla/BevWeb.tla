------------------------------- MODULE BevWeb -------------------------------
(***************************************************************************)
(* Two web servers over bufferevents: event_wb.c, which leaves the         *)
(* connection to the client, and Libevent_Web/webServer.c, which frees the *)
(* bufferevent as soon as the answer is queued.                            *)
(***************************************************************************)
EXTENDS BufferEvents, SequencesExt

CONSTANTS
    Browsers,   \* the clients that come
    Methods,    \* what clients put in front of their requests
    FileSize,   \* units of the file, as sendFile() reads them (5060 bytes)
    DirSize     \* st_size of a directory, in the same units

WebPrograms == {"webserver", "event_wb"}

(* What stat() and open() make of a path: a file, one that cannot be       *)
(* opened, a directory, one that cannot be opened, nothing, something else.*)
Pages == {"file", "locked", "dir", "lockeddir", "gone", "fifo"}

(* A request in the pieces a segment may end behind; n of them come first. *)
Request(m, p, n) == << <<"method", m, n>>, <<"path", p>>, <<"rest", p>> >>

(* webServer.c returns without a listener; event_wb.c finds nothing to     *)
(* loop for.                                                               *)
WebMain     == program = "webserver" /\ loop \in {"running", "down"}
EventWbMain == program = "event_wb"  /\ loop \in {"running", "down"}

Init == BevInit /\ (WebMain \/ EventWbMain)

(* One request a client, whole or in two segments.                         *)
Client(c) ==
    \/ Connect(c) \/ Leave(c)
    \/ \E m \in Methods, p \in Pages, n \in 1..3 :
         /\ sent[c] = <<>>
         /\ Send(c, SubSeq(Request(m, p, n), 1, n))
    \/ \E p \in Pages :
         /\ Len(sent[c]) \in {1, 2}
         /\ Len(sent[c]) = 2 => sent[c][2][2] = p
         /\ Send(c, SubSeq(Request("none", p, 0), Len(sent[c]) + 1, 3))

-----------------------------------------------------------------------------
(* sscanf() over what one bufferevent_read() returned: method and path.    *)

(* event_wb.c: both are uninitialized and the result is not looked at.  A  *)
(* segment that ends behind the method leaves the path as it was on the    *)
(* stack; one that begins in the middle of a request has another word for  *)
(* its method, or, if that is a blank, leaves both as they were, the       *)
(* method of the last request it may be.                                   *)
Scanned(s) ==
    IF s[1][1] = "method"
    THEN {s[1][2]} \X (IF Len(s) > 1 THEN {s[2][2]} ELSE Pages)
    ELSE (Methods \cup {"none"}) \X Pages

(* webServer.c: both are empty before.  An empty path is the root.         *)
ScannedClear(s) ==
    IF s[1][1] = "method" THEN <<s[1][2], IF Len(s) > 1 THEN s[2][2] ELSE "dir">>
                          ELSE <<"none", "dir">>

Header(code, n) == << <<"head", code, n>> >>

(* Content-Length left out.                                                *)
NoLength == -1

Part(p, n) == [k \in 1..n |-> <<"body", p, k>>]

-----------------------------------------------------------------------------
(* event_wb.c                                                              *)

(* Slip: one read() and one write. *)
CopyFileOnce(p) == IF p = "locked" THEN <<>> ELSE Part(p, 1)

(* copy_file(): nothing if it cannot be opened.                            *)
CopyFile(p) == IF p = "locked" THEN <<>> ELSE Part(p, FileSize)

SendDir(p) == Part("front", 1) \o (IF p = "lockeddir" THEN <<>> ELSE Part(p, 1) \o Part("tail", 1))

HttpRequest(p) ==
    CASE p = "gone" -> Header(404, NoLength) \o CopyFile("error")
      [] p \in {"dir", "lockeddir"} -> Header(200, DirSize) \o SendDir(p)
      [] p \in {"file", "locked"} -> Header(200, FileSize) \o CopyFile(p)
      [] p = "fifo" -> <<>>

ListenCb(c) == program = "event_wb" /\ NewBev(c, TRUE, <<>>)

(* Slip: the method is not looked at. *)
ReadCbAnyMethod(c) ==
    /\ program = "event_wb" /\ CanRead(c)
    /\ \E r \in Scanned(Input(c)) : ReadEvent(c, <<>>, HttpRequest(r[2]))

(* strcasecmp().                                                           *)
ReadCb(c) ==
    /\ program = "event_wb" /\ CanRead(c)
    /\ \E r \in Scanned(Input(c)) :
          ReadEvent(c, <<>>, IF r[1] \in {"GET", "get"} THEN HttpRequest(r[2]) ELSE <<>>)

(* Slip: an error is not the end of a client. *)
BeventCbEofOnly(c) ==
    /\ program = "event_wb"
    /\ IF peer[c] = "fin" THEN EndFrees(c) ELSE EndIgnored(c) \/ WriteIgnored(c)

BeventCb(c) == program = "event_wb" /\ (EndFrees(c) \/ WriteFrees(c))

-----------------------------------------------------------------------------
(* Libevent_Web/webServer.c                                                *)

(* sendFile(): one read() and one write, 5060 bytes at most.               *)
SendFile(p) == IF p = "locked" THEN <<>> ELSE Part(p, 1)

SendHeader(code, n) == Header(code, IF n > 0 THEN n ELSE NoLength)

ListenerCb(c) == program = "webserver" /\ NewBev(c, TRUE, <<>>)

(* The answer is queued, and goes with the bufferevent.  A directory that  *)
(* cannot be scanned is left with its front queued, anything else than a   *)
(* file or directory with nothing.                                         *)
ReadCbGet(c, p) ==
    IF p \in {"file", "locked", "dir", "gone"}
    THEN ReadAndFree(c)
    ELSE ReadEvent(c, <<>>,
           IF p = "lockeddir" THEN SendHeader(200, 0) \o SendFile("front") ELSE <<>>)

WebReadCb(c) ==
    /\ program = "webserver" /\ CanRead(c)
    /\ LET r == ScannedClear(Input(c))
       IN  IF r[1] = "GET" THEN ReadCbGet(c, r[2]) ELSE ReadEvent(c, <<>>, <<>>)

(* bufferevent_setcb(bev, read_cb, NULL, NULL, base): nobody is told.      *)
NoEventCb(c) == program = "webserver" /\ (EndIgnored(c) \/ WriteIgnored(c))

-----------------------------------------------------------------------------
Listening(c) == ListenCb(c) \/ ListenerCb(c)
Reading(c) == ReadCb(c) \/ WebReadCb(c)
Ending(c) == BeventCb(c) \/ NoEventCb(c)
Writing(c) == Drain(c) \/ Sigpipe(c)

Next == \E c \in Browsers :
    Client(c) \/ Listening(c) \/ Reading(c) \/ Ending(c) \/ Writing(c)

-----------------------------------------------------------------------------
(* Properties.                                                             *)

(* The request line comes in the first segment: read_cb() forgets a line   *)
(* it has seen the half of.                                                *)
WholeLine(c) == sent[c][1][3] > 1

Asked(c, m, p) == sent[c] # <<>> /\ sent[c][1][2] = m /\ WholeLine(c) /\ sent[c][2][2] = p

(* What a browser may be shown for each path, and under which status.      *)
Shown(p) == CASE p \in {"file", "locked"} -> {"file"}
              [] p \in {"dir", "lockeddir"} -> {"front", p, "tail"}
              [] p = "gone" -> {"error"}
              [] p = "fifo" -> {}

(* The whole request comes in one segment.                                 *)
OneSegment(c) == sent[c][1][3] = 3

(* The units of s in front of the header of a second answer.               *)
FirstAnswer(s) == {k \in 1..Len(s) : \A j \in 2..k : s[j][1] # "head"}

(* event_wb.c answers a request that comes in one segment with the page it *)
(* names, a header in front of it and nothing behind it, and answers no    *)
(* other method.  If the rest of the request comes in a segment of its     *)
(* own, the page is still the first thing the browser gets; an answer to   *)
(* that rest, read with the method and path left on the stack              *)
(* (event_wb.c:116), can only come behind it.                              *)
RightPage ==
    program = "event_wb" => \A c \in Browsers, m \in Methods, p \in Pages :
        LET s == got[c] \o output[c]
        IN  /\ Asked(c, m, p) /\ OneSegment(c) /\ s # <<>> =>
                 m \in {"GET", "get"} /\ FirstAnswer(s) = 1..Len(s)
            /\ Asked(c, m, p) /\ m \in {"GET", "get"} /\ (p = "fifo" => OneSegment(c)) =>
                 \A k \in FirstAnswer(s) :
                    IF k = 1 THEN s[1][1] = "head" /\ (s[1][2] = 404 <=> p = "gone")
                             ELSE s[k][1] = "body" /\ s[k][2] \in Shown(p)

(* webServer.c gives its bufferevents no event callback                    *)
(* (Libevent_Web/webServer.c:78): one whose client has left stays for      *)
(* ever.  That happens only to those it never answered in full.            *)
LeaksUnanswered ==
    program = "webserver" => \A c \in Browsers, p \in Pages :
        conn[c] = "open" /\ ~reading[c] /\ Asked(c, "GET", p) => p \in {"lockeddir", "fifo"}

(* "The file has been pushed" (Libevent_Web/webServer.c:293): a client     *)
(* that is let go after the file was queued has received some of it.       *)
FilePushed ==
    program = "webserver" => \A c \in Browsers :
        conn[c] = "freed" /\ Asked(c, "GET", "file") => got[c] # <<>>

(* A browser knows the end of the page: all the header announced is there. *)
Complete(s) == s # <<>> /\ s[1][1] = "head" /\ s[1][3] # NoLength /\ Len(s) > s[1][3]

(* event_wb.c sends a readable file to the last byte the header announced, *)
(* however large (copy_file() reads to the end of file), unless the client *)
(* leaves or SIGPIPE ends the server.                                      *)
FileArrives ==
    \A c \in Browsers :
        (program = "event_wb" /\ conn[c] = "open" /\ Asked(c, "get", "file"))
            ~> (Complete(got[c]) \/ peer[c] # "none" \/ ~Live)

(* ... and whoever leaves it is let go.                                    *)
LetGo ==
    \A c \in Browsers :
        (program = "event_wb" /\ conn[c] = "open" /\ peer[c] # "none")
            ~> (conn[c] = "freed" \/ ~Live)
=============================================================================
