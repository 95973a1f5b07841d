------------------------------ MODULE EpollWeb ------------------------------
(***************************************************************************)
(* The web server of WebServer/Epoll_Web: the event loop of main(), the    *)
(* line reader of wrap.c with its static buffer, and the replies of        *)
(* SendData().  One thread; what interleaves with it are the clients.      *)
(*                                                                         *)
(* A request is a sequence of units: "GET" and "POST" are a word with the  *)
(* blank after it, "junk" a word without one, "nl" the end of a line, and  *)
(* the rest are path names of the served directory.  req[c][k] is unit k   *)
(* of the stream of connection c; the program sees units, the ghost pair   *)
(* <<c, k>> remembers where one came from.                                 *)
(*                                                                         *)
(* A reply is a sequence of positions 1, 2, ...: each header send() is one *)
(* position, each unit of the body one more.                               *)
(***************************************************************************)
EXTENDS Sockets, Sequences

CONSTANTS
    LFd,        \* the listening descriptor
    Requests,   \* the request streams a client may send
    Pieces,     \* how many units may arrive at a time
    Impatient,  \* clients that may end a connection before the server does
    MaxEvents,  \* epoll_wait's array                      (1024 in the code)
    BufSize,    \* read_buf of my_read                     (100 bytes)
    LineMax,    \* buf of main()                           (1500 bytes)
    SndBuf,     \* the kernel's send buffer, in reply units
    ChunkSize,  \* buf of SendData(): one read() of the file (2048 bytes)
    FullChunks, \* how many whole chunks the served file has
    LastChunk,  \* and the size of the rest of it
    DirEntries, \* entries scandir() finds
    Shortage    \* accept() may fail for want of memory or files (ENOBUFS, ENFILE)

(* A line takes a word and a name. *)
ASSUME EpollWebAssumption ==
    /\ LFd \notin Fds
    /\ \A r \in Requests : r \in Seq(STRING)
    /\ Pieces \subseteq Nat \ {0}
    /\ Impatient \subseteq Conns
    /\ MaxEvents \in Nat \ {0} /\ BufSize \in Nat \ {0} /\ LineMax \in Nat /\ LineMax > 2
    /\ SndBuf \in Nat
    /\ ChunkSize \in Nat \ {0} /\ FullChunks \in Nat /\ LastChunk \in 1..ChunkSize
    /\ DirEntries \in Nat \ {0}
    /\ Shortage \in BOOLEAN

VARIABLES
    req,        \* req[c]: what the client of c will send in all
    resp,       \* resp[c]: reply positions the kernel accepted for c
    acked,      \* acked[c]: how many of them have left the send buffer
    cut,        \* clients to which a send() failed or took less than it was given
    pc,         \* where the server is
    evs,        \* events of this epoll_wait not handled yet
    cur,        \* the event being handled
    rb,         \* read_buf: units lo..hi of connection conn are unread
    line,       \* buf of main(): the line read so far
    tree,       \* descriptors in the epoll set (the listener apart)
    nonblock,   \* descriptors with O_NONBLOCK
    job         \* SendData under way

webVars == <<req, resp, acked, cut, pc, evs, cur, rb, line, tree, nonblock, job>>
vars == <<sockVars, webVars>>

(* An event carries the descriptor only; conn is a ghost: the connection   *)
(* the kernel meant when it reported the event.                            *)
Event == [fd : Fds \cup {LFd}, conn : Conns \cup {NoConn}]

ListenEvent == [fd |-> LFd, conn |-> NoConn]

Empty == [conn |-> NoConn, lo |-> 1, hi |-> 0]

NoJob == [todo |-> <<>>, close |-> FALSE]

Init ==
    /\ SockInit
    /\ req \in [Conns -> Requests]
    /\ resp = [c \in Conns |-> <<>>]
    /\ acked = [c \in Conns |-> 0]
    /\ cut = {}
    /\ pc = "wait"
    /\ evs = {}
    /\ cur = ListenEvent
    /\ rb = Empty
    /\ line = <<>>
    /\ tree = {}
    /\ nonblock = {}
    /\ job = NoJob

-----------------------------------------------------------------------------
(* The clients.                                                            *)

ClientConnect(c) ==
    /\ Connect(c)
    /\ UNCHANGED webVars

ClientSend(c) ==
    /\ \E n \in Pieces \cup {Len(req[c])} :
         /\ sent[c] + n <= Len(req[c]) /\ n > 0
         /\ n \in Pieces \/ sent[c] = 0
         /\ Deliver(c, n)
    /\ UNCHANGED webVars

ClientEnd(c) ==
    /\ c \in Impatient
    /\ Fin(c) \/ Abort(c)
    /\ UNCHANGED webVars

(* The peer's TCP takes what the send buffer holds. *)
Acknowledge(c) ==
    /\ phase[c] = "open" /\ end[c] \in {"none", "fin"}
    /\ acked[c] < Len(resp[c])
    /\ acked' = [acked EXCEPT ![c] = Len(resp[c])]
    /\ UNCHANGED <<sockVars, req, resp, cut, pc, evs, cur, rb, line, tree, nonblock, job>>

Client(c) == ClientConnect(c) \/ ClientSend(c) \/ ClientEnd(c) \/ Acknowledge(c)

-----------------------------------------------------------------------------
(* main(): waiting, accepting, starting on a client's event.               *)

Ready ==
    (IF Queued # {} THEN {ListenEvent} ELSE {})
      \cup {[fd |-> f, conn |-> fdtab[f]] : f \in {g \in tree : Readable(fdtab[g])}}

EpollWait ==
    /\ pc = "wait"
    /\ \E S \in SUBSET Ready :
         /\ S # {}
         /\ Cardinality(S) <= MaxEvents
         /\ S = Ready \/ Cardinality(S) = MaxEvents
         /\ evs' = S
    /\ pc' = "next"
    /\ UNCHANGED <<sockVars, req, resp, acked, cut, cur, rb, line, tree, nonblock, job>>

BatchDone ==
    /\ pc = "next" /\ evs = {}
    /\ pc' = "wait"
    /\ UNCHANGED <<sockVars, req, resp, acked, cut, evs, cur, rb, line, tree, nonblock, job>>

(* Slips: no descriptor put on the tree, O_NONBLOCK forgotten.             *)
AcceptWatching(watch(_), unblock(_)) ==
    /\ pc = "next" /\ ListenEvent \in evs
    /\ \E c \in Conns, f \in Fds :
         /\ AcceptConn(c, f)
         /\ tree' = tree \cup watch(f)
         /\ nonblock' = nonblock \cup unblock(f)
    /\ evs' = evs \ {ListenEvent}
    /\ UNCHANGED <<req, resp, acked, cut, pc, cur, rb, line, job>>

AcceptUnwatched == AcceptWatching(LAMBDA f : {}, LAMBDA f : {f})
AcceptBlocking == AcceptWatching(LAMBDA f : {f}, LAMBDA f : {})

AcceptEvent ==
    /\ pc = "next" /\ ListenEvent \in evs
    /\ \E c \in Conns, f \in Fds :
         /\ AcceptConn(c, f)
         /\ tree' = tree \cup {f}
         /\ nonblock' = nonblock \cup {f}
    /\ evs' = evs \ {ListenEvent}
    /\ UNCHANGED <<req, resp, acked, cut, pc, cur, rb, line, job>>

(* Accept() of wrap.c leaves the program when accept() fails: EMFILE, or   *)
(* a shortage.                                                             *)
AcceptFails ==
    /\ pc = "next" /\ ListenEvent \in evs
    /\ Free = {} \/ Shortage
    /\ pc' = "exit"
    /\ UNCHANGED <<sockVars, req, resp, acked, cut, evs, cur, rb, line, tree, nonblock, job>>

(* Slip: the loop goes on to the next event without leaving this one.      *)
StartEventAgain ==
    /\ pc = "next"
    /\ \E e \in evs : e.fd # LFd /\ cur' = e
    /\ line' = <<>>
    /\ pc' = "readline"
    /\ UNCHANGED <<sockVars, req, resp, acked, cut, evs, rb, tree, nonblock, job>>

StartEvent ==
    /\ pc = "next"
    /\ \E e \in evs :
         /\ e.fd # LFd
         /\ cur' = e
         /\ evs' = evs \ {e}
    /\ line' = <<>>
    /\ pc' = "readline"
    /\ UNCHANGED <<sockVars, req, resp, acked, cut, rb, tree, nonblock, job>>

-----------------------------------------------------------------------------
(* wrap.c: my_read() hands out one unit of the static buffer and refills   *)
(* it with one read() when it is empty; Readline() collects a line.        *)

Buffered == rb.lo <= rb.hi

Conn == fdtab[cur.fd]       \* NoConn once the descriptor is closed (EBADF)

(* my_read() = 1: the next unit is <<c, k>>. *)
GetUnit(c, k) ==
    IF Buffered
    THEN /\ c = rb.conn /\ k = rb.lo
         /\ rb' = [rb EXCEPT !.lo = k + 1]
         /\ UNCHANGED sockVars
    ELSE /\ c = Conn /\ c # NoConn
         /\ HasData(c)
         /\ k = taken[c] + 1
         /\ rb' = [conn |-> c, lo |-> k + 1, hi |-> taken[c] + ReadSize(c, BufSize)]
         /\ TakeData(c, ReadSize(c, BufSize))

(* my_read() = 0. *)
GetEof ==
    /\ ~Buffered
    /\ Conn # NoConn /\ AtEof(Conn)
    /\ UNCHANGED <<sockVars, rb>>

(* my_read() = -1: closed descriptor, reset, or nothing there and the      *)
(* descriptor does not block.                                              *)
GetError ==
    /\ ~Buffered
    /\ \/ /\ Conn = NoConn
          /\ UNCHANGED sockVars
       \/ /\ Conn # NoConn /\ HasError(Conn)
          /\ TakeError(Conn)
       \/ /\ Conn # NoConn /\ WouldBlock(Conn)
          /\ cur.fd \in nonblock
          /\ UNCHANGED sockVars
    /\ UNCHANGED rb

UnitOf(u) == req[u[1]][u[2]]

(* Readline() returns with this unit: a newline, or buf is full. *)
EndsLine(u) == UnitOf(u) = "nl" \/ Len(line) + 1 >= LineMax - 1

ReadRequestUnit ==
    /\ pc = "readline"
    /\ \E c \in Conns : \E k \in 1..Len(req[c]) :
         /\ GetUnit(c, k)
         /\ line' = Append(line, <<c, k>>)
         /\ pc' = IF EndsLine(<<c, k>>) THEN "parse" ELSE "readline"
    /\ UNCHANGED <<req, resp, acked, cut, evs, cur, tree, nonblock, job>>

(* End of file: what was read so far is the line; nothing read means that  *)
(* the client closed, and main() closes too.                               *)
ReadRequestEof ==
    /\ pc = "readline"
    /\ GetEof
    /\ line # <<>>
    /\ pc' = "parse"
    /\ UNCHANGED <<sockVars, req, resp, acked, cut, evs, cur, rb, line, tree, nonblock, job>>

ClientClosed ==
    /\ pc = "readline"
    /\ ~Buffered /\ AtEof(Conn)
    /\ line = <<>>
    /\ CloseFd(cur.fd)
    /\ tree' = tree \ {cur.fd} /\ nonblock' = nonblock \ {cur.fd}
    /\ pc' = "drain"
    /\ UNCHANGED <<req, resp, acked, cut, evs, cur, rb, line, job>>

(* Slip: off the tree, but not closed. *)
ErrorNotClosed ==
    /\ pc = "readline"
    /\ ~Buffered
    /\ HasError(Conn) \/ (WouldBlock(Conn) /\ cur.fd \in nonblock)
    /\ tree' = tree \ {cur.fd} /\ nonblock' = nonblock \ {cur.fd}
    /\ line' = <<>>
    /\ pc' = "drain"
    /\ UNCHANGED <<sockVars, req, resp, acked, cut, evs, cur, rb, job>>

(* Readline() = -1, EAGAIN in the middle of a line included: the units     *)
(* read so far are lost and main() closes the connection.                  *)
ReadRequestError ==
    /\ pc = "readline"
    /\ ~Buffered
    /\ HasError(Conn) \/ (WouldBlock(Conn) /\ cur.fd \in nonblock)
    /\ CloseFd(cur.fd)
    /\ tree' = tree \ {cur.fd} /\ nonblock' = nonblock \ {cur.fd}
    /\ line' = <<>>
    /\ pc' = "drain"
    /\ UNCHANGED <<req, resp, acked, cut, evs, cur, rb, job>>

-----------------------------------------------------------------------------
(* main(): strtok() of the line, and SendData() for GET.                   *)

(* Blanks end words: a unit other than "junk" and "nl" has one, and a path *)
(* has the protocol version behind it.                                     *)
Words == {"GET", "POST"}

HasName ==
    \E i \in 1..Len(line) :
        /\ UnitOf(line[i]) \notin {"junk", "nl"}
        /\ i < Len(line) \/ UnitOf(line[i]) \notin Words

IsGet == UnitOf(line[1]) = "GET"

Name == IF HasName THEN UnitOf(line[2]) ELSE "none"

HeaderLen == 3                      \* status, type, empty line
FileHeaderLen == HeaderLen + 1      \* and Content-length

FileLen == FullChunks * ChunkSize + LastChunk

(* One send(): the reply positions it carries, and whether SendData gives  *)
(* up when it fails.                                                       *)
Send(lo, len, must) == [lo |-> lo, len |-> len, must |-> must]

SendHeader(n) == [i \in 1..n |-> Send(i, 1, FALSE)]

(* Slip: one read() short, as sendFile() of Libevent_Web. *)
FileBodyShort ==
    [i \in 1..FullChunks |->
        Send(FileHeaderLen + (i - 1) * ChunkSize + 1, ChunkSize, TRUE)]

FileBody ==
    [i \in 1..(FullChunks + 1) |->
        Send(FileHeaderLen + (i - 1) * ChunkSize + 1,
             IF i <= FullChunks THEN ChunkSize ELSE LastChunk, TRUE)]

(* front.html, one send() per entry, and behind.html, of which the code    *)
(* sends num (the number of entries) bytes.                                *)
DirTail == HeaderLen + 1 + DirEntries

DirBody ==
    Append([i \in 1..(1 + DirEntries) |-> Send(HeaderLen + i, 1, FALSE)],
           Send(DirTail + 1, DirEntries, FALSE))

(* The sends of SendData() for a name, and whether it closes afterwards.   *)
(* "locked" and "lockeddir" exist but cannot be opened.                    *)
Reply(name) ==
    CASE name = "file"      -> [todo |-> SendHeader(FileHeaderLen) \o FileBody, close |-> TRUE]
      [] name = "locked"    -> [todo |-> SendHeader(FileHeaderLen), close |-> FALSE]
      [] name = "dir"       -> [todo |-> SendHeader(HeaderLen) \o DirBody, close |-> TRUE]
      [] name = "lockeddir" -> [todo |-> SendHeader(HeaderLen), close |-> FALSE]
      [] OTHER              -> [todo |-> SendHeader(HeaderLen + 1), close |-> TRUE]

ParseGet ==
    /\ pc = "parse"
    /\ IsGet
    /\ job' = Reply(Name)
    /\ line' = <<>>
    /\ pc' = "send"
    /\ UNCHANGED <<sockVars, req, resp, acked, cut, evs, cur, rb, tree, nonblock>>

ParseOther ==
    /\ pc = "parse"
    /\ ~IsGet
    /\ line' = <<>>
    /\ pc' = "drain"
    /\ UNCHANGED <<sockVars, req, resp, acked, cut, evs, cur, rb, tree, nonblock, job>>

(* No second word: fileName is NULL and is printed with %s.  Undefined: it *)
(* may crash, or print "(null)" and go on (ParseGet and ParseOther).       *)
ParseCrash ==
    /\ pc = "parse"
    /\ ~HasName
    /\ pc' = "dead"
    /\ UNCHANGED <<sockVars, req, resp, acked, cut, evs, cur, rb, line, tree, nonblock, job>>

-----------------------------------------------------------------------------
(* SendData(): one send() a step.                                          *)

Room(c) == SndBuf - (Len(resp[c]) - acked[c])

Positions(lo, n) == [i \in 1..n |-> lo + i - 1]

SendPiece ==
    /\ pc = "send" /\ job.todo # <<>>
    /\ end[Conn] \in {"none", "fin"} /\ Room(Conn) > 0
    /\ LET p == Head(job.todo)
           n == IF Room(Conn) < p.len THEN Room(Conn) ELSE p.len
       IN /\ resp' = [resp EXCEPT ![Conn] = @ \o Positions(p.lo, n)]
          /\ cut' = IF n < p.len THEN cut \cup {Conn} ELSE cut
    /\ job' = [job EXCEPT !.todo = Tail(@)]
    /\ UNCHANGED <<sockVars, req, acked, pc, evs, cur, rb, line, tree, nonblock>>

(* send() = -1: full buffer or a reset not reported yet.  The file loop    *)
(* gives up and leaves the connection open; every other send is unchecked. *)
SendFails ==
    /\ pc = "send" /\ job.todo # <<>>
    /\ \/ end[Conn] = "rst"
       \/ end[Conn] \in {"none", "fin"} /\ Room(Conn) <= 0 /\ cur.fd \in nonblock
    /\ TakeError(Conn)
    /\ cut' = cut \cup {Conn}
    /\ job' = IF Head(job.todo).must
              THEN [todo |-> <<>>, close |-> FALSE]
              ELSE [job EXCEPT !.todo = Tail(@)]
    /\ UNCHANGED <<req, resp, acked, pc, evs, cur, rb, line, tree, nonblock>>

(* SIGPIPE is not handled: writing to a broken connection ends the server. *)
SendSigpipe ==
    /\ pc = "send" /\ job.todo # <<>>
    /\ end[Conn] = "broken"
    /\ pc' = "dead"
    /\ UNCHANGED <<sockVars, req, resp, acked, cut, evs, cur, rb, line, tree, nonblock, job>>

(* close(cfd), which also takes it out of the epoll set; the EPOLL_CTL_DEL *)
(* after it fails with EBADF.                                              *)
SendDone ==
    /\ pc = "send" /\ job.todo = <<>>
    /\ IF job.close
       THEN /\ CloseFd(cur.fd)
            /\ tree' = tree \ {cur.fd} /\ nonblock' = nonblock \ {cur.fd}
       ELSE UNCHANGED <<sockVars, tree, nonblock>>
    /\ job' = NoJob
    /\ pc' = "drain"
    /\ UNCHANGED <<req, resp, acked, cut, evs, cur, rb, line>>

-----------------------------------------------------------------------------
(* while (Readline(...) >= 0) ; -- whatever branch the event took.         *)

DrainUnit ==
    /\ pc = "drain"
    /\ \E c \in Conns : \E k \in 1..Len(req[c]) :
         /\ GetUnit(c, k)
         /\ line' = IF EndsLine(<<c, k>>) THEN <<>> ELSE Append(line, <<c, k>>)
    /\ UNCHANGED <<req, resp, acked, cut, pc, evs, cur, tree, nonblock, job>>

(* Readline() >= 0 at end of file: around again. *)
DrainEof ==
    /\ pc = "drain"
    /\ GetEof
    /\ line' = <<>>
    /\ UNCHANGED <<sockVars, req, resp, acked, cut, pc, evs, cur, rb, tree, nonblock, job>>

(* Slip: one Readline() instead of the loop. *)
DrainOnce ==
    /\ pc = "drain"
    /\ line' = <<>>
    /\ pc' = "next"
    /\ UNCHANGED <<sockVars, req, resp, acked, cut, evs, cur, rb, tree, nonblock, job>>

DrainDone ==
    /\ pc = "drain"
    /\ GetError
    /\ line' = <<>>
    /\ pc' = "next"
    /\ UNCHANGED <<req, resp, acked, cut, evs, cur, tree, nonblock, job>>

-----------------------------------------------------------------------------
Server ==
    \/ EpollWait \/ BatchDone \/ AcceptEvent \/ AcceptFails \/ StartEvent
    \/ ReadRequestUnit \/ ReadRequestEof \/ ClientClosed \/ ReadRequestError
    \/ ParseGet \/ ParseOther \/ ParseCrash
    \/ SendPiece \/ SendFails \/ SendSigpipe \/ SendDone
    \/ DrainUnit \/ DrainEof \/ DrainDone

Next == Server \/ \E c \in Conns : Client(c)

Spec == Init /\ [][Next]_vars

(* The scheduler runs the server whenever it can run; the clients promise  *)
(* nothing.                                                                *)
FairSpec == Spec /\ WF_vars(Server)

-----------------------------------------------------------------------------
(* Properties.                                                             *)

Piece == [lo : Nat, len : Nat, must : BOOLEAN]

(* The type invariant. *)
TypeOK ==
    /\ SockTypeOK
    /\ req \in [Conns -> Requests]
    /\ resp \in [Conns -> Seq(Nat)]
    /\ acked \in [Conns -> Nat] /\ cut \subseteq Conns
    /\ pc \in {"wait", "next", "readline", "parse", "send", "drain", "dead", "exit"}
    /\ evs \subseteq Event
    /\ cur \in Event
    /\ rb \in [conn : Conns \cup {NoConn}, lo : Nat, hi : Nat]
    /\ line \in Seq(Conns \X Nat)
    /\ tree \subseteq Fds /\ nonblock \subseteq Fds
    /\ job \in [todo : Seq(Piece), close : BOOLEAN]

Handling == pc \in {"readline", "parse", "send", "drain", "dead"}

(* my_read() keeps its bytes in one static buffer for all descriptors      *)
(* (wrap.c:156-158).  Still, a line never holds bytes of another client    *)
(* than the one whose event is handled, and the buffer is empty before     *)
(* main() turns to the next event: the drain loop (webServer.c:115) sees   *)
(* to it.                                                                  *)
NoCrossTalk ==
    /\ \A i \in 1..Len(line) : line[i][1] = cur.conn
    /\ Buffered => Handling /\ rb.conn = cur.conn

(* epoll_wait() reports descriptors, and the batch is worked off while     *)
(* descriptors are closed and handed out again by accept(): an event still *)
(* to be handled always means the client it was reported for.              *)
FreshEvents == \A e \in evs : e.fd # LFd => fdtab[e.fd] = e.conn

(* Between two rounds every connection the server holds open is watched    *)
(* and non-blocking, and nothing else is: no path of main() or SendData()  *)
(* drops a descriptor without closing it.                                  *)
OpenIsWatched == pc = "wait" => tree = OpenFds /\ nonblock = OpenFds

Asks(c, name) == Len(req[c]) >= 2 /\ req[c][1] = "GET" /\ req[c][2] = name

(* What SendData() means a client to get for a name. *)
Page(name) ==
    Positions(1, IF name = "file" THEN FileHeaderLen + FileLen ELSE HeaderLen + 1)

AsksOnce(c, name) == Asks(c, name) /\ \A k \in 3..Len(req[c]) : req[c][k] # "GET"

Rising(s) == \A i, j \in DOMAIN s : i < j => s[i] < s[j]

(* Of a file or an error page a client's TCP gets no part twice and none   *)
(* out of order, whatever fails: SendData() does not look at what most of  *)
(* its send()s return, goes on behind a part that was not taken, and gives *)
(* up in the middle of a file (webServer.c:123-217).  As long as no send() *)
(* was cut or failed, the client has the start of the page; its connection *)
(* is closed on the whole page only, and left open by nothing that was     *)
(* read.  And none is cut of a page that fits the send buffer, until the   *)
(* client breaks off.  (A client that asks again on a connection given up  *)
(* gets the second page right behind the part of the first.)               *)
PageIntact ==
    \A c \in Conns, name \in {"file", "gone"} : AsksOnce(c, name) =>
        /\ Rising(resp[c])
        /\ c \notin cut =>
             /\ resp[c] = Positions(1, Len(resp[c])) /\ Len(resp[c]) <= Len(Page(name))
             /\ phase[c] = "closed" /\ taken[c] >= 2 /\ resp[c] # <<>> => resp[c] = Page(name)
             /\ phase[c] = "open" /\ pc = "wait" => taken[c] = 0
        /\ Len(Page(name)) <= SndBuf /\ end[c] \in {"none", "fin"} => c \notin cut

(* The end of the service: the server has left, was killed, or goes round  *)
(* and round in the drain loop at an end of file.                          *)
Over == pc \in {"exit", "dead"} \/ (pc = "drain" /\ Conn # NoConn /\ AtEof(Conn))

(* A client whose request is all there when it is accepted gets the page   *)
(* it asks for, in full, whatever the others do -- or breaks off itself,   *)
(* or the service is over.                                                 *)
Answered ==
    \A c \in Conns, name \in {"file", "gone"} :
        (/\ phase[c] = "queued" /\ sent[c] = Len(req[c])
         /\ Asks(c, name) /\ Len(Page(name)) <= SndBuf)
            ~> (resp[c] = Page(name) \/ end[c] \in {"rst", "broken"} \/ Over)

(* Handling one client's event ends: unless the service is over, the loop  *)
(* gets back to epoll_wait(), where the other clients are.                 *)
BackToWait == []<>(pc = "wait" \/ Over)

(* The comment of the drain loop (webServer.c:114, "throw the rest of the  *)
(* data away"): it ends.                                                   *)
DrainEnds == (pc = "drain") ~> (pc # "drain")
=============================================================================
