# A verification project for UnixNet

UnixNet is a collection of small C programs about network programming on Linux:
echo servers built on every way of waiting the kernel offers (a process per
client, select, poll, epoll in both modes, libevent), two static web servers, UDP
and UNIX-domain chat programs, CGI programs with the JavaScript that calls them,
raw-socket tools and a logging library. Each program is its own executable;
nothing links them but shared source (`wrap.c`, `pub.c`). What they have in common
is the hard part: a kernel that reports readiness, clients that may do anything at
any moment, and C code that has to keep the two apart.

This directory holds TLA+ models of those programs, written from the C source, the
TLC configurations that check them, and TLAPS proofs of what matters most.

## 1. Inventory

| component | source | state | operations | hard part |
|---|---|---|---|---|
| Epoll web server | `WebServer/Epoll_Web/webServer.c`, `wrap.c` | epoll set, event batch, one static line buffer, reply under way | accept, read a line, parse, send a reply, drain | one static buffer for all clients; clients that leave or send in pieces; EAGAIN, reset, SIGPIPE at every call |
| Process-per-client echo | `TcpServerDemo/process_tcp_server.c` | signal mask and disposition, children, open descriptors | accept, fork, close, sigaction, handler, child's echo | SIGCHLD coalescing, handler interrupting main, inherited descriptors |
| epoll echo, level- and edge-triggered | `EPollDemo/*/demo02.c`, `demo03.c` | epoll set, batch | accept, read, echo, close | lost edges, abandoned batches, descriptor leak on error |
| poll echo | `PollDemo/pollDemo.c` | array of pollfd, `maxi` | accept into a free slot, read, echo, free the slot | stale `revents`, full table, blocking reads |
| select echo | `TcpServerDemo/selectFun.c`, `selectFunTeacher.c` | fd sets, `maxFd` | accept, read, echo, clear | result set against master set, FD_SETSIZE |
| Libevent web servers | `WebServer/Libevent_Web/webServer.c`, `WebServer/test/event_wb.c` | bufferevents | callbacks | output queued but freed before it is sent |
| Libevent echo servers | `Libevent/libeventServer.c`, `helloworld-change.c`, `myWwriteDemo.c`, `demo01.c` | table of fd/event, callbacks | accept, read, signal | table never shrinks; a read callback that reads once |
| UDP chat | `UdpServer/client.c`, `server.c` | none | send, wait for the answer | lost and stale answers, no timeout |
| UNIX-domain chat | `LocalSocket/*.c` | none | send, wait for the answer | an empty answer: both sides wait |
| CGI pages | `CGI协议/**` | one result field, outstanding requests | click, response | answers out of order; parsing |
| Log library | `WebServer/test/log.c` | open flag, FILE pointers | open, format, write, close | use after close, flag tests |
| pub.c | `WebServer/*/pub.c` | none | MIME types, URL decoding, get_line | boundary cases of decoding |
| Raw-socket tools, libnet, libpcap | `SockRaw原始套接字/*.c`, `libnetAndLibpcap网络库/**` | none | checksum, header parsing, ARP lookup, capture | byte order, precedence, carries, no retry |
| epoll pipe demo | `EPollDemo/demo01/test.c` | a pipe | parent waits, child writes | order of exit and read |
| Wrappers | `wrap.c` (one text in every directory) | static line buffer | read and write with retries, bind, listen, accept | parts, signals, TIME_WAIT |
| Relay | `Libevent/sample官方例程/le-proxy.c` | two partnered bufferevents | read, drained, finish, end | back pressure against flushing and ending |

Interaction: within a program everything runs in one thread (the fork server and
the pipe demo excepted), so the interleavings that matter are those with the clients
and the kernel; the fork server adds processes and a signal handler.

What makes each of them correct: bytes of one client are never taken for another's;
an event is handled for the client it was reported for; every connection the server
holds is watched, and every one it gives up is closed; an answer is complete or the
client is gone; the server gets back to waiting, and serves the other clients,
whatever one client does.

`PROJECT.json` lists every component with its status, and every hazard at its line.

## 2. Modules

```
Sockets            what the kernel and the clients do          (external)
 |-- EpollWeb      WebServer/Epoll_Web/webServer.c, wrap.c
 |-- EpollET       EPollDemo/epoll边缘触发/demo03.c
 `-- EchoSockets   Sockets with the direction back             (external)
      |-- EpollLT        EPollDemo/epoll水平触发/demo02.c
      |-- PollServer     PollDemo/pollDemo.c
      |-- SelectServer   TcpServerDemo/selectFun.c
      |-- SelectTeacher  TcpServerDemo/selectFunTeacher.c
      |-- WebDemo        WebServer/Epoll_Web/webdemo01.c
      `-- LibeventServer Libevent/libeventServer.c
ForkServer         TcpServerDemo/process_tcp_server.c
StreamService      what a server promises about its connections (abstract)
BufferEvents       bufferevents and the event loop             (external)
 |-- BevEcho       Libevent/helloworld-change.c, myWwriteDemo.c, hello-world.c
 `-- BevWeb        WebServer/Libevent_Web/webServer.c, WebServer/test/event_wb.c
LeProxy            Libevent/sample官方例程/le-proxy.c
UdpChat            UdpServer/client.c, server.c
UnixChat           LocalSocket/*.c
PipeDemo           EPollDemo/demo01/test.c
Wrap, Startup      wrap.c: the read and write functions; bind, listen, accept
FrameTools         udpMessage.c, analyzeMac.c, getMacAddr.c, libNetUdp.c, pcapRules.c
CgiPages           CGI协议/**
MsgLog             WebServer/test/log.c
PubHelpers         WebServer/*/pub.c
```

`MC<module>` gives a module small instances, `<module>Proofs` holds its theorems.
`MCLibevent` and `MCPrograms` hold several programs each: `program` says which one
runs, and all the others stand still, so one run checks each of them by itself.
A definition whose comment begins with "Slip:" is a deliberate mistake (a dropped
guard, a missing close). It is no part of `Next`; put in the place of the right
definition it shows that a property notices it (PROJECT.json, "mutants").

**Sockets** stands for the kernel: a table of descriptors handed out lowest first,
per connection its phase (`idle`, `queued` until accept(), `open`, `closed`), how
many units have arrived (`sent`) and been read (`taken`), and what the client did
to its end: `fin`, `rst` (a reset nobody has been told of), `broken` (a reset that
has been reported once, or a reset after a FIN: reads give end of file, a write
raises SIGPIPE). Clients connect, send, finish and reset at any moment.
**EchoSockets** adds the send buffer that makes a blocking write() wait.

**EpollWeb** is the event loop of `main()`, one action per step between two places
where a client may get in: waiting, taking an event, every unit `my_read()` hands
out, the three ways `Readline()` ends, parsing, every `send()` of `SendData()`, the
drain loop. The static buffer of `my_read()` is `rb`; a unit carries, as a ghost,
the connection and position it came from, and an event the connection the kernel
meant. Text is words: `"GET"`, a path, `"junk"` (a word without a blank behind it),
`"nl"`. A reply is counted in positions: one per header send(), one per unit of the
body. strtok() returning NULL and printf() of it is undefined behaviour: it crashes
(`ParseCrash`) or goes on. `cut` is a ghost, too: the connections a send() has failed
on, or has taken only part of a chunk, which the code does not look at.

**ForkServer** has the parent's `main()`, its signal handler, which interrupts it
between any two system calls and makes an accept() it meets fail with EINTR (`Again`),
and a child per connection. SIGCHLD is one pending
bit, dropped when it is unblocked and there is no handler. `held[c]` is the set of
processes that have the connection open.

**EpollET** has the kernel's ready list: an arrival puts a watched descriptor on it,
epoll_wait() takes it off. **EpollLT** has none: a descriptor is reported while it
is readable. **PollServer** keeps the pollfd array with its uninitialized
`revents`, `maxi` and `nready`, **SelectServer** `oldSet`, `rest`, `maxFd` and `n`.

**StreamService** promises: only what was sent is taken, in order, and a connection
is closed only when the client has ended it and everything has been taken; with
fairness, everybody is accepted, all data taken, every end noticed. The mapping is
the identity on the shared variables; `up` is "the program has not left".

**LibeventServer** keeps the table `FdArr` that `addEvent()` fills and `getEvent()`
searches. Nothing limits how many clients come, so the table overflows: `addEvent()`
answers -1, the new descriptor is in the tree and not in the table (`Lost`), and when
that client leaves, `getEvent()` runs off its end and what it returns is left to
chance: an event of the tree is deleted (`CfdcbEnd`), or the program crashes
(`CfdcbCrash`). It closes nothing, so it keeps only the part of StreamService that is
about data. **BufferEvents** stands for libevent: per connection an input and an
output buffer, `ReadEvent` with the read callback, `Drain`, and what an end or an
error does to programs that have an event callback and those that have none. Each
event runs its callback in the same step, since libevent does not let a client in
between. **BevEcho** has the three greeters, **BevWeb** the two web servers; a unit
of what a client receives names its source (greeting, header, page and part). In
event_wb.c the words that sscanf() fills in are not initialized and its result is not
looked at: what a segment does not give is any method and any page (`Scanned`), the
method of the request before, it may be, so the rest of a request may be answered a
second time. `RightPage` says what is left: a request in one segment gets the page it
names and nothing else, and otherwise that page comes first.

**LeProxy** counts bytes in the two buffers of either side; its callbacks are
deferred, so socket events and callbacks are separate actions and `pending` holds
what is due. `side` is `finish` while only the output is being flushed. The loop goes
round: it looks at the sockets, each read event once, and then runs every callback
that is due before it looks at them again (`calling`), which is what keeps a side from
being read twice for one read callback.

**UdpChat** and **UnixChat** are clients and server with the messages between them;
both may be killed and started again, datagrams may be lost. A line is a sequence of
characters in UdpChat, of any length: read() (client.c:44) fills the buffer to the
last byte and leaves the rest of the line for the next question, and a full buffer
has no end for strlen() and `%s`, which go on into whatever memory holds (`Behind`,
`Printed`). Where a buffer's old content shows through is the point there. **PipeDemo** counts messages and who holds the write end. **Wrap** is
one caller of one function against a trickling stream of numbered bytes, with
signals; **Startup** the servers that share a port, with TIME_WAIT. **FrameTools**
puts frames, sequences of 16-bit words, on a wire that every tool sees; the checksum
is computed as in the code, over the words in network order (the sum of the words
does not depend on the byte order). **CgiPages** keeps the questions of one page and
lets answers come in any order; an int is taken modulo its range (`Half`). A field is
what isNaN() lets through, with what `%d` makes of it: a whole number, one that is too
large, one of which it takes the start, one of which it takes nothing.
**MsgLog** keeps for each line which options stood in force, and as ghosts what
msgInit() told its caller and that msgLogClose() was called, **PubHelpers** works on
character codes.

What the kernel may choose is left open: which events a full batch has, how much
a fork child's read() returns, which queued connection accept() takes. An error of
read() other than EAGAIN and ECONNRESET does not occur on a connected TCP socket
without ICMP and is not modelled.

## 3. Runs

| run | specification | what it asks |
|---|---|---|
| `web_safety` | EpollWeb | static buffer, stale events, descriptors dropped, pages cut short, parts twice or out of order |
| `web_live` | EpollWeb, fair | a whole request is answered; the loop gets back to epoll_wait() |
| `web_drain` | EpollWeb, fair | the drain loop ends: it does not (finding 1) |
| `fork` | ForkServer, fair, clients leave | reaping, inherited descriptors, echo, every client gets a child though signals interrupt accept() |
| `fork_handler` | ForkServer, fair | the handler returns: it does not (finding 2) |
| `et` | EpollET, fair | no lost edge; implements StreamService with its liveness |
| `lt` | EpollLT, fair | read() never waits; only reset connections leak; an abandoned batch comes again; implements the safety of StreamService |
| `poll` | PollServer, fair | array and connections agree; Read() never waits; implements; everybody is served |
| `select` | SelectServer, fair | the same for the two sets |
| `libevent` | LibeventServer, BevEcho, BevWeb, fair | the table finds the right event; echoes and pages are whole and in order; clients are greeted, answered, let go |
| `libevent_pushed` | the same | the file of webServer.c is sent: it is not (finding 3) |
| `programs` | the twelve programs of `MCPrograms`, fair | see below |

The properties of `programs` are conjunctions of those of its modules, which state
and explain them: `StreamsKept` (both echo servers implement StreamService's
safety), `DataExact` (FrameTools.FrameRight, PubHelpers.LinkLeadsBack), `AnswersRight`
(UdpChat.PrintsWhole, UnixChat.BothWaitOnlyOnEmpty, CgiPages.ResultRight, Wrap.Exact,
PubHelpers.LineWhole, MsgLog.LinesMarked), `FailsOnlyToAnother` (Startup),
`Conversations` (UdpAnswered, LineAnswered, PipeDrained, Served of both servers),
`Bounded` and `Delivered` (LeProxy). A mutant of a part shows that the part can
fail.

Bounds. Two connections on two descriptors are enough for one client's bytes, event
or descriptor to meet another's, and for a descriptor to be reused while the other
is being handled; the echo servers have three connections, so that a number is
handed out again while two are busy, a lower slot is freed below a higher one, and
in `et`, `lt` and `select` two descriptors only, so that accept() also runs out of
them. Buffers hold one or two units against streams of two to four, so every
read() that empties a buffer, that leaves something, and that crosses a line end
occurs; `LineMax` cuts a line short. In `web_safety` the send buffer holds five positions,
which is enough for the error page and not for the file of seven in chunks of two: a
send() takes part of a chunk, one fails, and a page goes through without either. In
`web_live` it holds the file and not the directory page. A client that reads no
answers (`Lazy`) sends two units where the send buffer holds the answer to one, so that
the write() of the second stands (`Stalled`). `OpenMax = 3` lets the
pollfd array fill up. In `fork` two children can die behind one pending SIGCHLD
while a third lives. `MaxSent` and `Requests` bound what a client sends; nothing
else is cut off. Deadlock is not checked (`CHECK_DEADLOCK FALSE`) because the
servers may end, and wait for ever when all clients are idle. Only `web_safety`
uses symmetry, and it has no temporal property.

In `libevent` the table has three entries, one for the listener and two for three
clients; the third comes last (`OneTooMany`). A client of the greeters sends four units, a read event moves three of them and a callback takes two,
so that both leave something; a request comes whole or in two segments, cut anywhere,
with any method and path left on the stack. In `programs` the numbers are in the cfg and
in MCPrograms: `MaxOutput = 2` with reads of one unit and four units to relay, so
that a side is choked, drained to the watermark and ended while choked; a pipe of
two messages for three writes; a short line, an empty one, and one of four characters for a buffer of three;
calls of three bytes over a stream of four with one signal, so that parts, a signal
between parts and the end all meet; two servers on one port and one kill; words at
which the checksum has no carry, is 65535, and carries twice; ints from -4 to 3
(`Half = 4`), so that a sum overflows, with a number that is no int and fields of
which `%d` takes the start, or nothing; an entry whose link does not fit; lines ended
by CR LF, LF and CR and one longer than the buffer. What is cut off there:
`MaxKills`, `MaxStarts`, `MaxFrames`, `MaxClicks`, `MaxLines`, `MaxCalls`,
`MaxSignals`.

Fairness. `WF_vars(Server)`: the process is scheduled while it can run. It never
assumes that a blocked call returns. In ForkServer every process has its own.
Clients promise nothing, with two exceptions: the echo runs assume that a client
that reads its answers at all reads them some day (`Consume`; those in `Lazy`
never do, and the properties say the server then stands in write()), and `fork`
assumes that every client hangs up some day (`PassingSpec`), without which the
handler never returns.

The libevent programs have weak fairness per event: a round of the loop runs every
callback that is due, so an event that stays ready is not passed over for ever. In
`programs` the same holds for each deferred callback of LeProxy, for its sockets
(a peer that stays reads what it is sent, a connect succeeds or fails some day), and
for each process of the chats and the pipe. Nobody has to type, send, connect or be
killed.

What is not strong in a run: `Answered` and `BackToWait` count the end of the
service (a crash by SIGPIPE or strtok, an accept() that fails, the drain loop gone
round) as an end of the obligation, because the code does end there; each of those
is a hazard in PROJECT.json and the findings say which contradict the repository's
own words.

## 4. Findings

1. `web_drain`: the loop that throws the rest of a request away
   (`webServer.c:114-116`) runs while `Readline()` returns 0 or more, and at an end
   of file it returns 0 for ever. It is reached when the descriptor is still open at
   the drain, after a method other than GET or a reply given up for a send() that
   failed, and there is an end of file to read: behind the client's FIN, or behind a
   reset that the failed send() has reported already, as in TLC's trace. The server
   then serves nobody.
2. `fork_handler`: `Fun` (`process_tcp_server.c:18-25`) leaves its loop on -1 only.
   While one client is still connected waitpid() returns 0, and the parent goes
   round in the handler and accepts nobody, where the comment says it returns at
   once.

3. `libevent_pushed`: `sendFile()` (`Libevent_Web/webServer.c:272-297`) puts the
   file into the output buffer and `processingRequests()` frees the bufferevent in
   the same callback, which closes the socket and drops the buffer. The browser gets
   nothing of a page the log calls pushed. event_wb.c does not free there, and its
   pages arrive (`Answered`).

The first two are why `Over` and `PassingSpec` appear in the other properties. The code also
has behaviour that contradicts nothing written and is therefore only listed as a
hazard: the reset connections demo02.c leaks, a request line in two segments, a
directory page's tail, the connections the bufferevent web server keeps when it has
no answer (`PagesRight` says which), the wait of both sides of the UNIX chat after an
empty line, the UDP client's wait for a lost datagram and the late answer it takes
for another question after a restart, what a question of 1024 characters and more is
read together with, older results over newer ones on the asynchronous pages, `3+1.5`
shown as 4, the synchronous POST page that puts the operator into the address, where
boa finds no such program, so that it is never answered, the connections that a
failed send() of the epoll web server leaves open in the middle of a page, the second
answer event_wb.c may give to the rest of a request, and the event table that finds nothing
once it has overflown and may silence somebody else from then on.

One more thing does contradict the source's own words, and has no run of its own: the
comments at analyzeMac.c:58 and 79 say that source and destination port are parsed
("解析源端口和目的端口"), and what is printed for the destination is the source port plus
512 (the cast binds tighter than the `+`). `DstPort` computes what the code computes;
`FrameRight` speaks of the source port and the data only.

## 5. Proofs

TLAPS checks these for every number of clients, descriptors and buffer sizes.

- **EpollWebProofs**: `TypeOK`, `NoCrossTalk`, `FreshEvents`, `OpenIsWatched`. The static buffer is
  safe not because of anything in wrap.c but because every path of main() that
  reads goes through the drain loop, and that ends only on a read() of the kernel
  that fails, for which the buffer has to be empty. The invariant therefore says in
  which places the buffer may hold something and whose it is, and that `cur` is not
  in the rest of the batch. A batch stays fresh because a descriptor is only closed
  while its own event is handled, which is no longer in the batch. `OpenIsWatched`
  is proved for every state, not only between rounds (`WatchInv`): opening and
  watching, and giving up and closing, are one step each.
- **ForkServerProofs**: `TypeOK`, `NoLostReap`, `OwnChildOnly`, `EchoComplete`. A zombie's SIGCHLD
  is pending, or the handler runs; the strengthening is that SIGCHLD is blocked
  until the handler is installed, so Unblock never drops one. `EchoComplete` needs
  that fork() is called once for a client (`NewInv`) and what is on its way between
  read() and write() (`EchoInv`).
- **EpollETProofs**: `TypeOK`, `NoLostEdge`, `BatchIsOpen`, and the safety part of
  the refinement. The invariant (`EdgeInv`) accounts for every readable connection:
  it is on the ready list, in the batch, or being read.
- **SelectServerProofs**: `TypeOK`, `WatchesAll`, `ReadOnlyWhenReady` and the
  refinement `Implements`. What is left of `rest` ahead of the scan (`Ahead`) is
  open and readable: descriptors are closed behind the scan only, and a client
  cannot take back what has arrived.

- **PollServerProofs**: `TypeOK`, `SlotsMatch`, `ReadOnlyWhenReady` and the
  refinement `Implements`. The revents of a slot that accept() has just taken may
  hold anything, since poll() did not fill it in. The invariant says that there is a
  slot k such that all slots up to k that look ready are ready, and that nready is
  exactly their number (`Backed`): so nready reaches 0, and ends the scan, at k at the
  latest. What makes the counting go through is that one handled slot is one less
  (`Counting`, `ScanMoves`).
- **EpollLTProofs**: `TypeOK`, `ReadNeverBlocks`, `LeaksOnlyResets` and `Implements`.
  What is left of a batch is watched and readable (`BatchInv`), because the event at
  hand is not in it any more and only its own connection is read or closed.
- **LibeventServerProofs**: `TypeOK`, `GetEventRight` and `StreamKept`. The table is
  filled from the front, each descriptor is in it at most once and every open one with
  its own event unless it came when there was no entry left (`TableInv`). Entries are
  taken and never given back, so who was lost stays lost, and as long as nobody is, an
  event is only taken off the tree that belongs to a client that has ended
  (`DeletesEnded`, `HeardInv`). Here the leak of descriptors pays: none is given out
  twice. Nothing is assumed about how many clients come.

- **EpollWebProofs**, second part: `PageIntact`, for a client that asks once, whatever
  its send()s do. The invariant (`PageInv`) has two halves. `Kept` is the promise itself,
  with the ghost `cut`: what a client has is in order and without repetition; until a
  send() to it is cut or fails it has the positions from 1 on; and none is while the
  page fits and the client is there. `Stands` says, for each place of the loop, how a
  connection may stand there: never begun (`Fresh`), given up after a failed send()
  (`GivenUp`, `Later`: what is read from it now is behind the request, and asks for
  nothing), or in the middle of a reply whose pieces still to go lie behind everything
  that was sent (`OnPage`).
- **LibeventServerProofs**, second part, over MCLibevent: `PagesRight` and `EchoesRight`.
  `WebInv` follows one request from the browser through the input buffer to the reply
  queued or dropped (`Kept`). What has been queued is right for the method and page of
  the request line (`RightTo`), and a second answer, to whatever the stack makes of the
  rest, can only be behind it (`NextAnswer`: what comes behind a header is no part of
  the first answer any more). Of a request cut inside its request line nothing is said. `EchoInv` says
  that what is on the way to a client, in the order of the buffers it goes through
  (`Path`), is the greeting followed by what the client sent, and that the positions in
  it rise.
- **ProgramsProofs**, over MCPrograms: `FailsOnlyToAnother` (`PortsInv`: a program that
  binds has set SO_REUSEADDR), `Bounded` (`ProxyInv`), `AnswersRight` (`UdpInv`,
  `ChatInv`, `PagesInv`, `LogInv`, `PubInv`, `WrapInv`, one for each program) and the two
  refinements of `StreamsKept` (`StreamsInv`). `WrapInv` says where every byte is that
  has been read: given to the caller, in the caller's buffer or in the static one, in
  this order.

  `DataExact` (`RawInv`, `LinkInv`) is about sums and codecs that run through a whole
  sequence. `FoldedValue` computes what is left of a sum of 16-bit words after the two
  foldings of checksum(), `AddsUp` shows for every sum below 2^32, carry or not, that
  the sum and its checksum come to 0, and `ChecksumFits` that storing the checksum
  where a 0 was counted does just that; from there `FrameSeen` goes word by word through
  the frame. `LinkBack` follows strencode() and strdecode(): `Cut` says where each
  character of the name ended up in the link, and so also that a link is never cut
  inside an escape. Both are inductions over data. The library's induction theorems
  take an operator, which the provers cannot instantiate, so the module uses two lemmas
  of its own that need none: every nonempty set of naturals has a least element
  (`LeastOf`), and a function with a given first value and step exists (`Recursion`),
  which is what the recursive functions of FrameTools and PubHelpers come down to.

  The proof of `Bounded` corrected the model: without the rounds of the loop a read
  event could come while the callback of the one before was still due, and the output
  of a side then grew past the limit by as much as one likes. TLC's instance was too
  small to show it.

Each follows the same plan: an inductive `IInv`, `InitInv`, `ClientStep`,
`ServerStep` with one step per action, `NextInv`, `Invariance`. The assumptions are
those the modules state about their constants (`SocketsAssumption`,
`EpollWebAssumption`, `BevAssumption`, ...). They say what the code says: BUFSIZ and
MAXEVENT are not 0, a line buffer has room for more than a line end (`LineMax > 2`), a
read event of libevent takes 4096 bytes, more than a request line has (`ReadMax >= 3`,
the units of one), a relay reads less at once than its output may hold, the UDP
buffers are not empty, lines and what memory holds behind a buffer are sequences of
characters, `Half` is half the range of an int, a field of which `%d` takes nothing
leaves the 0 that was there, log options are made of words, and none of these is 0
(`LogAssumption`), addresses and ports are 16-bit words and a payload is at most the 128 bytes that
both senders read it into (`RawAssumption`), names are made of bytes and `%` is a
character that strencode() escapes (`PubAssumption`).

Every invariant that a passing run checks is also a theorem.

Liveness under fairness, and so the fair half of `et`'s refinement, stays with TLC:
`Answered`, `BackToWait`, `EventuallyReaped`, `EventuallyServed`, `Served`, `DataTaken`,
`Noticed`, `LetGo`, `Conversations`, `Delivered`.

## 6. Plan

1. *Done.* The two programs with the most control (EpollWeb, ForkServer), then the
   four echo servers against StreamService, and the first theorems.
2. *Done.* The libevent programs: the event table, then the bufferevent programs over
   an external model of a bufferevent.
3. *Done.* The small programs, side by side in one run, with the relay of the
   libevent samples.
4. *Done.* Proofs about PollServer, EpollLT and LibeventServer, OpenIsWatched of
   EpollWeb, EchoComplete of ForkServer.
5. *Done.* PageIntact of EpollWeb; the bufferevent programs; the programs of
   MCPrograms: the relay's bound, the answers, the frames and links, the
   refinements of SelectTeacher and WebDemo.

## 7. Not modelled

- SSL in le-proxy.c, and the HTTP, HTTPS and DNS samples of the libevent
  distribution: they are calls into libevent's own HTTP, DNS and SSL modules and no
  code of this repository's authors.
- `Libevent/demo01.c` (prints the back ends), `createDemo.c`, `pcapLoop.c`,
  `pcapNext.c`, the byte-order demos: no state and no choice.
- The two ARP senders: one constant frame, sent over and over. Its layout is
  `ArpFrame`.
- The time measurements at the end of log.c, and the text of log lines, pages and
  headers.
- `Connect()` and `Close()` of wrap.c, and errors that the kernel does not return on
  the descriptors at hand.
