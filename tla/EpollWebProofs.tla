--------------------------- MODULE EpollWebProofs ---------------------------
(***************************************************************************)
(* For every number of clients and descriptors, and every buffer size: the *)
(* types, NoCrossTalk, FreshEvents, OpenIsWatched and PageIntact of        *)
(* EpollWeb.                                                               *)
(***************************************************************************)
EXTENDS EpollWeb, SequenceTheorems, TLAPS

(* What the loop knows about the event it handles: the descriptor is the   *)
(* client's until it is closed, and no other event of the batch names it.  *)
CurInv ==
    pc \in {"readline", "parse", "send", "drain"} =>
        /\ cur.fd \in Fds /\ cur.conn \in Conns
        /\ fdtab[cur.fd] = cur.conn \/ (pc = "drain" /\ fdtab[cur.fd] = NoConn)
        /\ \A e \in evs : e.fd # cur.fd

(* Events of clients name connections; the tree holds open descriptors.    *)
EventInv ==
    /\ \A e \in evs : e.fd # LFd => e.conn # NoConn
    /\ \A f \in tree : fdtab[f] # NoConn

IInv == TypeOK /\ NoCrossTalk /\ FreshEvents /\ CurInv /\ EventInv

-----------------------------------------------------------------------------
(* Every reply of SendData() is a sequence of sends.                       *)
LEMMA ReplyType ==
    ASSUME NEW name
    PROVE  Reply(name) \in [todo : Seq(Piece), close : BOOLEAN]
<1>1. /\ FullChunks \in Nat /\ ChunkSize \in Nat /\ LastChunk \in Nat
      /\ DirEntries \in Nat /\ FullChunks + 1 \in Nat /\ DirEntries + 1 \in Nat
  BY EpollWebAssumption
<1>2. \A n \in Nat : SendHeader(n) \in Seq(Piece)
  BY DEF SendHeader, Send, Piece
<1>3. FileBody \in Seq(Piece)
  <2>1. \A i \in 1..(FullChunks + 1) : (i - 1) * ChunkSize \in Nat
    BY <1>1
  <2>2. \A i \in 1..(FullChunks + 1) :
          Send(FileHeaderLen + (i - 1) * ChunkSize + 1,
               IF i <= FullChunks THEN ChunkSize ELSE LastChunk, TRUE) \in Piece
    BY <1>1, <2>1 DEF Send, Piece, FileHeaderLen, HeaderLen
  <2>3. FileBody \in [1..(FullChunks + 1) -> Piece]
    BY <2>2 DEF FileBody
  <2> QED BY <1>1, <2>3
<1>4. DirBody \in Seq(Piece)
  <2>1. [i \in 1..(1 + DirEntries) |-> Send(HeaderLen + i, 1, FALSE)] \in Seq(Piece)
    BY <1>1 DEF Send, Piece, HeaderLen
  <2>2. Send(DirTail + 1, DirEntries, FALSE) \in Piece
    BY <1>1 DEF Send, Piece, DirTail, HeaderLen
  <2>3. \A s \in Seq(Piece), p \in Piece : Append(s, p) \in Seq(Piece)
    OBVIOUS
  <2> QED BY <2>1, <2>2, <2>3, Zenon DEF DirBody
<1>5. HeaderLen \in Nat /\ FileHeaderLen \in Nat /\ HeaderLen + 1 \in Nat
  BY DEF HeaderLen, FileHeaderLen
<1> QED BY <1>2, <1>3, <1>4, <1>5 DEF Reply

(* The invariant holds initially. *)
LEMMA InitInv == Init => IInv
BY SocketsAssumption, EpollWebAssumption
   DEF Init, SockInit, IInv, TypeOK, SockTypeOK, Phases, Ends, NoCrossTalk, FreshEvents,
       CurInv, EventInv, Buffered, Empty, ListenEvent, NoJob, Event, Handling, Piece

-----------------------------------------------------------------------------
(* my_read(): the unit handed out comes from the client of the event, and  *)
(* what stays in read_buf is that client's too.                            *)
LEMMA GetUnitInv ==
    ASSUME IInv, pc \in {"readline", "drain"},
           NEW c \in Conns, NEW k \in 1..Len(req[c]), GetUnit(c, k)
    PROVE  /\ c = cur.conn /\ k \in Nat
           /\ rb' \in [conn : Conns \cup {NoConn}, lo : Nat, hi : Nat]
           /\ rb'.lo <= rb'.hi => rb'.conn = cur.conn
           /\ taken' \in [Conns -> Nat]
           /\ UNCHANGED <<phase, sent, end, fdtab>>
<1>0. /\ rb \in [conn : Conns \cup {NoConn}, lo : Nat, hi : Nat]
      /\ taken \in [Conns -> Nat] /\ sent \in [Conns -> Nat]
      /\ req[c] \in Seq(STRING) /\ BufSize \in Nat
  BY EpollWebAssumption DEF IInv, TypeOK, SockTypeOK
<1>1. k \in Nat
  BY <1>0
<1>2. CASE Buffered
  BY <1>0, <1>1, <1>2 DEF IInv, NoCrossTalk, GetUnit, sockVars, Buffered
<1>3. CASE ~Buffered
  <2>1. /\ c = fdtab[cur.fd] /\ c # NoConn /\ k = taken[c] + 1 /\ HasData(c)
        /\ rb' = [conn |-> c, lo |-> k + 1, hi |-> taken[c] + ReadSize(c, BufSize)]
        /\ TakeData(c, ReadSize(c, BufSize))
    BY <1>3 DEF GetUnit, Conn
  <2>2. c = cur.conn
    BY <2>1 DEF IInv, CurInv
  <2>3. ReadSize(c, BufSize) \in Nat
    BY <1>0, <2>1 DEF ReadSize, HasData, Avail
  <2>4. rb' \in [conn : Conns \cup {NoConn}, lo : Nat, hi : Nat]
    <3>1. k + 1 \in Nat /\ taken[c] + ReadSize(c, BufSize) \in Nat
      BY <1>0, <1>1, <2>3
    <3> QED BY <2>1, <3>1
  <2>5. rb'.conn = c
    BY <2>1
  <2>6. taken' \in [Conns -> Nat] /\ UNCHANGED <<phase, sent, end, fdtab>>
    <3>1. \A x \in Nat, y \in Nat : x + y \in Nat
      OBVIOUS
    <3> QED BY <1>0, <2>1, <2>3, <3>1 DEF TakeData
  <2> QED BY <1>1, <2>2, <2>4, <2>5, <2>6
<1> QED BY <1>2, <1>3

(* Every step keeps the types. *)
LEMMA TypeStep == ASSUME IInv, Next PROVE TypeOK'
<1> USE SocketsAssumption, EpollWebAssumption
    DEF TypeOK, webVars
<1>0. TypeOK /\ CurInv
  BY DEF IInv
<1>s. UNCHANGED sockVars => SockTypeOK'
  BY <1>0 DEF SockTypeOK, sockVars
<1> USE <1>0, <1>s
<1>a. \A c \in Conns : req[c] \in Seq(STRING) /\ Len(req[c]) \in Nat /\ Len(resp[c]) \in Nat
  OBVIOUS
<1>1. ASSUME NEW c \in Conns, ClientConnect(c) PROVE TypeOK'
  BY <1>1 DEF SockTypeOK, ClientConnect, Connect, Phases
<1>2. ASSUME NEW c \in Conns, ClientSend(c) PROVE TypeOK'
  <2>1. PICK n \in Pieces \cup {Len(req[c])} : Deliver(c, n)
    BY <1>2 DEF ClientSend
  <2>2. n \in Nat
    BY <1>a
  <2>3. sent' \in [Conns -> Nat]
    BY <2>1, <2>2 DEF SockTypeOK, Deliver
  <2>4. SockTypeOK'
    BY <2>1, <2>3 DEF SockTypeOK, Deliver
  <2> QED BY <1>2, <2>4 DEF ClientSend
<1>3. ASSUME NEW c \in Conns, ClientEnd(c) PROVE TypeOK'
  BY <1>3 DEF SockTypeOK, ClientEnd, Fin, Abort, Ends
<1>4. ASSUME NEW c \in Conns, Acknowledge(c) PROVE TypeOK'
  BY <1>4, <1>a DEF Acknowledge
<1>5. CASE EpollWait
  <2>1. Ready \subseteq Event
    <3>1. ListenEvent \in Event
      BY DEF ListenEvent, Event
    <3>2. \A f \in tree : [fd |-> f, conn |-> fdtab[f]] \in Event
      BY DEF Event, SockTypeOK
    <3> QED BY <3>1, <3>2 DEF Ready
  <2> QED BY <1>5, <2>1 DEF EpollWait
<1>6. CASE BatchDone
  BY <1>6 DEF BatchDone
<1>7. CASE AcceptEvent
  <2>1. PICK c \in Conns, f \in Fds :
          AcceptConn(c, f) /\ tree' = tree \cup {f} /\ nonblock' = nonblock \cup {f}
    BY <1>7 DEF AcceptEvent
  <2>2. SockTypeOK'
    BY <2>1 DEF SockTypeOK, AcceptConn, Phases
  <2>3. /\ UNCHANGED <<req, resp, acked, cut, pc, cur, rb, line, job>>
        /\ evs' \subseteq evs
    BY <1>7 DEF AcceptEvent
  <2> QED BY <2>1, <2>2, <2>3
<1>8. CASE AcceptFails
  BY <1>8 DEF AcceptFails
<1>9. CASE StartEvent
  BY <1>9 DEF StartEvent
<1>10. CASE ReadRequestUnit
  <2>1. PICK c \in Conns : \E k \in 1..Len(req[c]) :
          GetUnit(c, k) /\ line' = Append(line, <<c, k>>)
    BY <1>10 DEF ReadRequestUnit
  <2>2. PICK k \in 1..Len(req[c]) : GetUnit(c, k) /\ line' = Append(line, <<c, k>>)
    BY <2>1
  <2>3. /\ k \in Nat /\ taken' \in [Conns -> Nat]
        /\ rb' \in [conn : Conns \cup {NoConn}, lo : Nat, hi : Nat]
        /\ UNCHANGED <<phase, sent, end, fdtab>>
    BY <1>10, <2>2, GetUnitInv DEF ReadRequestUnit
  <2>4. line' \in Seq(Conns \X Nat)
    <3>1. \A s \in Seq(Conns \X Nat), u \in Conns \X Nat : Append(s, u) \in Seq(Conns \X Nat)
      OBVIOUS
    <3>2. <<c, k>> \in Conns \X Nat
      BY <2>3
    <3>3. Append(line, <<c, k>>) \in Seq(Conns \X Nat)
      BY <3>1, <3>2, Zenon
    <3> QED BY <2>2, <3>3
  <2>5. SockTypeOK'
    BY <2>3 DEF SockTypeOK
  <2> QED BY <1>10, <2>3, <2>4, <2>5 DEF ReadRequestUnit
<1>11. CASE ReadRequestEof
  BY <1>11 DEF ReadRequestEof, GetEof
<1>12. CASE ClientClosed
  <2>1. CloseFd(cur.fd) /\ fdtab[cur.fd] = cur.conn
        /\ cur.fd \in Fds /\ cur.conn \in Conns
    BY <1>12 DEF ClientClosed, CurInv
  <2>2. SockTypeOK'
    BY <2>1 DEF SockTypeOK, CloseFd, Phases
  <2>3. /\ UNCHANGED <<req, resp, acked, cut, evs, cur, rb, line, job>>
        /\ pc' = "drain"
        /\ tree' \subseteq tree /\ nonblock' \subseteq nonblock
    BY <1>12 DEF ClientClosed
  <2> QED BY <2>2, <2>3
<1>13. CASE ReadRequestError
  <2>1. CloseFd(cur.fd) /\ pc = "readline" /\ fdtab[cur.fd] = cur.conn
        /\ cur.fd \in Fds /\ cur.conn \in Conns
    BY <1>13 DEF ReadRequestError, CurInv
  <2>2. SockTypeOK'
    BY <2>1 DEF SockTypeOK, CloseFd, Phases
  <2>3. /\ UNCHANGED <<req, resp, acked, cut, evs, cur, rb, job>>
        /\ line' = <<>> /\ pc' = "drain"
        /\ tree' \subseteq tree /\ nonblock' \subseteq nonblock
    BY <1>13 DEF ReadRequestError
  <2> QED BY <2>2, <2>3
<1>14. CASE ParseGet
  BY <1>14, ReplyType DEF ParseGet
<1>15. CASE ParseOther
  BY <1>15 DEF ParseOther
<1>16. CASE ParseCrash
  BY <1>16 DEF ParseCrash
<1>17. CASE SendPiece
  <2>1. Conn \in Conns /\ Head(job.todo) \in Piece /\ Tail(job.todo) \in Seq(Piece)
    <3>1. pc = "send" /\ job.todo \in Seq(Piece) /\ job.todo # <<>>
      BY <1>17 DEF SendPiece
    <3> QED BY <3>1 DEF Conn, CurInv
  <2>2. \A lo \in Nat, n \in Nat : Positions(lo, n) \in Seq(Nat)
    <3>1. ASSUME NEW lo \in Nat, NEW n \in Nat, NEW i \in 1..n PROVE lo + i - 1 \in Nat
      OBVIOUS
    <3> QED BY <3>1 DEF Positions
  <2>3. Room(Conn) > 0 => Room(Conn) \in Nat
    BY <1>a, <2>1 DEF Room
  <2>4. resp' \in [Conns -> Seq(Nat)]
    <3>1. PICK n \in Nat : resp' = [resp EXCEPT ![Conn] = @ \o Positions(Head(job.todo).lo, n)]
      BY <1>17, <2>1, <2>3 DEF SendPiece, Piece
    <3>2. Positions(Head(job.todo).lo, n) \in Seq(Nat)
      BY <2>1, <2>2 DEF Piece
    <3> QED BY <2>1, <3>1, <3>2
  <2> QED BY <1>17, <2>1, <2>4 DEF SendPiece
<1>18. CASE SendFails
  <2>1. Conn \in Conns /\ Tail(job.todo) \in Seq(Piece)
    <3>1. pc = "send" /\ job.todo \in Seq(Piece) /\ job.todo # <<>>
      BY <1>18 DEF SendFails
    <3> QED BY <3>1 DEF Conn, CurInv
  <2>2. job' \in [todo : Seq(Piece), close : BOOLEAN]
    <3>1. [todo |-> <<>>, close |-> FALSE] \in [todo : Seq(Piece), close : BOOLEAN]
      OBVIOUS
    <3>2. [job EXCEPT !.todo = Tail(@)] \in [todo : Seq(Piece), close : BOOLEAN]
      BY <2>1
    <3> QED BY <1>18, <3>1, <3>2, Zenon DEF SendFails
  <2>3. SockTypeOK'
    <3>1. TakeError(Conn)
      BY <1>18 DEF SendFails
    <3> QED BY <2>1, <3>1 DEF SockTypeOK, TakeError, Ends
  <2> QED BY <1>18, <2>1, <2>2, <2>3 DEF SendFails
<1>19. CASE SendSigpipe
  BY <1>19 DEF SendSigpipe
<1>20. CASE SendDone
  <2>1. fdtab[cur.fd] = cur.conn /\ cur.fd \in Fds /\ cur.conn \in Conns
    BY <1>20 DEF SendDone, CurInv
  <2>2. CloseFd(cur.fd) \/ UNCHANGED sockVars
    BY <1>20 DEF SendDone
  <2>3. SockTypeOK'
    BY <2>1, <2>2 DEF SockTypeOK, CloseFd, Phases
  <2>4. /\ UNCHANGED <<req, resp, acked, cut, evs, cur, rb, line>>
        /\ pc' = "drain" /\ job' = NoJob
        /\ tree' \subseteq tree /\ nonblock' \subseteq nonblock
    BY <1>20 DEF SendDone
  <2> QED BY <2>3, <2>4 DEF NoJob
<1>21. CASE DrainUnit
  <2>1. PICK c \in Conns : \E k \in 1..Len(req[c]) :
          GetUnit(c, k) /\ (line' = <<>> \/ line' = Append(line, <<c, k>>))
    BY <1>21 DEF DrainUnit
  <2>2. PICK k \in 1..Len(req[c]) :
          GetUnit(c, k) /\ (line' = <<>> \/ line' = Append(line, <<c, k>>))
    BY <2>1
  <2>3. /\ k \in Nat /\ taken' \in [Conns -> Nat]
        /\ rb' \in [conn : Conns \cup {NoConn}, lo : Nat, hi : Nat]
        /\ UNCHANGED <<phase, sent, end, fdtab>>
    BY <1>21, <2>2, GetUnitInv DEF DrainUnit
  <2>4. line' \in Seq(Conns \X Nat)
    <3>1. \A s \in Seq(Conns \X Nat), u \in Conns \X Nat : Append(s, u) \in Seq(Conns \X Nat)
      OBVIOUS
    <3>2. <<c, k>> \in Conns \X Nat
      BY <2>3
    <3>3. Append(line, <<c, k>>) \in Seq(Conns \X Nat)
      BY <3>1, <3>2, Zenon
    <3>4. <<>> \in Seq(Conns \X Nat)
      OBVIOUS
    <3> QED BY <2>2, <3>3, <3>4, Zenon
  <2>5. SockTypeOK'
    BY <2>3 DEF SockTypeOK
  <2>6. UNCHANGED <<req, resp, acked, cut, pc, evs, cur, tree, nonblock, job>>
    BY <1>21 DEF DrainUnit
  <2> QED BY <2>3, <2>4, <2>5, <2>6
<1>22. CASE DrainEof
  BY <1>22 DEF DrainEof, GetEof
<1>23. CASE DrainDone
  <2>1. SockTypeOK' /\ rb' = rb
    <3>1. UNCHANGED sockVars \/ TakeError(Conn)
      BY <1>23 DEF DrainDone, GetError
    <3>2. TakeError(Conn) => SockTypeOK'
      BY DEF SockTypeOK, TakeError, Ends
    <3>3. rb' = rb
      BY <1>23 DEF DrainDone, GetError
    <3> QED BY <3>1, <3>2, <3>3
  <2> QED BY <1>23, <2>1 DEF DrainDone
<1> HIDE DEF TypeOK
<1> QED
  BY <1>1, <1>2, <1>3, <1>4, <1>5, <1>6, <1>7, <1>8, <1>9, <1>10,
     <1>11, <1>12, <1>13, <1>14, <1>15, <1>16, <1>17, <1>18, <1>19, <1>20,
     <1>21, <1>22, <1>23
     DEF Next, Server, Client

(* What the rest of the invariant speaks of. *)
Safe == NoCrossTalk /\ FreshEvents /\ CurInv /\ EventInv

safeVars == <<line, cur, rb, pc, evs, fdtab, tree>>

LEMMA SafeFrame == ASSUME Safe, UNCHANGED safeVars PROVE Safe'
BY DEF Safe, safeVars, NoCrossTalk, FreshEvents, CurInv, EventInv, Buffered, Handling

(* Closing the descriptor of the event at hand leaves every other event's  *)
(* descriptor, and what is watched, as it was.                             *)
LEMMA CloseInv ==
    ASSUME IInv, pc \in {"readline", "send"}, CloseFd(cur.fd),
           tree' = tree \ {cur.fd}, UNCHANGED <<cur, evs>>
    PROVE  /\ FreshEvents' /\ EventInv'
           /\ fdtab'[cur.fd] = NoConn
<1>1. /\ cur.fd \in Fds /\ \A e \in evs : e.fd # cur.fd
      /\ fdtab \in [Fds -> Conns \cup {NoConn}] /\ tree \subseteq Fds
      /\ \A e \in evs : e.fd # LFd => e.fd \in Fds
  BY DEF IInv, CurInv, TypeOK, SockTypeOK, Event
<1>2. fdtab' = [fdtab EXCEPT ![cur.fd] = NoConn]
  BY DEF CloseFd
<1> QED BY <1>1, <1>2 DEF IInv, FreshEvents, EventInv

(* Every step keeps the rest of the invariant. *)
LEMMA SafeStep == ASSUME IInv, Next PROVE Safe'
<1> USE DEF Safe, NoCrossTalk, FreshEvents, CurInv, EventInv, Buffered, Handling
<1>0. Safe /\ evs \subseteq Event /\ tree \subseteq Fds /\ fdtab \in [Fds -> Conns \cup {NoConn}]
      /\ LFd \notin Fds /\ line \in Seq(Conns \X Nat) /\ NoConn \notin Conns
  BY SocketsAssumption, EpollWebAssumption DEF IInv, TypeOK, SockTypeOK
<1> USE <1>0
<1>1. ASSUME NEW c \in Conns, Client(c) PROVE Safe'
  <2>1. UNCHANGED safeVars
    BY <1>1 DEF Client, ClientConnect, Connect, ClientSend, Deliver, ClientEnd, Fin, Abort,
                Acknowledge, safeVars, sockVars, webVars
  <2> QED BY <2>1, SafeFrame
<1>2. CASE EpollWait
  <2>1. PICK S \in SUBSET Ready : evs' = S
    BY <1>2 DEF EpollWait
  <2>2. \A e \in Ready : e.fd # LFd => fdtab[e.fd] = e.conn /\ e.conn # NoConn
    BY DEF Ready, ListenEvent
  <2> QED BY <1>2, <2>1, <2>2 DEF EpollWait, sockVars
<1>3. CASE BatchDone
  BY <1>3 DEF BatchDone, sockVars
<1>4. CASE AcceptEvent
  <2>1. PICK c \in Conns, f \in Fds : AcceptConn(c, f) /\ tree' = tree \cup {f}
    BY <1>4 DEF AcceptEvent
  <2>2. fdtab[f] = NoConn /\ fdtab' = [fdtab EXCEPT ![f] = c]
    BY <2>1 DEF AcceptConn, Lowest, Free, OpenFds
  <2>3. \A e \in evs : e.fd # LFd => e.fd \in Fds /\ e.fd # f
    BY <2>2 DEF Event
  <2>4. UNCHANGED <<pc, cur, rb, line>> /\ evs' \subseteq evs /\ pc = "next"
    BY <1>4 DEF AcceptEvent
  <2> QED BY <2>1, <2>2, <2>3, <2>4
<1>5. CASE AcceptFails
  BY <1>5 DEF AcceptFails, sockVars
<1>6. CASE StartEvent
  <2>1. PICK e \in evs : e.fd # LFd /\ cur' = e /\ evs' = evs \ {e}
    BY <1>6 DEF StartEvent
  <2>2. e.fd \in Fds /\ e.conn \in Conns
    BY <2>1 DEF Event
  <2>3. \A d \in evs : d.fd = e.fd => d = e
    BY <2>1, <2>2 DEF Event
  <2> QED BY <1>6, <2>1, <2>2, <2>3 DEF StartEvent, sockVars
<1>7. CASE ReadRequestUnit
  <2>a. PICK c \in Conns : \E k \in 1..Len(req[c]) :
          GetUnit(c, k) /\ line' = Append(line, <<c, k>>)
    BY <1>7 DEF ReadRequestUnit
  <2>1. PICK k \in 1..Len(req[c]) : GetUnit(c, k) /\ line' = Append(line, <<c, k>>)
    BY <2>a
  <2>2. c = cur.conn /\ (rb'.lo <= rb'.hi => rb'.conn = cur.conn) /\ UNCHANGED fdtab
    BY <1>7, <2>1, GetUnitInv DEF ReadRequestUnit
  <2>3. \A i \in 1..Len(line') : line'[i][1] = cur.conn
    BY <2>1, <2>2
  <2> QED BY <1>7, <2>2, <2>3 DEF ReadRequestUnit
<1>8. CASE ReadRequestEof
  BY <1>8 DEF ReadRequestEof, GetEof, sockVars
<1>9. CASE ClientClosed
  BY <1>9, CloseInv DEF ClientClosed
<1>10. CASE ReadRequestError
  BY <1>10, CloseInv DEF ReadRequestError
<1>11. CASE ParseGet
  BY <1>11 DEF ParseGet, sockVars
<1>12. CASE ParseOther
  BY <1>12 DEF ParseOther, sockVars
<1>13. CASE ParseCrash
  BY <1>13 DEF ParseCrash, sockVars
<1>14. CASE SendPiece
  BY <1>14, SafeFrame DEF SendPiece, sockVars, safeVars
<1>15. CASE SendFails
  BY <1>15, SafeFrame DEF SendFails, TakeError, safeVars
<1>16. CASE SendSigpipe
  BY <1>16 DEF SendSigpipe, sockVars
<1>17. CASE SendDone
  BY <1>17, CloseInv DEF SendDone, sockVars
<1>18. CASE DrainUnit
  <2>a. PICK c \in Conns : \E k \in 1..Len(req[c]) :
          GetUnit(c, k) /\ (line' = <<>> \/ line' = Append(line, <<c, k>>))
    BY <1>18 DEF DrainUnit
  <2>1. PICK k \in 1..Len(req[c]) : GetUnit(c, k) /\ (line' = <<>> \/ line' = Append(line, <<c, k>>))
    BY <2>a
  <2>2. c = cur.conn /\ (rb'.lo <= rb'.hi => rb'.conn = cur.conn) /\ UNCHANGED fdtab
    BY <1>18, <2>1, GetUnitInv DEF DrainUnit
  <2>3. \A i \in 1..Len(line') : line'[i][1] = cur.conn
    <3>1. <<c, k>>[1] = cur.conn
      BY <2>2
    <3>2. CASE line' = <<>>
      BY <3>2
    <3>3. CASE line' = Append(line, <<c, k>>)
      BY <3>1, <3>3
    <3> QED BY <2>1, <3>2, <3>3
  <2> QED BY <1>18, <2>2, <2>3 DEF DrainUnit
<1>19. CASE DrainEof
  BY <1>19 DEF DrainEof, GetEof, sockVars
<1>20. CASE DrainDone
  BY <1>20 DEF DrainDone, GetError, TakeError, sockVars
<1> HIDE DEF Safe
<1> QED
  BY <1>1, <1>2, <1>3, <1>4, <1>5, <1>6, <1>7, <1>8, <1>9, <1>10, <1>11, <1>12,
     <1>13, <1>14, <1>15, <1>16, <1>17, <1>18, <1>19, <1>20 DEF Next, Server

-----------------------------------------------------------------------------
LEMMA Inductive == IInv /\ [Next]_vars => IInv'
<1>1. IInv /\ Next => IInv'
  BY TypeStep, SafeStep DEF IInv, Safe
<1>2. IInv /\ UNCHANGED vars => IInv'
  <2>1. ASSUME IInv, UNCHANGED vars PROVE TypeOK'
    BY <2>1 DEF IInv, TypeOK, SockTypeOK, vars, sockVars, webVars
  <2>2. ASSUME IInv, UNCHANGED vars PROVE Safe'
    BY <2>2, SafeFrame DEF IInv, Safe, safeVars, vars, sockVars, webVars
  <2> QED BY <2>1, <2>2 DEF IInv, Safe
<1> QED BY <1>1, <1>2

THEOREM Invariance == Spec => []IInv
<1>1. Init => IInv
  BY InitInv
<1>2. IInv /\ [Next]_vars => IInv'
  BY Inductive
<1> QED BY <1>1, <1>2, PTL DEF Spec

(* The types of EpollWeb. *)
THEOREM TypeCorrect == Spec => []TypeOK
BY Invariance, PTL DEF IInv

(* One static read_buf serves every connection, and still no byte of one   *)
(* client is ever read as another's: wrap.c:156-158 with the drain loop at *)
(* webServer.c:115.                                                        *)
THEOREM StaticBufferIsSafe == Spec => []NoCrossTalk
BY Invariance, PTL DEF IInv

(* Closing and accepting while a batch is worked off never makes an event  *)
(* of the batch mean another client: webServer.c:55-118.                   *)
THEOREM BatchIsFresh == Spec => []FreshEvents
BY Invariance, PTL DEF IInv

-----------------------------------------------------------------------------
(* Watching a descriptor and opening it, no longer watching and closing,   *)
(* are always one and the same step.                                       *)
WatchInv == tree = OpenFds /\ nonblock = OpenFds

LEMMA WatchStep == IInv /\ WatchInv /\ [Next]_vars => WatchInv'
<1> SUFFICES ASSUME IInv, WatchInv, [Next]_vars PROVE WatchInv'
  OBVIOUS
<1> USE DEF WatchInv
<1>0. /\ fdtab \in [Fds -> Conns \cup {NoConn}] /\ NoConn \notin Conns
      /\ pc \in {"readline", "send"} => cur.fd \in Fds
  BY SocketsAssumption DEF IInv, TypeOK, SockTypeOK, CurInv
<1>k. UNCHANGED <<fdtab, tree, nonblock>> => WatchInv'
  BY DEF OpenFds
<1>c. ASSUME CloseFd(cur.fd), cur.fd \in Fds,
             tree' = tree \ {cur.fd}, nonblock' = nonblock \ {cur.fd}
      PROVE  WatchInv'
  <2>1. OpenFds' = OpenFds \ {cur.fd}
    BY <1>0, <1>c DEF CloseFd, OpenFds
  <2> QED BY <1>c, <2>1
<1>1. CASE AcceptEvent
  <2>1. PICK c \in Conns : \E f \in Fds :
          AcceptConn(c, f) /\ tree' = tree \cup {f} /\ nonblock' = nonblock \cup {f}
    BY <1>1 DEF AcceptEvent
  <2>2. PICK f \in Fds :
          AcceptConn(c, f) /\ tree' = tree \cup {f} /\ nonblock' = nonblock \cup {f}
    BY <2>1
  <2>3. OpenFds' = OpenFds \cup {f}
    BY <1>0, <2>2 DEF AcceptConn, OpenFds
  <2> QED BY <2>2, <2>3
<1>2. CASE ClientClosed \/ ReadRequestError
  BY <1>0, <1>2, <1>c DEF ClientClosed, ReadRequestError
<1>3. CASE SendDone
  BY <1>0, <1>3, <1>c, <1>k DEF SendDone, sockVars
<1>4. CASE ReadRequestUnit \/ DrainUnit
  <2>1. UNCHANGED <<tree, nonblock>>
    BY <1>4 DEF ReadRequestUnit, DrainUnit
  <2>2. \A c, k : GetUnit(c, k) => UNCHANGED fdtab
    BY DEF GetUnit, TakeData, sockVars
  <2>3. UNCHANGED fdtab
    BY <1>4, <2>2 DEF ReadRequestUnit, DrainUnit
  <2> QED BY <1>k, <2>1, <2>3
<1>5. CASE EpollWait \/ BatchDone \/ AcceptFails \/ StartEvent \/ ReadRequestEof
  BY <1>5, <1>k DEF EpollWait, BatchDone, AcceptFails, StartEvent, ReadRequestEof, sockVars
<1>6. CASE ParseGet \/ ParseOther \/ ParseCrash
  BY <1>6, <1>k DEF ParseGet, ParseOther, ParseCrash, sockVars
<1>7. CASE SendPiece \/ SendFails \/ SendSigpipe
  BY <1>7, <1>k DEF SendPiece, SendFails, SendSigpipe, TakeError, sockVars
<1>8. CASE DrainEof \/ DrainDone
  BY <1>8, <1>k DEF DrainEof, DrainDone, GetError, TakeError, sockVars
<1>9. ASSUME NEW c \in Conns, Client(c) PROVE WatchInv'
  BY <1>9, <1>k DEF Client, ClientConnect, Connect, ClientSend, Deliver, ClientEnd, Fin, Abort,
                    Acknowledge, sockVars, webVars
<1>10. CASE UNCHANGED vars
  BY <1>10, <1>k DEF vars, sockVars, webVars
<1> QED BY <1>1, <1>2, <1>3, <1>4, <1>5, <1>6, <1>7, <1>8, <1>9, <1>10 DEF Next, Server

(* No path of main() or SendData() drops a descriptor without closing it,  *)
(* or leaves it blocking (webServer.c:60-118, 153-281).                    *)
THEOREM NoneIsDropped == Spec => []OpenIsWatched
<1>1. Init => WatchInv
  BY DEF Init, SockInit, WatchInv, OpenFds
<1>2. IInv /\ WatchInv /\ [Next]_vars => WatchInv'
  BY WatchStep
<1>3. WatchInv => OpenIsWatched
  BY DEF WatchInv, OpenIsWatched
<1> QED BY <1>1, <1>2, <1>3, Invariance, PTL DEF Spec

-----------------------------------------------------------------------------
(* A page goes out whole.  A descriptor stands for an open connection, and *)
(* for one of its own.                                                     *)
OwnInv ==
    /\ \A f \in OpenFds : phase[fdtab[f]] = "open"
    /\ \A f, g \in OpenFds : fdtab[f] = fdtab[g] => f = g

(* The line holds the client's units from the first on, read_buf the next. *)
FromStart(c) ==
    /\ \A k \in 1..Len(line) : line[k] = <<c, k>>
    /\ IF Buffered THEN rb.lo = Len(line) + 1 /\ rb.hi = taken[c] ELSE taken[c] = Len(line)

(* ... and the line to parse the word and the name, or the word alone.     *)
LineRead(c) ==
    /\ Len(line) >= 1 /\ line[1] = <<c, 1>>
    /\ IF Len(line) = 1 THEN taken[c] = 1 ELSE taken[c] >= 2 /\ line[2] = <<c, 2>>

(* The sends to come lead from position k to position m without a gap.     *)
Leads(todo, k, m) ==
    /\ IF todo = <<>> THEN k = m ELSE todo[1].lo = k + 1
    /\ \A j \in 1..Len(todo) :
         /\ todo[j].len > 0 /\ todo[j].lo + todo[j].len <= m + 1
         /\ todo[j].lo + todo[j].len = IF j < Len(todo) THEN todo[j + 1].lo ELSE m + 1

(* Nothing sent; and a part of a page that broke off.                      *)
Fresh(c) == resp[c] = <<>> /\ c \notin cut

GivenUp(c) == c \in cut /\ taken[c] >= 1

(* The line holds units of the client behind the first, read_buf too.      *)
Later(c) ==
    /\ \A j \in 1..Len(line) : \E k \in 2..Len(req[c]) : line[j] = <<c, k>>
    /\ Buffered => rb.lo >= 2

(* The positions given to send() so far end with the k-th; those that were *)
(* taken are among them, and are all of them if none was cut.              *)
OnPage(c, name) ==
    \E k, m \in Nat :
        /\ Leads(job.todo, k, m) /\ m <= Len(Page(name))
        /\ taken[c] >= 2 => m = Len(Page(name))
        /\ \A i \in DOMAIN resp[c] : resp[c][i] <= k
        /\ c \notin cut => Len(resp[c]) = k

(* What a client that asks for a page has of it.                           *)
Kept(c, name) ==
    /\ Rising(resp[c])
    /\ c \notin cut => resp[c] = Positions(1, Len(resp[c])) /\ Len(resp[c]) <= Len(Page(name))
    /\ Len(Page(name)) <= SndBuf /\ end[c] \in {"none", "fin"} => c \notin cut
    /\ phase[c] = "closed" /\ taken[c] >= 2 /\ resp[c] # <<>> /\ c \notin cut => resp[c] = Page(name)

(* Where it stands: not started on, its line being read, parsed, answered, *)
(* closed -- or left open on a part of the page, which the rest of its     *)
(* input does not bring it any further from.                               *)
Stands(c, name) ==
    /\ ~(Handling /\ cur.conn = c) /\ phase[c] # "closed" => (taken[c] = 0 /\ Fresh(c)) \/ GivenUp(c)
    /\ pc = "readline" /\ cur.conn = c => (Fresh(c) /\ FromStart(c)) \/ (GivenUp(c) /\ Later(c))
    /\ pc = "parse" /\ cur.conn = c =>
         (Fresh(c) /\ LineRead(c)) \/ (GivenUp(c) /\ line # <<>> /\ Later(c))
    /\ pc = "send" /\ cur.conn = c =>
         /\ taken[c] >= 1
         /\ IF job.close THEN OnPage(c, name) ELSE job.todo = <<>> /\ c \in cut
    /\ pc = "drain" /\ cur.conn = c => phase[c] = "closed" \/ GivenUp(c)

AskInv(c, name) == Kept(c, name) /\ Stands(c, name)

Paths == {"file", "gone"}

PageInv == OwnInv /\ \A c \in Conns, name \in Paths : AsksOnce(c, name) => AskInv(c, name)

-----------------------------------------------------------------------------
LEMMA PositionsLen == \A lo, n \in Nat : Positions(lo, n) \in Seq(Int) /\ Len(Positions(lo, n)) = n
<1> SUFFICES ASSUME NEW lo \in Nat, NEW n \in Nat
             PROVE  Positions(lo, n) \in Seq(Int) /\ Len(Positions(lo, n)) = n
  OBVIOUS
<1>1. Positions(lo, n) \in [1..n -> Int]
  BY DEF Positions
<1> QED BY <1>1, SMTT(20) DEF Positions

LEMMA SameSeq ==
    \A s, t \in Seq(Int) : Len(s) = Len(t) /\ (\A i \in 1..Len(s) : s[i] = t[i]) => s = t
BY SeqEqual

LEMMA PositionsJoin == \A k, n \in Nat : Positions(1, k) \o Positions(k + 1, n) = Positions(1, k + n)
<1> SUFFICES ASSUME NEW k \in Nat, NEW n \in Nat
             PROVE  Positions(1, k) \o Positions(k + 1, n) = Positions(1, k + n)
  OBVIOUS
<1> DEFINE a == Positions(1, k)
           b == Positions(k + 1, n)
           s == Positions(1, k + n)
<1>0. k + 1 \in Nat /\ k + n \in Nat /\ 1 \in Nat
  OBVIOUS
<1>1. /\ a \in Seq(Int) /\ Len(a) = k /\ b \in Seq(Int) /\ Len(b) = n
      /\ s \in Seq(Int) /\ Len(s) = k + n
  BY <1>0, PositionsLen
<1>2. \A i \in 1..k : a[i] = i
  BY DEF Positions
<1>3. \A i \in 1..n : b[i] = k + i
  BY DEF Positions
<1>4. \A i \in 1..(k + n) : s[i] = i
  BY DEF Positions
<1> HIDE DEF a, b, s
<1>5. a \o b \in Seq(Int) /\ Len(a \o b) = Len(a) + Len(b)
  BY <1>1, ConcatProperties
<1>6. \A i \in 1..(k + n) : (a \o b)[i] = s[i]
  <2> SUFFICES ASSUME NEW i \in 1..(k + n) PROVE (a \o b)[i] = i
    BY <1>4
  <2>1. CASE i <= k
    <3>1. i \in 1..k /\ i <= Len(a) /\ i \in 1..(Len(a) + Len(b))
      BY <1>1, <2>1
    <3>2. (a \o b)[i] = a[i]
      BY <1>1, <3>1, ConcatProperties
    <3> QED BY <1>2, <3>1, <3>2
  <2>2. CASE i > k
    <3>0. i \in 1..(Len(a) + Len(b)) /\ ~(i <= Len(a)) /\ i - Len(a) = i - k /\ i - k \in 1..n
      BY <1>1, <2>2
    <3>1. (a \o b)[i] = b[i - k] /\ i - k \in 1..n
      BY <1>1, <3>0, ConcatProperties
    <3>2. b[i - k] = k + (i - k)
      BY <1>3, <3>1
    <3> QED BY <3>1, <3>2
  <2>3. i <= k \/ i > k
    OBVIOUS
  <2> QED BY <2>1, <2>2, <2>3, Zenon
<1>7. a \o b = s
  <2>1. Len(a \o b) = k + n /\ Len(s) = k + n
    BY <1>1, <1>5
  <2>2. \A i \in 1..Len(a \o b) : (a \o b)[i] = s[i]
    BY <1>6, <2>1
  <2> QED BY <1>1, <1>5, <2>1, <2>2, SameSeq
<1> QED BY <1>7 DEF a, b, s

LEMMA PageLen == \A name \in Paths : \E m \in Nat : Len(Page(name)) = m /\ Page(name) = Positions(1, m)
<1> SUFFICES ASSUME NEW name \in Paths
             PROVE  \E m \in Nat : Len(Page(name)) = m /\ Page(name) = Positions(1, m)
  OBVIOUS
<1> DEFINE m == IF name = "file" THEN FileHeaderLen + FileLen ELSE HeaderLen + 1
<1>1. FullChunks * ChunkSize \in Nat
  BY EpollWebAssumption
<1>2. m \in Nat
  BY <1>1, EpollWebAssumption DEF FileHeaderLen, HeaderLen, FileLen
<1>3. Page(name) = Positions(1, m)
  BY DEF Page
<1> HIDE DEF m
<1>4. 1 \in Nat
  OBVIOUS
<1>5. Len(Page(name)) = m
  BY <1>2, <1>3, <1>4, PositionsLen
<1> QED BY <1>2, <1>3, <1>5

(* A reply names all positions of its page in order. *)
LEMMA ReplyLeads ==
    ASSUME NEW name \in Paths
    PROVE  Reply(name).close /\ Leads(Reply(name).todo, 0, Len(Page(name)))
<1> USE DEF HeaderLen, FileHeaderLen, Send
<1>0. /\ FullChunks \in Nat /\ ChunkSize \in Nat /\ ChunkSize > 0
      /\ LastChunk \in Nat /\ LastChunk > 0 /\ LastChunk <= ChunkSize
      /\ FullChunks * ChunkSize \in Nat
  BY EpollWebAssumption
<1>1. CASE name = "gone"
  <2>1. Reply(name) = [todo |-> SendHeader(4), close |-> TRUE] /\ Len(Page(name)) = 4
    <3>1. Page(name) = Positions(1, 4)
      BY <1>1 DEF Page
    <3>2. Len(Positions(1, 4)) = 4
      BY PositionsLen
    <3> QED BY <1>1, <3>1, <3>2 DEF Reply
  <2>2. SendHeader(4) = [j \in 1..4 |-> [lo |-> j, len |-> 1, must |-> FALSE]] /\ Len(SendHeader(4)) = 4
    BY DEF SendHeader
  <2>3. SendHeader(4) # <<>>
    BY <2>2
  <2> QED BY <2>1, <2>2, <2>3 DEF Leads
<1>2. CASE name = "file"
  <2> DEFINE h == SendHeader(4)
             b == FileBody
             t == h \o b
             m == 4 + FullChunks * ChunkSize + LastChunk
  <2>1. Reply(name) = [todo |-> t, close |-> TRUE]
    BY <1>2 DEF Reply
  <2>2. Len(Page(name)) = m
    <3>1. m \in Nat /\ FileHeaderLen + FileLen = m
      BY <1>0 DEF FileLen
    <3> QED BY <1>2, <3>1, PositionsLen DEF Page
  <2>3. /\ h = [j \in 1..4 |-> [lo |-> j, len |-> 1, must |-> FALSE]]
        /\ h \in Seq(Piece) /\ Len(h) = 4
    BY DEF SendHeader, Piece
  <2>4. \A j \in 0..(FullChunks + 1) : j * ChunkSize \in Nat
    BY <1>0
  <2>5. \A j \in 1..(FullChunks + 1) : b[j] =
          [lo |-> 4 + (j - 1) * ChunkSize + 1, len |-> IF j <= FullChunks THEN ChunkSize ELSE LastChunk,
           must |-> TRUE]
    BY <1>0 DEF FileBody
  <2>6. b \in Seq(Piece) /\ Len(b) = FullChunks + 1
    <3>1. \A j \in 1..(FullChunks + 1) : b[j] \in Piece
      <4> SUFFICES ASSUME NEW j \in 1..(FullChunks + 1) PROVE b[j] \in Piece
        OBVIOUS
      <4>1. (j - 1) * ChunkSize \in Nat
        BY <1>0, <2>4
      <4>2. 4 + (j - 1) * ChunkSize + 1 \in Nat /\ (IF j <= FullChunks THEN ChunkSize ELSE LastChunk) \in Nat
        BY <1>0, <4>1
      <4> DEFINE x == 4 + (j - 1) * ChunkSize + 1
                 y == IF j <= FullChunks THEN ChunkSize ELSE LastChunk
      <4>3. b[j] = [lo |-> x, len |-> y, must |-> TRUE]
        BY <2>5
      <4> HIDE DEF x, y, b
      <4> QED BY <4>2, <4>3 DEF Piece, x, y
    <3>2. b = [j \in 1..(FullChunks + 1) |-> b[j]]
      BY DEF FileBody
    <3> HIDE DEF b
    <3>3. FullChunks + 1 \in Nat
      BY <1>0
    <3> QED BY <3>1, <3>2, <3>3
  <2> HIDE DEF h, b
  <2>7. /\ t \in Seq(Piece) /\ Len(t) = FullChunks + 5
        /\ \A j \in 1..4 : t[j] = h[j]
        /\ \A j \in 5..(FullChunks + 5) : t[j] = b[j - 4]
    BY <1>0, <2>3, <2>6
  <2>8. \A j \in 5..(FullChunks + 5) :
          /\ t[j].lo = 4 + (j - 5) * ChunkSize + 1
          /\ t[j].len = IF j <= FullChunks + 4 THEN ChunkSize ELSE LastChunk
    <3> SUFFICES ASSUME NEW j \in 5..(FullChunks + 5)
                 PROVE  /\ t[j].lo = 4 + (j - 5) * ChunkSize + 1
                        /\ t[j].len = IF j <= FullChunks + 4 THEN ChunkSize ELSE LastChunk
      OBVIOUS
    <3>1. j - 4 \in 1..(FullChunks + 1) /\ (j - 4) - 1 = j - 5 /\ (j - 4 <= FullChunks <=> j <= FullChunks + 4)
      BY <1>0
    <3>2. t[j] = b[j - 4]
      BY <2>7
    <3> DEFINE x == j - 4
    <3>3. x \in 1..(FullChunks + 1) /\ x - 1 = j - 5
      BY <3>1
    <3>4. (x <= FullChunks) = (j <= FullChunks + 4) /\ t[j] = b[x]
      BY <1>0, <3>2
    <3> HIDE DEF x
    <3>5. b[x].lo = 4 + (x - 1) * ChunkSize + 1 /\ b[x].len = IF x <= FullChunks THEN ChunkSize ELSE LastChunk
      <4> DEFINE lo == 4 + (x - 1) * ChunkSize + 1
                 len == IF x <= FullChunks THEN ChunkSize ELSE LastChunk
      <4>1. b[x] = [lo |-> lo, len |-> len, must |-> TRUE]
        BY <2>5, <3>3
      <4>2. ASSUME NEW p, NEW q, b[x] = [lo |-> p, len |-> q, must |-> TRUE]
            PROVE  b[x].lo = p /\ b[x].len = q
        BY <4>2
      <4> HIDE DEF lo, len
      <4>3. b[x].lo = lo /\ b[x].len = len
        BY <4>1, <4>2
      <4> QED BY <4>3 DEF lo, len
    <3> QED BY <3>3, <3>4, <3>5
  <2>9. \A j \in 1..4 : t[j].lo = j /\ t[j].len = 1
    BY <2>3, <2>7
  <2>10. \A j \in 0..FullChunks :
           /\ (j + 1) * ChunkSize = j * ChunkSize + ChunkSize
           /\ j * ChunkSize \in Nat /\ j * ChunkSize <= FullChunks * ChunkSize
           /\ j < FullChunks => (j + 1) * ChunkSize <= FullChunks * ChunkSize
    <3> SUFFICES ASSUME NEW j \in 0..FullChunks
                 PROVE  /\ (j + 1) * ChunkSize = j * ChunkSize + ChunkSize
                        /\ j * ChunkSize \in Nat /\ j * ChunkSize <= FullChunks * ChunkSize
                        /\ j < FullChunks => (j + 1) * ChunkSize <= FullChunks * ChunkSize
      OBVIOUS
    <3>1. \A x, y \in Nat : x <= y => x * ChunkSize <= y * ChunkSize
      <4> SUFFICES ASSUME NEW x \in Nat, NEW y \in Nat, x <= y PROVE x * ChunkSize <= y * ChunkSize
        OBVIOUS
      <4>1. y * ChunkSize = x * ChunkSize + (y - x) * ChunkSize
        BY <1>0
      <4>2. (y - x) * ChunkSize \in Nat
        BY <1>0
      <4> QED BY <1>0, <4>1, <4>2
    <3> QED BY <1>0, <2>4, <3>1
  <2>11. ASSUME NEW j \in 1..Len(t)
         PROVE  /\ t[j].len > 0 /\ t[j].lo + t[j].len <= m + 1
                /\ t[j].lo + t[j].len = IF j < Len(t) THEN t[j + 1].lo ELSE m + 1
    <3>1. CASE j \in 1..3
      <4>1. m \in Nat /\ m > 4 /\ j + 1 \in 1..4 /\ j \in 1..4 /\ j + 1 <= m + 1 /\ j < FullChunks + 5
        BY <1>0, <3>1
      <4>2. t[j].lo = j /\ t[j].len = 1 /\ t[j + 1].lo = j + 1
        BY <2>9, <4>1
      <4> QED BY <2>7, <4>1, <4>2
    <3>2. CASE j = 4
      <4>1. t[j].lo = 4 /\ t[j].len = 1
        BY <2>9, <3>2
      <4>2. 5 \in 5..(FullChunks + 5) /\ 5 - 5 = 0 /\ 0 * ChunkSize = 0 /\ m \in Nat /\ m > 4
        BY <1>0
      <4>3. t[5].lo = 4 + (5 - 5) * ChunkSize + 1
        BY <2>8, <4>2
      <4>4. t[5].lo = 5
        BY <4>2, <4>3
      <4> QED BY <1>0, <2>7, <3>2, <4>1, <4>2, <4>4
    <3>3. CASE j \in 5..(FullChunks + 4)
      <4> DEFINE x == j - 5
      <4>1. x \in 0..FullChunks /\ x < FullChunks /\ j + 1 \in 5..(FullChunks + 5) /\ (j + 1) - 5 = x + 1
        BY <1>0, <3>3
      <4>2. t[j].lo = 4 + x * ChunkSize + 1 /\ t[j].len = ChunkSize
        BY SMTT(30), <1>0, <2>8, <3>3
      <4>3. t[j + 1].lo = 4 + (x + 1) * ChunkSize + 1
        BY <2>8, <4>1
      <4> HIDE DEF x
      <4>4. t[j].lo + t[j].len = 4 + (x + 1) * ChunkSize + 1 /\ (x + 1) * ChunkSize <= FullChunks * ChunkSize
            /\ (x + 1) * ChunkSize \in Int
        BY <1>0, <2>10, <4>1, <4>2
      <4> QED BY <1>0, <2>7, <3>3, <4>2, <4>3, <4>4
    <3>4. CASE j = FullChunks + 5
      <4>1. t[j].lo = 4 + FullChunks * ChunkSize + 1 /\ t[j].len = LastChunk
        <5>1. j \in 5..(FullChunks + 5) /\ j - 5 = FullChunks /\ ~(j <= FullChunks + 4)
          BY <1>0, <3>4
        <5> QED BY <2>8, <5>1
      <4> DEFINE y == FullChunks * ChunkSize
      <4>2. y \in Nat /\ t[j].lo = 4 + y + 1 /\ m + 1 = 4 + y + LastChunk + 1
        BY <1>0, <4>1
      <4> HIDE DEF y, m
      <4>3. t[j].lo + t[j].len = m + 1 /\ m + 1 \in Nat /\ ~(j < Len(t))
        <5>1. LastChunk \in Int /\ t[j].len = LastChunk
          BY <1>0, <4>1
        <5>2. t[j].lo + t[j].len = 4 + y + 1 + LastChunk
          BY <4>2, <5>1
        <5>3. Len(t) = j
          BY <2>7, <3>4
        <5> QED BY <1>0, <3>4, <4>2, <5>2, <5>3
      <4> QED BY <1>0, <4>1, <4>3
    <3>5. j \in 1..3 \/ j = 4 \/ j \in 5..(FullChunks + 4) \/ j = FullChunks + 5
      BY <1>0, <2>7
    <3> QED BY <3>1, <3>2, <3>3, <3>4, <3>5
  <2>12. t # <<>> /\ t[1].lo = 1
    BY <1>0, <2>7, <2>9
  <2> HIDE DEF t, m
  <2> QED BY <2>1, <2>2, <2>11, <2>12 DEF Leads
<1> QED BY <1>1, <1>2 DEF Paths

(* ... and the answer to a line without a name is that to a missing file,  *)
(* which is no longer than any page.                                       *)
LEMMA NamelessReply ==
    Reply("none") = Reply("gone") /\ \A name \in Paths : Len(Page("gone")) <= Len(Page(name))
<1>1. Reply("none") = Reply("gone")
  BY DEF Reply
<1>2. Page("gone") = Positions(1, 4) /\ Len(Page("gone")) = 4
  <2>1. Page("gone") = Positions(1, 4)
    BY DEF Page, HeaderLen
  <2>2. Len(Positions(1, 4)) = 4
    BY PositionsLen
  <2> QED BY <2>1, <2>2
<1>3. Len(Page("file")) >= 4
  <2>1. FullChunks * ChunkSize \in Nat /\ LastChunk \in Nat
    BY EpollWebAssumption
  <2> DEFINE m == FileHeaderLen + FileLen
  <2>2. m \in Nat /\ m >= 4
    BY <2>1 DEF FileHeaderLen, HeaderLen, FileLen
  <2>3. Page("file") = Positions(1, m)
    BY DEF Page
  <2> HIDE DEF m
  <2> QED BY <2>2, <2>3, PositionsLen
<1>4. \A name \in Paths : Len(Page("gone")) <= Len(Page(name))
  <2> SUFFICES ASSUME NEW name \in Paths PROVE Len(Page("gone")) <= Len(Page(name))
    OBVIOUS
  <2>1. CASE name = "gone"
    <3>1. Len(Page(name)) = 4 /\ 4 <= 4
      BY <1>2, <2>1
    <3> QED BY <1>2, <3>1
  <2>2. CASE name = "file"
    <3>1. Len(Page(name)) >= 4
      BY <1>3, <2>2
    <3> QED BY <1>2, <3>1
  <2> QED BY <2>1, <2>2 DEF Paths
<1> QED BY <1>1, <1>4

-----------------------------------------------------------------------------
(* Only accepting and closing touch the descriptors. *)
LEMMA OwnFrame ==
    ASSUME OwnInv, UNCHANGED fdtab, \A c \in Conns : phase[c] = "open" => phase'[c] = "open",
           IInv
    PROVE  OwnInv'
<1>1. OpenFds' = OpenFds /\ \A f \in OpenFds : fdtab[f] \in Conns
  BY DEF OpenFds, IInv, TypeOK, SockTypeOK
<1> QED BY <1>1 DEF OwnInv

LEMMA OwnAccept == ASSUME IInv, OwnInv, NEW c \in Conns, NEW f \in Fds, AcceptConn(c, f) PROVE OwnInv'
<1>1. /\ phase' = [phase EXCEPT ![c] = "open"] /\ fdtab' = [fdtab EXCEPT ![f] = c]
      /\ phase[c] = "queued" /\ f \notin OpenFds
  BY DEF AcceptConn, Lowest, Free, Queued
<1>2. /\ phase \in [Conns -> Phases] /\ fdtab \in [Fds -> Conns \cup {NoConn}] /\ NoConn \notin Conns
  BY SocketsAssumption DEF IInv, TypeOK, SockTypeOK
<1>3. OpenFds' = OpenFds \cup {f} /\ fdtab'[f] = c /\ \A g \in OpenFds : fdtab'[g] = fdtab[g]
  BY <1>1, <1>2 DEF OpenFds
<1>4. \A g \in OpenFds : phase[fdtab[g]] = "open" /\ fdtab[g] # c /\ fdtab[g] \in Conns
  BY <1>1, <1>2 DEF OwnInv, OpenFds
<1>5. \A g \in OpenFds' : phase'[fdtab'[g]] = "open"
  BY <1>1, <1>2, <1>3, <1>4
<1>6. \A g, h \in OpenFds' : fdtab'[g] = fdtab'[h] => g = h
  BY <1>3, <1>4 DEF OwnInv
<1> QED BY <1>5, <1>6 DEF OwnInv

LEMMA OwnClose ==
    ASSUME IInv, OwnInv, pc \in {"readline", "send"}, CloseFd(cur.fd)
    PROVE  OwnInv' /\ phase' = [phase EXCEPT ![cur.conn] = "closed"]
<1>1. /\ phase' = [phase EXCEPT ![cur.conn] = "closed"] /\ fdtab' = [fdtab EXCEPT ![cur.fd] = NoConn]
      /\ cur.fd \in Fds /\ cur.conn \in Conns /\ fdtab[cur.fd] = cur.conn
  BY DEF CloseFd, IInv, CurInv
<1>2. /\ phase \in [Conns -> Phases] /\ fdtab \in [Fds -> Conns \cup {NoConn}] /\ NoConn \notin Conns
  BY SocketsAssumption DEF IInv, TypeOK, SockTypeOK
<1>3. OpenFds' = OpenFds \ {cur.fd} /\ \A g \in OpenFds' : fdtab'[g] = fdtab[g]
  BY <1>1, <1>2 DEF OpenFds
<1>4. cur.fd \in OpenFds /\ \A g \in OpenFds' : fdtab[g] # cur.conn /\ fdtab[g] \in Conns
  BY <1>1, <1>2, <1>3 DEF OwnInv, OpenFds
<1>5. \A g \in OpenFds' : phase'[fdtab'[g]] = "open"
  BY <1>1, <1>2, <1>3, <1>4 DEF OwnInv
<1>6. \A g, h \in OpenFds' : fdtab'[g] = fdtab'[h] => g = h
  BY <1>3 DEF OwnInv
<1> QED BY <1>1, <1>5, <1>6 DEF OwnInv

(* What every step leaves alone. *)
LEMMA GetUnitFrame ==
    \A c, k : GetUnit(c, k) => UNCHANGED <<phase, sent, end, fdtab>>
BY DEF GetUnit, TakeData, sockVars

LEMMA OwnStep == ASSUME IInv, OwnInv, Next PROVE OwnInv'
<1>f. UNCHANGED <<phase, fdtab>> => OwnInv'
  BY DEF OwnInv, OpenFds
<1>1. CASE AcceptEvent
  <2>1. PICK c \in Conns : \E f \in Fds : AcceptConn(c, f)
    BY <1>1 DEF AcceptEvent
  <2> QED BY <2>1, OwnAccept
<1>2. CASE ClientClosed \/ ReadRequestError
  BY <1>2, OwnClose DEF ClientClosed, ReadRequestError
<1>3. CASE SendDone
  BY <1>3, <1>f, OwnClose DEF SendDone, sockVars
<1>4. CASE ReadRequestUnit \/ DrainUnit
  BY <1>4, <1>f, GetUnitFrame DEF ReadRequestUnit, DrainUnit
<1>5. CASE EpollWait \/ BatchDone \/ AcceptFails \/ StartEvent \/ ReadRequestEof
  BY <1>5, <1>f DEF EpollWait, BatchDone, AcceptFails, StartEvent, ReadRequestEof, sockVars
<1>6. CASE ParseGet \/ ParseOther \/ ParseCrash
  BY <1>6, <1>f DEF ParseGet, ParseOther, ParseCrash, sockVars
<1>7. CASE SendPiece \/ SendFails \/ SendSigpipe
  BY <1>7, <1>f DEF SendPiece, SendFails, SendSigpipe, TakeError, sockVars
<1>8. CASE DrainEof \/ DrainDone
  BY <1>8, <1>f DEF DrainEof, DrainDone, GetEof, GetError, TakeError, sockVars
<1>9. ASSUME NEW c \in Conns, Client(c) PROVE OwnInv'
  <2>1. UNCHANGED fdtab
    BY <1>9 DEF Client, ClientConnect, Connect, ClientSend, Deliver, ClientEnd, Fin, Abort,
                Acknowledge, sockVars
  <2>2. phase \in [Conns -> Phases]
    BY DEF IInv, TypeOK, SockTypeOK
  <2>3. \A d \in Conns : phase[d] = "open" => phase'[d] = "open"
    BY <1>9, <2>2 DEF Client, ClientConnect, Connect, ClientSend, Deliver, ClientEnd, Fin, Abort,
                Acknowledge, sockVars
  <2> QED BY <2>1, <2>3, OwnFrame
<1> QED BY <1>1, <1>2, <1>3, <1>4, <1>5, <1>6, <1>7, <1>8, <1>9 DEF Next, Server

-----------------------------------------------------------------------------
(* Nobody comes back who has broken off, and requests do not change. *)
LEMMA Patient ==
    ASSUME IInv, Next, NEW c \in Conns
    PROVE  UNCHANGED req /\ (end'[c] \in {"none", "fin"} => end[c] \in {"none", "fin"})
<1>0. end \in [Conns -> Ends]
  BY DEF IInv, TypeOK, SockTypeOK
<1>t. \A d : TakeError(d) => (end'[c] \in {"none", "fin"} => end[c] \in {"none", "fin"})
  BY <1>0 DEF TakeError
<1>1. UNCHANGED req
  BY DEF Next, Server, Client, webVars, EpollWait, BatchDone, AcceptEvent, AcceptFails, StartEvent,
         ReadRequestUnit, ReadRequestEof, ClientClosed, ReadRequestError, ParseGet, ParseOther, ParseCrash,
         SendPiece, SendFails, SendSigpipe, SendDone, DrainUnit, DrainEof, DrainDone,
         ClientConnect, ClientSend, ClientEnd, Acknowledge
<1>2. end'[c] \in {"none", "fin"} => end[c] \in {"none", "fin"}
  <2>1. CASE AcceptEvent
    BY <2>1 DEF AcceptEvent, AcceptConn
  <2>2. CASE ClientClosed \/ ReadRequestError \/ SendDone
    BY <2>2 DEF ClientClosed, ReadRequestError, SendDone, CloseFd, sockVars
  <2>3. CASE ReadRequestUnit \/ DrainUnit
    BY <2>3, GetUnitFrame DEF ReadRequestUnit, DrainUnit
  <2>4. CASE EpollWait \/ BatchDone \/ AcceptFails \/ StartEvent \/ ReadRequestEof
    BY <2>4 DEF EpollWait, BatchDone, AcceptFails, StartEvent, ReadRequestEof, sockVars
  <2>5. CASE ParseGet \/ ParseOther \/ ParseCrash \/ SendPiece \/ SendSigpipe
    BY <2>5 DEF ParseGet, ParseOther, ParseCrash, SendPiece, SendSigpipe, sockVars
  <2>6. CASE SendFails \/ DrainEof \/ DrainDone
    BY <2>6, <1>t DEF SendFails, DrainEof, DrainDone, GetEof, GetError, sockVars
  <2>7. ASSUME NEW d \in Conns, Client(d) PROVE end'[c] \in {"none", "fin"} => end[c] \in {"none", "fin"}
    BY <1>0, <2>7 DEF Client, ClientConnect, Connect, ClientSend, Deliver, ClientEnd, Fin, Abort,
                      Acknowledge, sockVars
  <2> QED BY <2>1, <2>2, <2>3, <2>4, <2>5, <2>6, <2>7 DEF Next, Server
<1> QED BY <1>1, <1>2

(* A step that sends c nothing. *)
LEMMA KeptFrame ==
    ASSUME IInv, Next, NEW c \in Conns, NEW name \in Paths, Kept(c, name),
           resp'[c] = resp[c], c \in cut' <=> c \in cut,
           \/ phase'[c] = phase[c] /\ taken'[c] = taken[c]
           \/ c \in cut
           \/ phase'[c] # "closed"
           \/ resp[c] = <<>> \/ ~(taken'[c] >= 2) \/ resp[c] = Page(name)
    PROVE  Kept(c, name)'
<1>1. end'[c] \in {"none", "fin"} => end[c] \in {"none", "fin"}
  BY Patient
<1>2. Rising(resp[c])'
  BY DEF Kept, Rising
<1>3. (c \notin cut => resp[c] = Positions(1, Len(resp[c])) /\ Len(resp[c]) <= Len(Page(name)))'
  BY DEF Kept, Page
<1>4. (Len(Page(name)) <= SndBuf /\ end[c] \in {"none", "fin"} => c \notin cut)'
  BY <1>1 DEF Kept, Page
<1>5. (phase[c] = "closed" /\ taken[c] >= 2 /\ resp[c] # <<>> /\ c \notin cut => resp[c] = Page(name))'
  BY DEF Kept, Page
<1> QED BY <1>2, <1>3, <1>4, <1>5 DEF Kept

(* A step that has nothing to do with client c: what it drains of a client *)
(* given up is the only change.                                            *)
LEMMA Aside ==
    ASSUME IInv, Next, NEW c \in Conns, NEW name \in Paths, AskInv(c, name),
           \/ taken'[c] = taken[c]
           \/ c \in cut /\ taken'[c] >= 1,
           resp'[c] = resp[c], c \in cut' <=> c \in cut,
           (phase'[c] = "closed") <=> (phase[c] = "closed"),
           ~(pc' \in {"readline", "parse", "send"} /\ cur'.conn = c),
           pc' = "drain" /\ cur'.conn = c => phase[c] = "closed" \/ GivenUp(c),
           Handling /\ cur.conn = c => (Handling' /\ cur'.conn = c) \/ phase[c] = "closed" \/ GivenUp(c)
    PROVE  AskInv(c, name)'
<1>1. Kept(c, name)'
  BY KeptFrame DEF AskInv, Kept
<1>2. GivenUp(c) => GivenUp(c)'
  BY DEF GivenUp
<1>3. (~(Handling /\ cur.conn = c) /\ phase[c] # "closed" => (taken[c] = 0 /\ Fresh(c)) \/ GivenUp(c))'
  BY <1>2 DEF AskInv, Stands, Fresh, GivenUp
<1>4. (pc = "drain" /\ cur.conn = c => phase[c] = "closed" \/ GivenUp(c))'
  BY <1>2
<1> QED BY <1>1, <1>3, <1>4 DEF AskInv, Stands

(* Closing ends the reading of a line without a word sent. *)
LEMMA Shut ==
    ASSUME IInv, Next, NEW c \in Conns, NEW name \in Paths, AskInv(c, name),
           pc \in {"readline", "send"}, phase' = [phase EXCEPT ![cur.conn] = "closed"],
           UNCHANGED <<taken, resp, cut, cur>>, pc' = "drain",
           cur.conn = c => c \in cut \/ ~(taken[c] >= 2) \/ resp[c] = <<>> \/ resp[c] = Page(name)
    PROVE  AskInv(c, name)'
<1>0. phase \in [Conns -> Phases] /\ taken \in [Conns -> Nat]
  BY DEF IInv, TypeOK, SockTypeOK
<1>1. CASE cur.conn = c
  <2>1. phase'[c] = "closed"
    BY <1>0, <1>1
  <2>2. Kept(c, name)'
    BY <1>1, KeptFrame DEF AskInv
  <2>3. Stands(c, name)'
    BY <1>1, <2>1 DEF Stands, Handling
  <2> QED BY <2>2, <2>3 DEF AskInv
<1>2. CASE cur.conn # c
  <2>1. phase'[c] = phase[c]
    BY <1>0, <1>2
  <2> QED BY <1>2, <2>1, Aside
<1> QED BY <1>1, <1>2

-----------------------------------------------------------------------------
LEMMA AtWork ==
    ASSUME IInv, OwnInv, pc \in {"readline", "parse", "send"}
    PROVE  /\ Conn = cur.conn /\ cur.conn \in Conns /\ cur.fd \in Fds
           /\ phase[cur.conn] = "open"
BY SocketsAssumption DEF IInv, CurInv, OwnInv, OpenFds, Conn

(* One unit more of the first line. *)
LEMMA FirstRead ==
    ASSUME IInv, OwnInv, NEW c \in Conns, Fresh(c), FromStart(c), ReadRequestUnit, cur.conn = c,
           Len(req[c]) >= 2, req[c][1] = "GET"
    PROVE  /\ pc' = "readline" => FromStart(c)'
           /\ pc' = "parse" => LineRead(c)'
           /\ taken'[c] \in Nat
<1>1. PICK d \in Conns : \E k \in 1..Len(req[d]) :
        GetUnit(d, k) /\ line' = Append(line, <<d, k>>)
          /\ pc' = IF EndsLine(<<d, k>>) THEN "parse" ELSE "readline"
  BY DEF ReadRequestUnit
<1>2. PICK k \in 1..Len(req[d]) :
        GetUnit(d, k) /\ line' = Append(line, <<d, k>>)
          /\ pc' = IF EndsLine(<<d, k>>) THEN "parse" ELSE "readline"
  BY <1>1
<1>3. d = c /\ k \in Nat /\ UNCHANGED <<phase, sent, end, fdtab>>
  BY <1>2, GetUnitInv DEF ReadRequestUnit
<1>4. pc = "readline" /\ UNCHANGED <<req, resp, acked, cur, job>>
  BY DEF ReadRequestUnit
<1>5. /\ resp[c] = <<>> /\ FromStart(c)
      /\ rb \in [conn : Conns \cup {NoConn}, lo : Nat, hi : Nat]
      /\ taken \in [Conns -> Nat] /\ line \in Seq(Conns \X Nat) /\ sent \in [Conns -> Nat]
  BY <1>4 DEF Fresh, IInv, TypeOK, SockTypeOK
<1>6. /\ k = Len(line) + 1
      /\ IF rb'.lo <= rb'.hi THEN rb'.lo = k + 1 /\ rb'.hi = taken'[c] ELSE taken'[c] = k
      /\ taken'[c] \in Nat /\ taken'[c] >= k
  <2>0. Len(line) \in Nat
    BY <1>5
  <2>1. CASE Buffered
    <3>1. k = rb.lo /\ rb' = [rb EXCEPT !.lo = k + 1] /\ taken' = taken
      BY <1>2, <2>1 DEF GetUnit, sockVars
    <3>2. rb.lo = Len(line) + 1 /\ rb.hi = taken[c] /\ rb.lo <= rb.hi
      BY <1>5, <2>1 DEF FromStart, Buffered
    <3>3. rb'.lo = k + 1 /\ rb'.hi = rb.hi /\ rb.hi \in Nat /\ rb.lo \in Nat /\ taken[c] \in Nat
      BY <1>5, <3>1
    <3> QED BY <3>1, <3>2, <3>3
  <2>2. CASE ~Buffered
    <3>1. /\ k = taken[c] + 1 /\ HasData(c)
          /\ rb' = [conn |-> c, lo |-> k + 1, hi |-> taken[c] + ReadSize(c, BufSize)]
          /\ TakeData(c, ReadSize(c, BufSize))
      BY <1>2, <1>3, <2>2 DEF GetUnit
    <3>2. taken[c] = Len(line)
      BY <1>5, <2>2 DEF FromStart
    <3>3. ReadSize(c, BufSize) \in Nat /\ ReadSize(c, BufSize) >= 1
      BY SMTT(30), <1>5, <3>1, EpollWebAssumption DEF ReadSize, HasData, Avail
    <3>4. taken'[c] = taken[c] + ReadSize(c, BufSize)
      BY <1>5, <3>1 DEF TakeData
    <3>5. rb'.lo = k + 1 /\ rb'.hi = taken[c] + ReadSize(c, BufSize)
      BY <3>1
    <3> QED BY <1>3, <1>5, <2>0, <3>1, <3>2, <3>3, <3>4, <3>5
  <2> QED BY <2>1, <2>2
<1>7. Len(line') = k /\ \A j \in 1..Len(line') : line'[j] = <<c, j>>
  <2>1. <<c, k>> \in Conns \X Nat
    BY <1>3
  <2>2. \A j \in 1..Len(line) : line[j] = <<c, j>>
    BY <1>5 DEF FromStart
  <2>3. line' = Append(line, <<c, k>>) /\ Len(line) \in Nat
    BY <1>2, <1>3, <1>5
  <2>4. /\ Len(line') = Len(line) + 1
        /\ \A j \in 1..Len(line) : line'[j] = line[j]
        /\ line'[Len(line) + 1] = <<c, k>>
    BY <1>5, <2>1, <2>3, AppendProperties
  <2>5. \A j \in 1..Len(line') : j \in 1..Len(line) \/ j = k
    BY <1>6, <2>3, <2>4
  <2> QED BY <1>6, <2>2, <2>3, <2>4, <2>5
<1>8. CASE pc' = "readline"
  <2>1. FromStart(c)'
    BY <1>6, <1>7 DEF FromStart, Buffered
  <2> QED BY <1>6, <1>8, <2>1
<1>9. CASE pc' = "parse"
  <2>1. req[c][1] = "GET" /\ EndsLine(<<c, k>>)
    BY <1>2, <1>3, <1>9
  <2>2. k # 1
    <3> SUFFICES ASSUME k = 1 PROVE FALSE
      OBVIOUS
    <3>1. UnitOf(<<c, k>>) = "GET"
      BY <2>1 DEF UnitOf
    <3>2. ~(Len(line) + 1 >= LineMax - 1)
      BY <1>5, <1>6, EpollWebAssumption
    <3> QED BY <2>1, <3>1, <3>2 DEF EndsLine
  <2>3. LineRead(c)'
    BY <1>3, <1>6, <1>7, <2>2 DEF LineRead
  <2> QED BY <1>6, <1>9, <2>3
<1> QED BY <1>2, <1>8, <1>9

(* ... and of a later one. *)
LEMMA LaterRead ==
    ASSUME IInv, NEW c \in Conns, GivenUp(c), Later(c), ReadRequestUnit, cur.conn = c
    PROVE  GivenUp(c)' /\ Later(c)' /\ line' # <<>>
<1>1. PICK d \in Conns : \E k \in 1..Len(req[d]) : GetUnit(d, k) /\ line' = Append(line, <<d, k>>)
  BY DEF ReadRequestUnit
<1>2. PICK k \in 1..Len(req[d]) : GetUnit(d, k) /\ line' = Append(line, <<d, k>>)
  BY <1>1
<1>3. d = c /\ k \in Nat
  BY <1>2, GetUnitInv DEF ReadRequestUnit
<1>4. /\ taken \in [Conns -> Nat] /\ taken[c] \in Nat /\ sent[c] \in Nat /\ line \in Seq(Conns \X Nat)
      /\ Len(req[c]) \in Nat /\ UNCHANGED <<req, cut>>
      /\ rb \in [conn : Conns \cup {NoConn}, lo : Nat, hi : Nat]
  <2>1. taken \in [Conns -> Nat] /\ taken[c] \in Nat /\ sent[c] \in Nat
    BY DEF IInv, TypeOK, SockTypeOK
  <2>2. req[c] \in Seq(STRING)
    BY EpollWebAssumption DEF IInv, TypeOK
  <2>3. Len(req[c]) \in Nat
    BY <2>2
  <2>4. line \in Seq(Conns \X Nat) /\ rb \in [conn : Conns \cup {NoConn}, lo : Nat, hi : Nat]
    BY DEF IInv, TypeOK
  <2>5. UNCHANGED <<req, cut>>
    BY DEF ReadRequestUnit
  <2> QED BY <2>1, <2>3, <2>4, <2>5
<1>5. k >= 2 /\ (rb'.lo <= rb'.hi => rb'.lo >= 2) /\ taken'[c] >= 1
  <2>1. CASE Buffered
    <3>1. k = rb.lo /\ rb' = [rb EXCEPT !.lo = k + 1] /\ UNCHANGED taken
      BY <1>2, <2>1 DEF GetUnit, sockVars
    <3>2. rb'.lo = k + 1
      BY <1>4, <3>1
    <3> QED BY <1>3, <2>1, <3>1, <3>2 DEF Later, GivenUp
  <2>2. CASE ~Buffered
    <3>1. /\ k = taken[c] + 1 /\ HasData(c)
          /\ rb' = [conn |-> c, lo |-> k + 1, hi |-> taken[c] + ReadSize(c, BufSize)]
          /\ TakeData(c, ReadSize(c, BufSize))
      BY <1>2, <1>3, <2>2 DEF GetUnit
    <3>2. ReadSize(c, BufSize) \in Nat
      BY <1>4, <3>1, EpollWebAssumption DEF ReadSize, HasData, Avail
    <3>3. taken'[c] = taken[c] + ReadSize(c, BufSize)
      BY <1>4, <3>1 DEF TakeData
    <3>4. rb'.lo = k + 1
      BY <3>1
    <3> QED BY <1>3, <1>4, <3>1, <3>2, <3>3, <3>4 DEF GivenUp
  <2> QED BY <2>1, <2>2
<1>6. /\ Len(line') = Len(line) + 1 /\ Len(line) \in Nat
      /\ \A j \in 1..Len(line) : line'[j] = line[j]
      /\ line'[Len(line) + 1] = <<c, k>>
  <2>1. <<c, k>> \in Conns \X Nat
    BY <1>3
  <2>2. line' = Append(line, <<c, k>>)
    BY <1>2, <1>3
  <2> QED BY <1>4, <2>1, <2>2, AppendProperties
<1>7. \A j \in 1..Len(line') : \E i \in 2..Len(req'[c]) : line'[j] = <<c, i>>
  <2> SUFFICES ASSUME NEW j \in 1..Len(line') PROVE \E i \in 2..Len(req'[c]) : line'[j] = <<c, i>>
    OBVIOUS
  <2>1. CASE j \in 1..Len(line)
    BY <1>4, <1>6, <2>1 DEF Later
  <2>2. CASE j = Len(line) + 1
    <3>1. k \in 2..Len(req'[c])
      BY <1>2, <1>3, <1>4, <1>5
    <3> QED BY <1>6, <2>2, <3>1
  <2> QED BY <1>6, <2>1, <2>2
<1>8. line' # <<>>
  <2>1. Len(line') # 0
    BY <1>6
  <2> QED BY <2>1
<1>9. Later(c)'
  BY <1>5, <1>7 DEF Later, Buffered
<1> QED BY <1>4, <1>5, <1>8, <1>9 DEF GivenUp

LEMMA AskRead ==
    ASSUME IInv, OwnInv, Next, NEW c \in Conns, NEW name \in Paths, AsksOnce(c, name), AskInv(c, name),
           ReadRequestUnit, cur.conn = c
    PROVE  AskInv(c, name)'
<1>1. /\ pc = "readline" /\ pc' \in {"readline", "parse"} /\ UNCHANGED <<resp, cut, cur>>
  BY DEF ReadRequestUnit
<1>2. PICK d \in Conns : \E k \in 1..Len(req[d]) : GetUnit(d, k)
  BY DEF ReadRequestUnit
<1>3. phase' = phase /\ phase[c] = "open"
  BY <1>1, <1>2, GetUnitFrame, AtWork
<1>4. Kept(c, name)'
  BY <1>1, <1>3, KeptFrame DEF AskInv
<1>5. CASE Fresh(c) /\ FromStart(c)
  <2>1. (pc' = "readline" => FromStart(c)') /\ (pc' = "parse" => LineRead(c)')
    BY <1>5, FirstRead DEF AsksOnce, Asks
  <2>2. Fresh(c)'
    BY <1>1, <1>5 DEF Fresh
  <2>3. Stands(c, name)'
    BY <1>1, <2>1, <2>2 DEF Stands, Handling
  <2> QED BY <1>4, <2>3 DEF AskInv
<1>6. CASE GivenUp(c) /\ Later(c)
  <2>1. GivenUp(c)' /\ Later(c)' /\ line' # <<>>
    BY <1>6, LaterRead
  <2>2. Stands(c, name)'
    BY <1>1, <2>1 DEF Stands, Handling
  <2> QED BY <1>4, <2>2 DEF AskInv
<1> QED BY <1>1, <1>5, <1>6 DEF AskInv, Stands

(* The sends after the first lead on from where it ends. *)
LEMMA LeadsOn ==
    ASSUME NEW todo \in Seq(Piece), todo # <<>>, NEW k \in Nat, NEW m \in Nat, Leads(todo, k, m)
    PROVE  /\ todo[1].lo = k + 1 /\ todo[1].len \in Nat \ {0} /\ k + todo[1].len <= m
           /\ Leads(Tail(todo), k + todo[1].len, m)
<1>1. /\ Len(todo) \in Nat /\ Len(todo) >= 1 /\ todo[1] \in Piece /\ Tail(todo) \in Seq(Piece)
      /\ Len(Tail(todo)) = Len(todo) - 1
      /\ \A j \in 1..Len(Tail(todo)) : Tail(todo)[j] = todo[j + 1]
  OBVIOUS
<1>2. /\ todo[1].lo = k + 1 /\ todo[1].len > 0 /\ todo[1].lo + todo[1].len <= m + 1
      /\ todo[1].lo + todo[1].len = IF 1 < Len(todo) THEN todo[2].lo ELSE m + 1
  BY <1>1 DEF Leads
<1>3. todo[1].len \in Nat
  BY <1>1 DEF Piece
<1>4. IF Tail(todo) = <<>> THEN k + todo[1].len = m ELSE Tail(todo)[1].lo = k + todo[1].len + 1
  <2>1. CASE Len(todo) = 1
    <3>1. Tail(todo) = <<>>
      <4>1. \A s \in Seq(Piece) : Len(s) = 0 => s = <<>>
        BY EmptySeq
      <4>2. Len(Tail(todo)) = 0
        BY <1>1, <2>1
      <4> QED BY <1>1, <4>1, <4>2
    <3> QED BY <1>2, <1>3, <2>1, <3>1
  <2>2. CASE Len(todo) # 1
    <3>1. Tail(todo) # <<>> /\ 1 < Len(todo) /\ Tail(todo)[1] = todo[2]
      <4>1. Len(Tail(todo)) # 0 /\ 1 < Len(todo) /\ 1 \in 1..Len(Tail(todo))
        BY <1>1, <2>2
      <4>2. Tail(todo) # <<>>
        BY <1>1, <4>1, EmptySeq
      <4>3. Tail(todo)[1] = todo[2]
        BY <1>1, <4>1
      <4> QED BY <4>1, <4>2, <4>3
    <3> QED BY SMTT(30), <1>2, <1>3, <3>1
  <2> QED BY <2>1, <2>2
<1>5. ASSUME NEW j \in 1..Len(Tail(todo))
      PROVE  /\ Tail(todo)[j].len > 0 /\ Tail(todo)[j].lo + Tail(todo)[j].len <= m + 1
             /\ Tail(todo)[j].lo + Tail(todo)[j].len =
                  IF j < Len(Tail(todo)) THEN Tail(todo)[j + 1].lo ELSE m + 1
  <2>1. /\ j + 1 \in 1..Len(todo) /\ Tail(todo)[j] = todo[j + 1]
        /\ (j < Len(Tail(todo))) = (j + 1 < Len(todo))
        /\ j < Len(Tail(todo)) => j + 1 \in 1..Len(Tail(todo))
    BY <1>1
  <2>2. j < Len(Tail(todo)) => Tail(todo)[j + 1] = todo[(j + 1) + 1]
    BY <1>1, <2>1
  <2>3. /\ todo[j + 1].len > 0 /\ todo[j + 1].lo + todo[j + 1].len <= m + 1
        /\ todo[j + 1].lo + todo[j + 1].len = IF j + 1 < Len(todo) THEN todo[(j + 1) + 1].lo ELSE m + 1
    BY <2>1 DEF Leads
  <2> QED BY <2>1, <2>2, <2>3
<1> DEFINE t == Tail(todo)
<1>6. Leads(t, k + todo[1].len, m)
  <2> HIDE DEF t
  <2> QED BY <1>4, <1>5 DEF Leads, t
<1>7. k + todo[1].len <= m
  BY <1>2, <1>3
<1> QED BY <1>2, <1>3, <1>6, <1>7

(* What is taken of the next piece comes behind all that was taken before. *)
LEMMA RisingOn ==
    ASSUME NEW s \in Seq(Nat), Rising(s), NEW k \in Nat, NEW n \in Nat, \A i \in DOMAIN s : s[i] <= k
    PROVE  /\ Rising(s \o Positions(k + 1, n))
           /\ \A i \in DOMAIN (s \o Positions(k + 1, n)) : (s \o Positions(k + 1, n))[i] <= k + n
<1> DEFINE b == Positions(k + 1, n)
           t == s \o b
<1>1. b \in Seq(Int) /\ Len(b) = n
  BY PositionsLen
<1>2. \A i \in 1..n : b[i] = k + i
  BY DEF Positions
<1> HIDE DEF b
<1>3. s \in Seq(Int) /\ Len(s) \in Nat /\ DOMAIN s = 1..Len(s)
  OBVIOUS
<1>4. t \in Seq(Int) /\ Len(t) = Len(s) + n
  BY <1>1, <1>3, ConcatProperties
<1>5. \A i \in 1..Len(s) : t[i] = s[i]
  <2> SUFFICES ASSUME NEW i \in 1..Len(s) PROVE t[i] = s[i]
    OBVIOUS
  <2>1. i \in 1..(Len(s) + Len(b)) /\ i <= Len(s)
    BY <1>1, <1>3
  <2> QED BY <1>1, <1>3, <2>1, ConcatProperties
<1>6. \A i \in 1..n : t[Len(s) + i] = k + i
  <2> SUFFICES ASSUME NEW i \in 1..n PROVE t[Len(s) + i] = k + i
    OBVIOUS
  <2> DEFINE j == Len(s) + i
  <2>1. j \in 1..(Len(s) + Len(b)) /\ ~(j <= Len(s)) /\ j - Len(s) = i
    BY <1>1, <1>3
  <2> HIDE DEF j
  <2>2. t[j] = b[j - Len(s)]
    BY <1>1, <1>3, <2>1, ConcatProperties
  <2>3. t[j] = k + i
    BY <1>2, <2>1, <2>2
  <2> QED BY <2>3 DEF j
<1> HIDE DEF t
<1>7. DOMAIN t = 1..(Len(s) + n)
  BY <1>4
<1>8. \A i \in DOMAIN t : \/ i \in 1..Len(s) /\ t[i] = s[i] /\ s[i] \in Nat /\ s[i] <= k
                          \/ i > Len(s) /\ i \in Nat /\ i - Len(s) \in 1..n /\ t[i] = k + (i - Len(s))
  <2> SUFFICES ASSUME NEW i \in DOMAIN t
               PROVE  \/ i \in 1..Len(s) /\ t[i] = s[i] /\ s[i] \in Nat /\ s[i] <= k
                      \/ i > Len(s) /\ i \in Nat /\ i - Len(s) \in 1..n /\ t[i] = k + (i - Len(s))
    OBVIOUS
  <2>1. CASE i \in 1..Len(s)
    <3>1. s[i] \in Nat
      BY <2>1
    <3> QED BY <1>3, <1>5, <2>1, <3>1
  <2>2. CASE i \notin 1..Len(s)
    <3> DEFINE x == i - Len(s)
    <3>1. x \in 1..n /\ i = Len(s) + x /\ i > Len(s) /\ i \in Nat
      BY <1>3, <1>7, <2>2
    <3> HIDE DEF x
    <3>2. t[i] = k + x
      BY <1>6, <3>1
    <3> QED BY <3>1, <3>2 DEF x
  <2> QED BY <2>1, <2>2
<1>9. \A i \in DOMAIN t : t[i] <= k + n
  BY <1>8
<1>10. Rising(t)
  <2> SUFFICES ASSUME NEW i \in DOMAIN t, NEW j \in DOMAIN t, i < j PROVE t[i] < t[j]
    BY DEF Rising
  <2>0. Len(s) \in Nat /\ i \in Nat /\ j \in Nat
    BY <1>3, <1>7
  <2>1. CASE j \in 1..Len(s)
    <3>1. i \in 1..Len(s) /\ i \in DOMAIN s /\ j \in DOMAIN s
      BY <1>3, <2>0, <2>1, <1>7
    <3>2. s[i] < s[j]
      BY <3>1 DEF Rising
    <3> QED BY <1>5, <2>1, <3>1, <3>2
  <2>2. CASE j > Len(s) /\ j - Len(s) \in 1..n /\ t[j] = k + (j - Len(s))
    <3>1. CASE i \in 1..Len(s)
      <4>1. t[i] \in Nat /\ t[i] <= k
        BY <1>8, <2>0, <3>1
      <4> QED BY <2>0, <2>2, <4>1
    <3>2. CASE i > Len(s)
      <4>1. t[i] = k + (i - Len(s))
        BY <1>8, <2>0, <3>2
      <4> QED BY <2>0, <2>2, <4>1
    <3> QED BY <1>8, <3>1, <3>2
  <2> QED BY <1>8, <2>1, <2>2
<1> QED BY <1>9, <1>10 DEF t, b

-----------------------------------------------------------------------------
(* The line that is parsed: the page asked for, or, from one word, none;   *)
(* and no line but the first asks for one.                                 *)
LEMMA AskParse ==
    ASSUME IInv, OwnInv, Next, NEW c \in Conns, NEW name \in Paths, AsksOnce(c, name), AskInv(c, name),
           ParseGet, cur.conn = c
    PROVE  AskInv(c, name)'
<1>1. /\ pc = "parse" /\ pc' = "send" /\ job' = Reply(Name) /\ IsGet
      /\ UNCHANGED <<phase, taken, resp, cut, cur>>
  BY DEF ParseGet, sockVars
<1>2. /\ req[c][1] = "GET" /\ req[c][2] = name /\ line \in Seq(Conns \X Nat) /\ taken[c] \in Nat
      /\ \A k \in 3..Len(req[c]) : req[c][k] # "GET"
      /\ Len(req[c]) \in Nat /\ name # "GET"
  BY EpollWebAssumption DEF AsksOnce, Asks, IInv, TypeOK, SockTypeOK, Paths
<1>3. Fresh(c) /\ LineRead(c)
  <2>1. ~(line # <<>> /\ Later(c))
    <3> SUFFICES ASSUME line # <<>>, Later(c) PROVE FALSE
      OBVIOUS
    <3>1. 1 \in 1..Len(line)
      BY <1>2
    <3>2. PICK k \in 2..Len(req[c]) : line[1] = <<c, k>>
      BY <3>1 DEF Later
    <3>3. req[c][k] = "GET"
      BY <1>1, <3>2 DEF IsGet, UnitOf
    <3>4. k = 2 \/ k \in 3..Len(req[c])
      BY <1>2, <3>2
    <3> QED BY <1>2, <3>3, <3>4
  <2> QED BY <1>1, <2>1 DEF AskInv, Stands
<1>4. Kept(c, name)'
  BY <1>1, KeptFrame DEF AskInv
<1>t. taken[c] >= 1
  BY <1>2, <1>3 DEF LineRead
<1>5. \E n \in Paths :
        /\ job' = Reply(n) /\ Len(Page(n)) <= Len(Page(name))
        /\ taken[c] >= 2 => n = name
  <2>0. Len(Page(name)) \in Nat
    BY PageLen
  <2>1. CASE Len(line) = 1
    <3>1. taken[c] = 1 /\ line[1] = <<c, 1>>
      BY <1>3, <2>1 DEF LineRead
    <3>2. ~HasName
      BY <1>2, <2>1, <3>1 DEF HasName, UnitOf, Words
    <3>3. job' = Reply("gone") /\ Len(Page("gone")) <= Len(Page(name)) /\ "gone" \in Paths
      BY <1>1, <3>2, NamelessReply DEF Name, Paths
    <3> QED BY <3>1, <3>3
  <2>2. CASE Len(line) # 1
    <3>1. Len(line) >= 2 /\ taken[c] >= 2 /\ line[2] = <<c, 2>>
      <4>1. Len(line) \in Nat
        BY <1>2
      <4>2. Len(line) >= 1 /\ taken[c] >= 2 /\ line[2] = <<c, 2>>
        BY <1>3, <2>2, Zenon DEF LineRead
      <4>n. \A n \in Nat : n >= 1 /\ n # 1 => n >= 2
        OBVIOUS
      <4>3. Len(line) >= 2
        BY <2>2, <4>1, <4>2, <4>n, Zenon
      <4> QED BY <4>2, <4>3
    <3>2. UnitOf(line[2]) = name /\ 2 \in 1..Len(line)
      BY <1>2, <3>1 DEF UnitOf
    <3>3. name \notin {"junk", "nl"} /\ name \notin Words
      BY DEF Paths, Words
    <3>4. HasName /\ Name = name
      BY <3>2, <3>3 DEF HasName, Name
    <3> QED BY <1>1, <1>2, <2>0, <3>1, <3>4
  <2> QED BY <2>1, <2>2
<1>6. PICK n \in Paths :
        /\ job' = Reply(n) /\ Len(Page(n)) <= Len(Page(name))
        /\ taken[c] >= 2 => n = name
  BY <1>5
<1>7. job'.close /\ Leads(job'.todo, 0, Len(Page(n))) /\ Len(Page(n)) \in Nat
  BY <1>6, ReplyLeads, PageLen
<1>8. OnPage(c, name)'
  <2> DEFINE m == Len(Page(n))
  <2>1. Leads(job'.todo, 0, m) /\ m \in Nat /\ 0 \in Nat /\ m <= Len(Page(name))
    BY <1>6, <1>7
  <2>2. taken'[c] >= 2 => m = Len(Page(name))
    BY <1>1, <1>6
  <2>3. resp'[c] = <<>>
    BY <1>1, <1>3 DEF Fresh
  <2> HIDE DEF m
  <2>4. (\A i \in DOMAIN resp'[c] : resp'[c][i] <= 0) /\ Len(resp'[c]) = 0
    BY <2>3
  <2> QED BY <2>1, <2>2, <2>4 DEF OnPage, Leads, Page
<1>9. Stands(c, name)'
  BY <1>1, <1>t, <1>7, <1>8 DEF Stands, Handling
<1> QED BY <1>4, <1>9 DEF AskInv

(* What is known while a page goes out. *)
LEMMA Sending ==
    ASSUME IInv, OwnInv, NEW c \in Conns, NEW name \in Paths, AskInv(c, name),
           pc = "send", cur.conn = c, job.todo # <<>>
    PROVE  /\ job.todo \in Seq(Piece) /\ job.close /\ OnPage(c, name) /\ taken[c] >= 1
           /\ Conn = c /\ phase[c] = "open" /\ resp \in [Conns -> Seq(Nat)]
           /\ Len(resp[c]) \in Nat /\ taken[c] \in Nat /\ Len(Page(name)) \in Nat
           /\ SndBuf \in Nat /\ Room(c) \in Int /\ Room(c) >= SndBuf - Len(resp[c])
<1>1. job.todo \in Seq(Piece) /\ resp \in [Conns -> Seq(Nat)]
  BY DEF IInv, TypeOK
<1>2. job.close /\ OnPage(c, name) /\ taken[c] >= 1
  BY DEF AskInv, Stands
<1>3. Conn = c /\ phase[c] = "open"
  BY AtWork
<1>4. Len(resp[c]) \in Nat /\ taken[c] \in Nat /\ acked[c] \in Nat
  BY <1>1 DEF IInv, TypeOK, SockTypeOK
<1>5. Len(Page(name)) \in Nat
  BY PageLen
<1>6. SndBuf \in Nat
  BY EpollWebAssumption
<1>7. Room(c) = SndBuf - (Len(resp[c]) - acked[c])
  BY DEF Room
<1>8. Room(c) \in Int /\ Room(c) >= SndBuf - Len(resp[c])
  BY <1>4, <1>6, <1>7
<1> QED BY <1>1, <1>2, <1>3, <1>4, <1>5, <1>6, <1>8

(* One send(), of which the kernel takes all or as much as it has room for.*)
LEMMA AskSendPiece ==
    ASSUME IInv, OwnInv, Next, NEW c \in Conns, NEW name \in Paths, AskInv(c, name),
           SendPiece, cur.conn = c
    PROVE  AskInv(c, name)'
<1> DEFINE p == Head(job.todo)
           q == IF Room(c) < p.len THEN Room(c) ELSE p.len
           M == Len(Page(name))
<1>1. pc = "send" /\ job.todo # <<>> /\ pc' = pc /\ UNCHANGED <<phase, sent, taken, end, fdtab, cur>>
  BY DEF SendPiece, sockVars
<1>2. /\ job.todo \in Seq(Piece) /\ job.close /\ OnPage(c, name) /\ taken[c] >= 1
      /\ Conn = c /\ phase[c] = "open" /\ resp \in [Conns -> Seq(Nat)]
      /\ Len(resp[c]) \in Nat /\ M \in Nat /\ SndBuf \in Nat
      /\ Room(c) \in Int /\ Room(c) >= SndBuf - Len(resp[c])
  BY <1>1, Sending
<1>3. /\ resp' = [resp EXCEPT ![c] = @ \o Positions(p.lo, q)] /\ job' = [job EXCEPT !.todo = Tail(@)]
      /\ Room(c) > 0 /\ cut' = IF q < p.len THEN cut \cup {c} ELSE cut
      /\ end[c] \in {"none", "fin"}
  BY <1>2 DEF SendPiece
<1>4. job'.close /\ job'.todo = Tail(job.todo) /\ p = job.todo[1]
  <2>1. job \in [todo : Seq(Piece), close : BOOLEAN]
    BY DEF IInv, TypeOK
  <2> QED BY <1>1, <1>2, <1>3, <2>1
<1>5. PICK k \in Nat : \E m \in Nat :
        /\ Leads(job.todo, k, m) /\ m <= M
        /\ taken[c] >= 2 => m = M
        /\ \A i \in DOMAIN resp[c] : resp[c][i] <= k
        /\ c \notin cut => Len(resp[c]) = k
  BY <1>2 DEF OnPage
<1>6. PICK m \in Nat :
        /\ Leads(job.todo, k, m) /\ m <= M
        /\ taken[c] >= 2 => m = M
        /\ \A i \in DOMAIN resp[c] : resp[c][i] <= k
        /\ c \notin cut => Len(resp[c]) = k
  BY <1>5
<1>7. p.lo = k + 1 /\ p.len \in Nat \ {0} /\ k + p.len <= m /\ Leads(Tail(job.todo), k + p.len, m)
  BY <1>1, <1>2, <1>4, <1>6, LeadsOn
<1>8. resp'[c] = resp[c] \o Positions(k + 1, q) /\ q \in Nat /\ q <= p.len
  <2>1. q \in Nat /\ q <= p.len
    BY SMTT(30), <1>2, <1>3, <1>7
  <2> HIDE DEF p, q
  <2>2. resp'[c] = resp[c] \o Positions(p.lo, q)
    BY <1>2, <1>3
  <2> QED BY <1>7, <2>1, <2>2
<1>9. Kept(c, name)
  BY DEF AskInv
<1> HIDE DEF p, q, M
<1>10. Rising(resp'[c]) /\ \A i \in DOMAIN resp'[c] : resp'[c][i] <= k + p.len
  <2>1. resp[c] \in Seq(Nat) /\ Rising(resp[c])
    BY <1>2, <1>9 DEF Kept
  <2> DEFINE t == resp[c] \o Positions(k + 1, q)
  <2>2. Rising(t) /\ \A i \in DOMAIN t : t[i] <= k + q
    BY <1>6, <1>8, <2>1, RisingOn
  <2>3. resp' \in [Conns -> Seq(Nat)]
    BY TypeStep DEF TypeOK
  <2>4. t = resp'[c] /\ resp'[c] \in Seq(Nat)
    BY <1>8, <2>3
  <2> HIDE DEF t
  <2>5. \A i \in DOMAIN resp'[c] : resp'[c][i] \in Nat /\ resp'[c][i] <= k + q
    BY <2>2, <2>4
  <2>6. \A x \in Nat : x <= k + q => x <= k + p.len
    BY <1>7, <1>8
  <2> QED BY <2>2, <2>4, <2>5, <2>6
<1>11. c \notin cut' => resp'[c] = Positions(1, k + p.len) /\ Len(resp'[c]) = k + p.len
  <2> SUFFICES ASSUME c \notin cut'
               PROVE  resp'[c] = Positions(1, k + p.len) /\ Len(resp'[c]) = k + p.len
    OBVIOUS
  <2>1. c \notin cut /\ ~(q < p.len)
    BY <1>3
  <2>2. q = p.len
    BY <1>7, <1>8, <2>1
  <2>3. resp[c] = Positions(1, k)
    BY <1>6, <1>9, <2>1 DEF Kept
  <2>4. Positions(1, k) \o Positions(k + 1, p.len) = Positions(1, k + p.len)
    BY <1>7, PositionsJoin
  <2>5. k + p.len \in Nat /\ 1 \in Nat
    BY <1>7
  <2>6. resp'[c] = Positions(1, k + p.len)
    BY <1>8, <2>2, <2>3, <2>4
  <2>7. Len(Positions(1, k + p.len)) = k + p.len
    BY <2>5, PositionsLen
  <2> QED BY <2>6, <2>7
<1>12. M <= SndBuf => c \notin cut'
  <2> SUFFICES ASSUME M <= SndBuf PROVE c \notin cut'
    OBVIOUS
  <2>1. c \notin cut /\ Len(resp[c]) = k
    BY <1>3, <1>6, <1>9 DEF Kept, M
  <2>2. Room(c) >= p.len
    BY <1>2, <1>6, <1>7, <2>1
  <2>3. ~(q < p.len)
    BY <1>2, <1>7, <2>2 DEF q
  <2> QED BY <1>3, <2>1, <2>3
<1>13. Kept(c, name)'
  <2>1. Rising(resp[c])'
    BY <1>10 DEF Rising
  <2>2. c \notin cut' => resp'[c] = Positions(1, Len(resp'[c])) /\ Len(resp'[c]) <= M
    BY <1>2, <1>6, <1>7, <1>11
  <2>3. phase'[c] # "closed"
    BY <1>1, <1>2
  <2> QED BY <1>12, <2>1, <2>2, <2>3 DEF Kept, Page, M
<1>14. OnPage(c, name)'
  <2> DEFINE l == k + p.len
  <2>1. l \in Nat /\ Leads(job'.todo, l, m)
    BY <1>4, <1>7
  <2>2. (\A i \in DOMAIN resp'[c] : resp'[c][i] <= l) /\ (c \notin cut' => Len(resp'[c]) = l)
    BY <1>10, <1>11
  <2>3. (taken'[c] >= 2 => m = M) /\ m <= M
    BY <1>1, <1>6
  <2> HIDE DEF l
  <2> QED BY <2>1, <2>2, <2>3 DEF OnPage, Leads, Page, M
<1> QED BY <1>1, <1>2, <1>4, <1>13, <1>14 DEF AskInv, Stands, Handling

(* A send() that fails, and is looked at or not.                           *)
LEMMA AskSendFails ==
    ASSUME IInv, OwnInv, Next, NEW c \in Conns, NEW name \in Paths, AskInv(c, name),
           SendFails, cur.conn = c
    PROVE  AskInv(c, name)'
<1> DEFINE M == Len(Page(name))
<1>1. pc = "send" /\ job.todo # <<>> /\ pc' = pc /\ UNCHANGED <<phase, taken, resp, cur>>
  BY DEF SendFails, TakeError
<1>2. /\ job.todo \in Seq(Piece) /\ job.close /\ OnPage(c, name) /\ taken[c] >= 1
      /\ Conn = c /\ phase[c] = "open"
      /\ Len(resp[c]) \in Nat /\ M \in Nat /\ SndBuf \in Nat
      /\ Room(c) \in Int /\ Room(c) >= SndBuf - Len(resp[c])
  BY <1>1, Sending
<1>3. /\ cut' = cut \cup {c}
      /\ end[c] = "rst" \/ Room(c) <= 0
      /\ TakeError(c)
      /\ job' = IF Head(job.todo).must THEN [todo |-> <<>>, close |-> FALSE] ELSE [job EXCEPT !.todo = Tail(@)]
  BY <1>2 DEF SendFails
<1>5. PICK k \in Nat : \E m \in Nat :
        /\ Leads(job.todo, k, m) /\ m <= M
        /\ taken[c] >= 2 => m = M
        /\ \A i \in DOMAIN resp[c] : resp[c][i] <= k
        /\ c \notin cut => Len(resp[c]) = k
  BY <1>2 DEF OnPage
<1>6. PICK m \in Nat :
        /\ Leads(job.todo, k, m) /\ m <= M
        /\ taken[c] >= 2 => m = M
        /\ \A i \in DOMAIN resp[c] : resp[c][i] <= k
        /\ c \notin cut => Len(resp[c]) = k
  BY <1>5
<1>7. job.todo[1].len \in Nat \ {0} /\ k + job.todo[1].len <= m /\ Leads(Tail(job.todo), k + job.todo[1].len, m)
  BY <1>1, <1>2, <1>6, LeadsOn
<1>8. Kept(c, name)
  BY DEF AskInv
<1>9. M <= SndBuf => ~(end'[c] \in {"none", "fin"})
  <2> SUFFICES ASSUME M <= SndBuf, end'[c] \in {"none", "fin"} PROVE FALSE
    OBVIOUS
  <2>0. end \in [Conns -> Ends]
    BY DEF IInv, TypeOK, SockTypeOK
  <2>1. end[c] \in {"none", "fin"} /\ end[c] # "rst"
    BY <1>3, <2>0 DEF TakeError
  <2>2. c \notin cut
    BY <1>8, <2>1 DEF Kept
  <2>3. Len(resp[c]) = k /\ Room(c) <= 0
    BY <1>3, <1>6, <2>1, <2>2
  <2> QED BY <1>2, <1>6, <1>7, <2>3
<1> HIDE DEF M
<1>10. Kept(c, name)'
  <2>1. Rising(resp[c])'
    BY <1>1, <1>8 DEF Kept, Rising
  <2>2. c \in cut'
    BY <1>3
  <2> QED BY <1>9, <2>1, <2>2 DEF Kept, Page, M
<1>11. CASE Head(job.todo).must
  <2>1. job' = [todo |-> <<>>, close |-> FALSE] /\ c \in cut'
    BY <1>3, <1>11
  <2>2. job'.todo = <<>> /\ job'.close = FALSE
    BY <2>1
  <2>3. Stands(c, name)'
    BY <1>1, <1>2, <2>1, <2>2 DEF Stands, Handling
  <2> QED BY <1>10, <2>3 DEF AskInv
<1>12. CASE ~Head(job.todo).must
  <2>1. job'.close /\ job'.todo = Tail(job.todo) /\ c \in cut'
    <3>1. job \in [todo : Seq(Piece), close : BOOLEAN]
      BY DEF IInv, TypeOK
    <3> QED BY <1>2, <1>3, <1>12, <3>1
  <2> DEFINE l == k + job.todo[1].len
  <2>2. l \in Nat /\ Leads(job'.todo, l, m)
    BY <1>7, <2>1
  <2>3. \A i \in DOMAIN resp'[c] : resp'[c][i] <= l
    <3>1. resp[c] \in Seq(Nat)
      BY DEF IInv, TypeOK
    <3>2. \A i \in DOMAIN resp[c] : resp[c][i] \in Nat /\ resp[c][i] <= k
      BY <1>6, <3>1
    <3>3. \A x \in Nat : x <= k => x <= l
      BY <1>7
    <3> QED BY <1>1, <3>2, <3>3
  <2> HIDE DEF l
  <2>4. OnPage(c, name)'
    BY <1>1, <1>6, <2>1, <2>2, <2>3 DEF OnPage, Leads, Page, M
  <2>5. Stands(c, name)'
    BY <1>1, <1>2, <2>1, <2>4 DEF Stands, Handling
  <2> QED BY <1>10, <2>5 DEF AskInv
<1> QED BY <1>11, <1>12

(* SendData() is through: the connection is closed on the whole page, or   *)
(* on one that was cut, or left open on a part.                            *)
LEMMA AskSendDone ==
    ASSUME IInv, OwnInv, Next, NEW c \in Conns, NEW name \in Paths, AskInv(c, name), SendDone
    PROVE  AskInv(c, name)'
<1>1. /\ pc = "send" /\ job.todo = <<>> /\ pc' = "drain"
      /\ IF job.close THEN CloseFd(cur.fd) ELSE UNCHANGED sockVars
      /\ UNCHANGED <<resp, cut, cur>>
  BY DEF SendDone
<1>2. UNCHANGED taken
  BY <1>1 DEF CloseFd, sockVars
<1>3. CASE job.close
  <2>1. phase' = [phase EXCEPT ![cur.conn] = "closed"]
    BY <1>1, <1>3, OwnClose
  <2>2. cur.conn = c => c \in cut \/ ~(taken[c] >= 2) \/ resp[c] = Page(name)
    <3> SUFFICES ASSUME cur.conn = c, c \notin cut, taken[c] >= 2 PROVE resp[c] = Page(name)
      OBVIOUS
    <3>1. OnPage(c, name) /\ resp[c] = Positions(1, Len(resp[c]))
      BY <1>1, <1>3 DEF AskInv, Stands, Kept
    <3>2. Len(resp[c]) = Len(Page(name))
      BY <1>1, <3>1 DEF OnPage, Leads
    <3>3. Page(name) = Positions(1, Len(Page(name)))
      BY PageLen
    <3> QED BY <3>1, <3>2, <3>3
  <2> QED BY <1>1, <1>2, <2>1, <2>2, Shut
<1>4. CASE ~job.close
  <2>1. phase' = phase
    BY <1>1, <1>4 DEF sockVars
  <2>2. cur.conn = c => GivenUp(c)
    BY <1>1, <1>4 DEF AskInv, Stands, GivenUp
  <2> QED BY <1>1, <1>2, <2>1, <2>2, Aside DEF Handling
<1> QED BY <1>3, <1>4

(* A new event: its client's connection is open and nothing was taken yet, *)
(* or it is one that was given up.                                         *)
LEMMA AskStart ==
    ASSUME IInv, OwnInv, Next, NEW c \in Conns, NEW name \in Paths, AskInv(c, name), StartEvent
    PROVE  AskInv(c, name)'
<1>1. PICK e \in evs : e.fd # LFd /\ cur' = e
  BY DEF StartEvent
<1>2. /\ pc = "next" /\ pc' = "readline" /\ line' = <<>>
      /\ UNCHANGED <<phase, taken, fdtab, resp, cut, rb>>
  BY DEF StartEvent, sockVars
<1>3. CASE e.conn = c
  <2>1. fdtab[e.fd] = c /\ e.fd \in OpenFds
    BY <1>1, <1>3, SocketsAssumption DEF IInv, FreshEvents, TypeOK, Event, OpenFds
  <2>2. phase[c] = "open" /\ ((taken[c] = 0 /\ Fresh(c)) \/ GivenUp(c))
    BY <1>2, <2>1 DEF OwnInv, AskInv, Stands, Handling
  <2>3. ~Buffered /\ Len(<<>>) = 0
    BY <1>2 DEF IInv, NoCrossTalk, Handling
  <2>4. taken[c] = 0 => FromStart(c)'
    BY <1>2, <2>3 DEF FromStart, Buffered
  <2>5. Later(c)'
    BY <1>2, <2>3 DEF Later, Buffered
  <2>6. Kept(c, name)'
    BY <1>2, KeptFrame DEF AskInv
  <2>7. (Fresh(c) => Fresh(c)') /\ (GivenUp(c) => GivenUp(c)')
    BY <1>2 DEF Fresh, GivenUp
  <2>8. Stands(c, name)'
    BY <1>1, <1>2, <1>3, <2>2, <2>4, <2>5, <2>7 DEF Stands, Handling
  <2> QED BY <2>6, <2>8 DEF AskInv
<1>4. CASE e.conn # c
  BY <1>1, <1>2, <1>4, Aside DEF Handling
<1> QED BY <1>3, <1>4

LEMMA AskStep ==
    ASSUME IInv, OwnInv, Next, NEW c \in Conns, NEW name \in Paths, AsksOnce(c, name), AskInv(c, name)
    PROVE  AskInv(c, name)'
<1>0. /\ phase \in [Conns -> Phases] /\ taken \in [Conns -> Nat] /\ resp \in [Conns -> Seq(Nat)]
  BY DEF IInv, TypeOK, SockTypeOK
<1>g. \A d, k : GetUnit(d, k) /\ d # c => taken'[c] = taken[c]
  BY <1>0 DEF GetUnit, TakeData, sockVars
<1>1. ASSUME NEW d \in Conns, Client(d) PROVE AskInv(c, name)'
  <2>1. UNCHANGED <<req, taken, resp, cut, pc, cur, rb, line, job>>
    BY <1>1 DEF Client, ClientConnect, Connect, ClientSend, Deliver, ClientEnd, Fin, Abort,
                Acknowledge, sockVars, webVars
  <2>2. phase'[c] = "closed" <=> phase[c] = "closed"
    BY <1>0, <1>1 DEF Client, ClientConnect, Connect, ClientSend, Deliver, ClientEnd, Fin, Abort,
                Acknowledge, sockVars
  <2>3. Kept(c, name)'
    BY <2>1, <2>2, KeptFrame DEF AskInv, Kept
  <2>4. /\ GivenUp(c)' = GivenUp(c) /\ Fresh(c)' = Fresh(c) /\ FromStart(c)' = FromStart(c)
        /\ LineRead(c)' = LineRead(c) /\ Later(c)' = Later(c)
    BY <2>1 DEF GivenUp, Fresh, FromStart, LineRead, Later, Buffered
  <2>5. OnPage(c, name) => OnPage(c, name)'
    BY <2>1 DEF OnPage, Leads, Page
  <2>6. Stands(c, name)'
    <3>1. (~(Handling /\ cur.conn = c) /\ phase[c] # "closed" => (taken[c] = 0 /\ Fresh(c)) \/ GivenUp(c))'
      BY <2>1, <2>2, <2>4 DEF AskInv, Stands, Handling
    <3>2. /\ (pc = "readline" /\ cur.conn = c => (Fresh(c) /\ FromStart(c)) \/ (GivenUp(c) /\ Later(c)))'
          /\ (pc = "parse" /\ cur.conn = c =>
               (Fresh(c) /\ LineRead(c)) \/ (GivenUp(c) /\ line # <<>> /\ Later(c)))'
          /\ (pc = "drain" /\ cur.conn = c => phase[c] = "closed" \/ GivenUp(c))'
      BY <2>1, <2>2, <2>4 DEF AskInv, Stands
    <3>3. (pc = "send" /\ cur.conn = c =>
             taken[c] >= 1 /\ IF job.close THEN OnPage(c, name) ELSE job.todo = <<>> /\ c \in cut)'
      BY <2>1, <2>5 DEF AskInv, Stands
    <3> QED BY <3>1, <3>2, <3>3 DEF Stands
  <2> QED BY <2>3, <2>6 DEF AskInv
<1>2. CASE EpollWait \/ BatchDone \/ AcceptFails
  BY <1>2, Aside DEF EpollWait, BatchDone, AcceptFails, sockVars, Handling
<1>3. CASE AcceptEvent
  <2>1. PICK d \in Conns : \E f \in Fds : AcceptConn(d, f)
    BY <1>3 DEF AcceptEvent
  <2>2. /\ pc = "next" /\ UNCHANGED <<pc, cur, resp, taken, cut>>
        /\ phase[d] = "queued" /\ phase' = [phase EXCEPT ![d] = "open"]
    BY <1>3, <2>1 DEF AcceptEvent, AcceptConn, Queued
  <2>3. phase'[c] = "closed" <=> phase[c] = "closed"
    BY <1>0, <2>2
  <2> QED BY <2>2, <2>3, Aside DEF Handling
<1>4. CASE StartEvent
  BY <1>4, AskStart
<1>5. CASE ReadRequestUnit
  <2>1. CASE cur.conn = c
    BY <1>5, <2>1, AskRead
  <2>2. CASE cur.conn # c
    <3>1. PICK d \in Conns : \E k \in 1..Len(req[d]) : GetUnit(d, k)
      BY <1>5 DEF ReadRequestUnit
    <3>2. d = cur.conn /\ UNCHANGED phase
      BY <1>5, <3>1, GetUnitInv DEF ReadRequestUnit
    <3>3. taken'[c] = taken[c]
      BY <1>g, <2>2, <3>1, <3>2
    <3>4. UNCHANGED <<resp, cut, cur>> /\ pc' \in {"readline", "parse"}
      BY <1>5 DEF ReadRequestUnit
    <3> QED BY <2>2, <3>2, <3>3, <3>4, Aside
  <2> QED BY <2>1, <2>2
<1>6. CASE ReadRequestEof
  <2>1. /\ pc = "readline" /\ pc' = "parse" /\ ~Buffered /\ line # <<>>
        /\ UNCHANGED <<phase, taken, resp, cut, cur, line, rb, req>>
    BY <1>6 DEF ReadRequestEof, GetEof, sockVars
  <2>k. Kept(c, name)'
    BY <2>1, KeptFrame DEF AskInv
  <2>2. CASE cur.conn = c
    <3>0. line \in Seq(Conns \X Nat)
      BY DEF IInv, TypeOK
    <3>a. CASE Fresh(c) /\ FromStart(c)
      <4>2. Len(line) \in Nat /\ Len(line) >= 1
        BY <2>1, <3>0, EmptySeq
      <4>3. taken[c] = Len(line) /\ \A k \in 1..Len(line) : line[k] = <<c, k>>
        BY <2>1, <3>a DEF FromStart
      <4>4. line[1] = <<c, 1>>
        BY <4>2, <4>3
      <4>5. Len(line) # 1 => taken[c] >= 2 /\ line[2] = <<c, 2>>
        <5>1. SUFFICES ASSUME Len(line) # 1 PROVE taken[c] >= 2 /\ line[2] = <<c, 2>>
          OBVIOUS
        <5>2. \A n \in Nat : n >= 1 /\ n # 1 => n >= 2 /\ 2 \in 1..n
          OBVIOUS
        <5>5. Len(line) >= 2 /\ 2 \in 1..Len(line)
          BY <4>2, <5>1, <5>2, Zenon
        <5>3. taken[c] >= 2
          BY <4>3, <5>5
        <5>4. line[2] = <<c, 2>>
          BY <4>3, <5>5
        <5> QED BY <5>3, <5>4
      <4>6. Len(line) = 1 => taken[c] = 1
        BY <4>3
      <4>7. LineRead(c)
        BY <4>2, <4>4, <4>5, <4>6, Zenon DEF LineRead
      <4>8. Fresh(c)' /\ LineRead(c)'
        BY <2>1, <3>a, <4>7 DEF Fresh, LineRead
      <4> QED BY <2>1, <2>2, <2>k, <4>8 DEF AskInv, Stands, Handling
    <3>b. CASE GivenUp(c) /\ Later(c)
      <4>1. GivenUp(c)' /\ Later(c)' /\ line' # <<>>
        BY <2>1, <3>b DEF GivenUp, Later, Buffered
      <4> QED BY <2>1, <2>2, <2>k, <4>1 DEF AskInv, Stands, Handling
    <3> QED BY <2>1, <2>2, <3>a, <3>b DEF AskInv, Stands
  <2>3. CASE cur.conn # c
    BY <2>1, <2>3, Aside
  <2> QED BY <2>2, <2>3
<1>7. CASE ClientClosed \/ ReadRequestError
  <2>1. /\ pc = "readline" /\ pc' = "drain" /\ CloseFd(cur.fd) /\ UNCHANGED <<resp, cut, cur, taken>>
    BY <1>7 DEF ClientClosed, ReadRequestError, CloseFd
  <2>2. cur.conn = c => c \in cut \/ resp[c] = <<>>
    BY <2>1 DEF AskInv, Stands, Fresh, GivenUp
  <2> QED BY <2>1, <2>2, OwnClose, Shut
<1>8. CASE ParseGet
  <2>1. CASE cur.conn = c
    BY <1>8, <2>1, AskParse
  <2>2. CASE cur.conn # c
    BY <1>8, <2>2, Aside DEF ParseGet, sockVars
  <2> QED BY <2>1, <2>2
<1>9. CASE ParseOther
  <2>1. pc = "parse" /\ pc' = "drain" /\ ~IsGet /\ UNCHANGED <<phase, taken, resp, cut, cur>>
    BY <1>9 DEF ParseOther, sockVars
  <2>2. cur.conn = c => GivenUp(c)
    <3> SUFFICES ASSUME cur.conn = c, Fresh(c), LineRead(c) PROVE FALSE
      BY <2>1 DEF AskInv, Stands
    <3>1. line[1] = <<c, 1>>
      BY DEF LineRead
    <3>2. req[c][1] = "GET"
      BY DEF AsksOnce, Asks
    <3> QED BY <2>1, <3>1, <3>2 DEF IsGet, UnitOf
  <2> QED BY <2>1, <2>2, Aside DEF Handling
<1>10. CASE ParseCrash \/ SendSigpipe
  BY <1>10, Aside DEF ParseCrash, SendSigpipe, sockVars, Handling
<1>11. CASE SendPiece
  <2>1. CASE cur.conn = c
    BY <1>11, <2>1, AskSendPiece
  <2>2. CASE cur.conn # c
    <3>1. Conn # c /\ UNCHANGED <<pc, cur, phase, taken>>
      BY <1>11, <2>2, AtWork DEF SendPiece, sockVars
    <3>2. resp'[c] = resp[c] /\ (c \in cut' <=> c \in cut)
      BY <1>0, <1>11, <3>1 DEF SendPiece
    <3> QED BY <2>2, <3>1, <3>2, Aside
  <2> QED BY <2>1, <2>2
<1>12. CASE SendFails
  <2>1. CASE cur.conn = c
    BY <1>12, <2>1, AskSendFails
  <2>2. CASE cur.conn # c
    <3>1. Conn # c /\ UNCHANGED <<pc, cur, phase, taken, resp>>
      BY <1>12, <2>2, AtWork DEF SendFails, TakeError
    <3>2. c \in cut' <=> c \in cut
      BY <1>12, <3>1 DEF SendFails
    <3> QED BY <2>2, <3>1, <3>2, Aside
  <2> QED BY <2>1, <2>2
<1>13. CASE SendDone
  BY <1>13, AskSendDone
<1>14. CASE DrainUnit
  <2>1. PICK d \in Conns : \E k \in 1..Len(req[d]) : GetUnit(d, k)
    BY <1>14 DEF DrainUnit
  <2>2. d = cur.conn /\ UNCHANGED phase
    BY <1>14, <2>1, GetUnitInv DEF DrainUnit
  <2>3. pc = "drain" /\ UNCHANGED <<pc, resp, cut, cur>>
    BY <1>14 DEF DrainUnit
  <2>4. CASE cur.conn # c
    <3>1. taken'[c] = taken[c]
      BY <1>g, <2>1, <2>2, <2>4
    <3> QED BY <2>2, <2>3, <2>4, <3>1, Aside DEF Handling
  <2>5. CASE cur.conn = c /\ phase[c] = "closed"
    <3>1. fdtab[cur.fd] # c
      BY <2>3, <2>5, SocketsAssumption DEF OwnInv, OpenFds, IInv, CurInv
    <3>2. Conn = NoConn
      BY <2>3, <2>5, <3>1 DEF IInv, CurInv, Conn
    <3>3. UNCHANGED taken
      BY <2>1, <3>2 DEF GetUnit, sockVars
    <3> QED BY <2>2, <2>3, <2>5, <3>3, Aside DEF Handling
  <2>6. CASE cur.conn = c /\ GivenUp(c)
    <3>1. taken'[c] >= 1
      <4>1. UNCHANGED taken \/ (HasData(c) /\ TakeData(c, ReadSize(c, BufSize)))
        BY <2>1, <2>2, <2>6 DEF GetUnit, sockVars
      <4>2. taken[c] \in Nat /\ sent[c] \in Nat
        BY DEF IInv, TypeOK, SockTypeOK
      <4>3. HasData(c) => ReadSize(c, BufSize) \in Nat
        BY <4>2, EpollWebAssumption DEF ReadSize, HasData, Avail
      <4>4. TakeData(c, ReadSize(c, BufSize)) => taken'[c] = taken[c] + ReadSize(c, BufSize)
        BY <1>0 DEF TakeData
      <4> QED BY <2>6, <4>1, <4>2, <4>3, <4>4 DEF GivenUp
    <3> QED BY <2>2, <2>3, <2>6, <3>1, Aside DEF Handling, GivenUp
  <2> QED BY <2>3, <2>4, <2>5, <2>6 DEF AskInv, Stands
<1>15. CASE DrainEof
  <2>1. pc = "drain" /\ UNCHANGED <<pc, phase, taken, resp, cut, cur>>
    BY <1>15 DEF DrainEof, GetEof, sockVars
  <2>2. cur.conn = c => phase[c] = "closed" \/ GivenUp(c)
    BY <2>1 DEF AskInv, Stands
  <2> QED BY <2>1, <2>2, Aside DEF Handling
<1>16. CASE DrainDone
  <2>1. pc = "drain" /\ pc' = "next" /\ UNCHANGED <<phase, taken, resp, cut, cur>>
    BY <1>16 DEF DrainDone, GetError, TakeError, sockVars
  <2>2. cur.conn = c => phase[c] = "closed" \/ GivenUp(c)
    BY <2>1 DEF AskInv, Stands
  <2> QED BY <2>1, <2>2, Aside DEF Handling
<1> QED BY <1>1, <1>2, <1>3, <1>4, <1>5, <1>6, <1>7, <1>8, <1>9, <1>10, <1>11, <1>12, <1>13, <1>14,
           <1>15, <1>16 DEF Next, Server

(* What a client gets of a file or an error page is never out of order and *)
(* nothing comes twice, its beginning as long as no send() was cut or      *)
(* failed, and all of it if SendData() then closes; and none is cut of a   *)
(* page that fits the send buffer, while the client is there               *)
(* (webServer.c:123-281) -- for every send buffer, chunk and file size.    *)
THEOREM PagesAreWhole == Spec => []PageIntact
<1>1. Init => PageInv
  <2> SUFFICES ASSUME Init PROVE PageInv
    OBVIOUS
  <2>1. OwnInv
    BY DEF Init, SockInit, OwnInv, OpenFds
  <2>2. ASSUME NEW c \in Conns, NEW name \in Paths PROVE AskInv(c, name)
    <3>1. resp[c] = <<>> /\ c \notin cut /\ taken[c] = 0 /\ phase[c] = "idle" /\ pc = "wait"
      BY DEF Init, SockInit
    <3>2. Positions(1, 0) = <<>> /\ Len(<<>>) = 0
      BY DEF Positions
    <3>3. Len(Page(name)) \in Nat
      BY PageLen
    <3>4. Kept(c, name)
      BY <3>1, <3>2, <3>3 DEF Kept, Rising
    <3> QED BY <3>1, <3>4 DEF AskInv, Stands, Fresh, Handling
  <2> QED BY <2>1, <2>2 DEF PageInv
<1>2. IInv /\ PageInv /\ [Next]_vars => PageInv'
  <2> SUFFICES ASSUME IInv, PageInv, [Next]_vars PROVE PageInv'
    OBVIOUS
  <2>1. CASE Next
    <3>1. OwnInv'
      BY <2>1, OwnStep DEF PageInv
    <3>2. ASSUME NEW c \in Conns, NEW name \in Paths, AsksOnce(c, name)' PROVE AskInv(c, name)'
      <4>1. UNCHANGED req
        BY <2>1, Patient
      <4>2. AsksOnce(c, name)
        BY <3>2, <4>1 DEF AsksOnce, Asks
      <4> QED BY <2>1, <4>2, AskStep DEF PageInv
    <3> QED BY <3>1, <3>2 DEF PageInv
  <2>2. CASE UNCHANGED vars
    <3>1. OwnInv'
      BY <2>2 DEF PageInv, OwnInv, OpenFds, vars, sockVars
    <3>2. ASSUME NEW c \in Conns, NEW name \in Paths
          PROVE  /\ AsksOnce(c, name)' => AsksOnce(c, name)
                 /\ AskInv(c, name) => AskInv(c, name)'
      <4>1. UNCHANGED <<req, phase, taken, end, resp, cut, pc, cur, rb, line, job>>
        BY <2>2 DEF vars, sockVars, webVars
      <4>2. Kept(c, name) => Kept(c, name)'
        BY <4>1 DEF Kept, Rising, Page
      <4>3. Stands(c, name) => Stands(c, name)'
        BY <4>1 DEF Stands, Handling, Fresh, GivenUp, FromStart, LineRead, Later, Buffered,
                    OnPage, Leads, Page
      <4> QED BY <4>1, <4>2, <4>3 DEF AskInv, AsksOnce, Asks
    <3> QED BY <3>1, <3>2 DEF PageInv
  <2> QED BY <2>1, <2>2
<1>3. IInv /\ PageInv => PageIntact
  <2> SUFFICES ASSUME IInv, PageInv, NEW c \in Conns, NEW name \in Paths, AsksOnce(c, name)
               PROVE  /\ Rising(resp[c])
                      /\ c \notin cut =>
                           /\ resp[c] = Positions(1, Len(resp[c])) /\ Len(resp[c]) <= Len(Page(name))
                           /\ phase[c] = "closed" /\ taken[c] >= 2 /\ resp[c] # <<>> => resp[c] = Page(name)
                           /\ phase[c] = "open" /\ pc = "wait" => taken[c] = 0
                      /\ Len(Page(name)) <= SndBuf /\ end[c] \in {"none", "fin"} => c \notin cut
    BY DEF PageIntact, Paths
  <2>1. Kept(c, name) /\ Stands(c, name)
    BY DEF PageInv, AskInv
  <2>2. c \notin cut /\ phase[c] = "open" /\ pc = "wait" => taken[c] = 0
    BY <2>1 DEF Stands, Handling, GivenUp
  <2> QED BY <2>1, <2>2 DEF Kept
<1> QED BY <1>1, <1>2, <1>3, Invariance, PTL DEF Spec
=============================================================================
