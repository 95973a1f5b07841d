------------------------------ MODULE UnixChat ------------------------------
(***************************************************************************)
(* The chat over UNIX-domain sockets, localSocketServer.c and              *)
(* localSocketCilent.c: the server takes one client, answers its lines,    *)
(* and ends with it; clients come, wait and are killed at any time.        *)
(***************************************************************************)
EXTENDS Naturals

CONSTANTS
    Users,
    Texts,      \* what the users type
    Empty,      \* the empty line, or the end of the input
    Nothing,    \* no message, no user
    MaxStarts   \* bound: starts of the server

VARIABLES
    srv,        \* down, accept or serve
    served,     \* the user at the other end of cfd
    starts,
    at,         \* at[u]: down, read or recv
    link,       \* link[u]: none, queued, accepted or cut
    typed,      \* typed[u]: the last line sent
    up, down,   \* up[u], down[u]: the message on its way to and from the server
    seen        \* seen[u]: the last answer printed

unixVars == <<srv, served, starts, at, link, typed, up, down, seen>>

Typed == Texts \cup {Empty}

Init ==
    /\ srv = "down" /\ served = Nothing /\ starts = 0
    /\ at = [u \in Users |-> "down"] /\ link = [u \in Users |-> "none"]
    /\ typed = [u \in Users |-> Nothing] /\ seen = [u \in Users |-> Nothing]
    /\ up = [u \in Users |-> Nothing] /\ down = [u \in Users |-> Nothing]

-----------------------------------------------------------------------------
(* unlink() first: the path a dead server left is no hindrance.            *)
ServerStart ==
    /\ srv = "down" /\ starts < MaxStarts
    /\ srv' = "accept" /\ starts' = starts + 1
    /\ UNCHANGED <<served, at, link, typed, up, down, seen>>

Accept(u) ==
    /\ srv = "accept" /\ link[u] = "queued"
    /\ srv' = "serve" /\ served' = u
    /\ link' = [link EXCEPT ![u] = "accepted"]
    /\ UNCHANGED <<starts, at, typed, up, down, seen>>

ServerGone ==
    /\ srv' = "down" /\ served' = Nothing
    /\ link' = [u \in Users |-> IF link[u] = "none" THEN "none" ELSE "cut"]
    /\ up' = [u \in Users |-> Nothing]
    /\ UNCHANGED <<starts, at, typed, down, seen>>

Received(u) == srv = "serve" /\ served = u /\ up[u] # Nothing

(* Slip: only one recv(). *)
AnswerOnce(u) ==
    /\ Received(u) /\ at[u] # "down" /\ seen[u] = Nothing
    /\ up' = [up EXCEPT ![u] = Nothing]
    /\ down' = [down EXCEPT ![u] = IF up[u] = Empty THEN @ ELSE up[u]]
    /\ UNCHANGED <<srv, served, starts, at, link, typed, seen>>

(* send() of strlen(buf) bytes: of an empty line, nothing.                 *)
Answer(u) ==
    /\ Received(u) /\ at[u] # "down"
    /\ up' = [up EXCEPT ![u] = Nothing]
    /\ down' = [down EXCEPT ![u] = IF up[u] = Empty THEN @ ELSE up[u]]
    /\ UNCHANGED <<srv, served, starts, at, link, typed, seen>>

(* ... to a client that is gone: SIGPIPE, or, of an empty line, recv() = 0.*)
AnswerNobody(u) == Received(u) /\ at[u] = "down" /\ ServerGone

RecvEnd(u) == srv = "serve" /\ served = u /\ up[u] = Nothing /\ at[u] = "down" /\ ServerGone

-----------------------------------------------------------------------------
(* connect()'s result is not looked at.                                    *)
ClientStart(u) ==
    /\ at[u] = "down" /\ link[u] \in {"none", "cut"}
    /\ at' = [at EXCEPT ![u] = "read"]
    /\ link' = [link EXCEPT ![u] = IF srv = "down" THEN "none" ELSE "queued"]
    /\ up' = [up EXCEPT ![u] = Nothing] /\ down' = [down EXCEPT ![u] = Nothing]
    /\ typed' = [typed EXCEPT ![u] = Nothing] /\ seen' = [seen EXCEPT ![u] = Nothing]
    /\ UNCHANGED <<srv, served, starts>>

(* To a server that is gone: SIGPIPE; unconnected, send() just fails.      *)
Type(u, l) ==
    /\ at[u] = "read"
    /\ typed' = [typed EXCEPT ![u] = l]
    /\ at' = [at EXCEPT ![u] = IF link[u] = "cut" THEN "down" ELSE "recv"]
    /\ up' = [up EXCEPT ![u] = IF link[u] \in {"queued", "accepted"} THEN l ELSE @]
    /\ UNCHANGED <<srv, served, starts, link, down, seen>>

RecvAnswer(u) ==
    /\ at[u] = "recv" /\ down[u] # Nothing
    /\ seen' = [seen EXCEPT ![u] = down[u]]
    /\ down' = [down EXCEPT ![u] = Nothing]
    /\ at' = [at EXCEPT ![u] = "read"]
    /\ UNCHANGED <<srv, served, starts, link, typed, up>>

RecvGone(u) ==
    /\ at[u] = "recv" /\ down[u] = Nothing /\ link[u] \in {"none", "cut"}
    /\ at' = [at EXCEPT ![u] = "down"]
    /\ UNCHANGED <<srv, served, starts, link, typed, up, down, seen>>

(* Ctrl-C on either side.  A queued connection stays queued; the server    *)
(* finds it ended when it accepts it.                                      *)
Kill ==
    \/ srv # "down" /\ ServerGone
    \/ \E u \in Users :
         /\ at[u] # "down"
         /\ at' = [at EXCEPT ![u] = "down"]
         /\ UNCHANGED <<srv, served, starts, link, typed, up, down, seen>>

-----------------------------------------------------------------------------
Server(u) == Accept(u) \/ Answer(u) \/ AnswerNobody(u) \/ RecvEnd(u)
Recv(u) == RecvAnswer(u) \/ RecvGone(u)

Next ==
    \/ ServerStart \/ Kill
    \/ \E u \in Users :
         Server(u) \/ ClientStart(u) \/ Recv(u) \/ \E l \in Typed : Type(u, l)

-----------------------------------------------------------------------------
(* Properties.                                                             *)

(* Server and client never stand in recv() both with nothing under way,    *)
(* except after an empty line, which the client sends as 1500 zeros and    *)
(* the server answers with none (localSocketServer.c:54).                  *)
BothWaitOnlyOnEmpty ==
    \A u \in Users :
        srv = "serve" /\ served = u /\ at[u] = "recv" /\ up[u] = Nothing /\ down[u] = Nothing
            => typed[u] = Empty

(* A line typed to the server that serves this client is answered, or the  *)
(* client is let go; and whoever was answered saw his own line.            *)
LineAnswered ==
    \A u \in Users :
        (at[u] = "recv" /\ served = u /\ typed[u] # Empty) ~> (at[u] = "down" \/ seen[u] = typed[u])
=============================================================================
