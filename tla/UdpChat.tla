------------------------------ MODULE UdpChat ------------------------------
(***************************************************************************)
(* The UDP question and answer, UdpServer/client.c and UdpServer/server.c, *)
(* over a network that loses datagrams and keeps late ones.  Both may be   *)
(* killed and started again; the client's port stays the same.             *)
(***************************************************************************)
EXTENDS Naturals, Sequences

CONSTANTS
    Lines,      \* what the user types, sequences of characters of any length
    BufLen,     \* sendBuf, reBuf: 1024 bytes
    NulChar,    \* '\0'
    Behind,     \* what memory may hold behind a buffer, up to the next '\0'
    MaxKills    \* bound: kills

VARIABLES
    typed,      \* what the user has typed and read() has not yet taken
    client,     \* client[..]: state, sendBuf when last sent, the text printed last
    reBuf,      \* the client's buffer, never cleared
    server,     \* up or down
    toServer, toClient,     \* the two socket buffers
    asked,      \* sendBuf at every sendto()
    lost,       \* a datagram of this conversation was lost
    kills

udpVars == <<typed, client, reBuf, server, toServer, toClient, asked, lost, kills>>

Zeros == [k \in 1..BufLen |-> NulChar]

(* read() or recvfrom() into a buffer: what is longer is cut off, what is  *)
(* behind it in the buffer stays.                                          *)
Over(d, b) == [k \in 1..BufLen |-> IF k <= Len(d) THEN d[k] ELSE b[k]]

Ends(b)  == {k \in DOMAIN b : b[k] = NulChar}
First(S) == CHOOSE k \in S : \A m \in S : k <= m

(* %s prints, and strlen() counts, up to the first '\0': in a full buffer  *)
(* without one both go on behind it.                                       *)
Printed(b) ==
    IF Ends(b) # {} THEN {SubSeq(b, 1, First(Ends(b)) - 1)} ELSE {b \o more : more \in Behind}

Init ==
    /\ typed = <<>>
    /\ client = [at |-> "down", line |-> Zeros, shown |-> <<>>] /\ reBuf = Zeros
    /\ server = "down"
    /\ toServer = <<>> /\ toClient = <<>>
    /\ asked = {} /\ lost = FALSE /\ kills = 0

-----------------------------------------------------------------------------
ServerStart ==
    /\ server = "down" /\ server' = "up"
    /\ UNCHANGED <<typed, client, reBuf, toServer, toClient, asked, lost, kills>>

ClientStart ==
    /\ client.at = "down"
    /\ client' = [at |-> "read", line |-> Zeros, shown |-> <<>>] /\ reBuf' = Zeros
    /\ typed' = <<>> /\ lost' = FALSE
    /\ UNCHANGED <<server, toServer, toClient, asked, kills>>

(* read() takes at most a buffer of what is typed (client.c:44): the rest  *)
(* of a longer line is the next question.  sendto() of strlen(sendBuf)     *)
(* bytes; at the end of input that is an empty datagram.                   *)
Ask(l) ==
    /\ client.at = "read"
    /\ typed # <<>> => l = typed
    /\ typed' = IF Len(l) > BufLen THEN SubSeq(l, BufLen + 1, Len(l)) ELSE <<>>
    /\ client' = [client EXCEPT !.at = "recv", !.line = Over(l, Zeros)]
    /\ asked' = asked \cup {client'.line}
    /\ \E d \in Printed(client'.line) :
         toServer' = IF server = "up" THEN Append(toServer, d) ELSE toServer
    /\ lost' = (lost \/ server = "down")
    /\ UNCHANGED <<reBuf, server, toClient, kills>>

(* Nobody bound to the client's port: the answer is dropped.               *)
ServeWith(d) ==
    /\ server = "up" /\ toServer # <<>>
    /\ toServer' = Tail(toServer)
    /\ toClient' = IF client.at = "down" THEN toClient ELSE Append(toClient, d)
    /\ UNCHANGED <<typed, client, reBuf, server, asked, lost, kills>>

(* Slip: strlen(reBuf) bytes back. *)
ServeStrlen == ServeWith(Head(toServer))

(* reBuf, cleared before each recvfrom(), and all of it back.              *)
Serve == ServeWith(Over(Head(toServer), Zeros))

Receive ==
    /\ client.at = "recv" /\ toClient # <<>>
    /\ reBuf' = Over(Head(toClient), reBuf)
    /\ \E text \in Printed(reBuf') : client' = [client EXCEPT !.at = "read", !.shown = text]
    /\ toClient' = Tail(toClient)
    /\ UNCHANGED <<typed, server, toServer, asked, lost, kills>>

-----------------------------------------------------------------------------
Lose ==
    /\ \/ toServer # <<>> /\ toServer' = Tail(toServer) /\ UNCHANGED toClient
       \/ toClient # <<>> /\ toClient' = Tail(toClient) /\ UNCHANGED toServer
    /\ lost' = TRUE
    /\ UNCHANGED <<typed, client, reBuf, server, asked, kills>>

(* A socket's buffer goes with its process. *)
Kill ==
    /\ kills < MaxKills /\ kills' = kills + 1
    /\ \/ /\ client.at # "down"
          /\ client' = [client EXCEPT !.at = "down"] /\ toClient' = <<>>
          /\ UNCHANGED <<server, toServer, lost>>
       \/ /\ server = "up"
          /\ server' = "down" /\ toServer' = <<>>
          /\ lost' = (lost \/ toServer # <<>>)
          /\ UNCHANGED <<client, toClient>>
    /\ UNCHANGED <<typed, reBuf, asked>>

Next ==
    \/ ServerStart \/ ClientStart \/ Serve \/ Receive \/ Lose \/ Kill
    \/ \E l \in Lines \cup {typed} : Ask(l)

-----------------------------------------------------------------------------
(* Properties.                                                             *)

(* What the client prints is the text of a whole question it asked, with   *)
(* no rest of a longer answer in it: its reBuf is never cleared            *)
(* (client.c:52-58), which is right only because the server answers with   *)
(* the whole of its cleared buffer (server.c:36, 46).  Of a question that  *)
(* fills the buffer strlen() and %s run over the end, but the server cuts  *)
(* off what was sent too much.  And it is the question just asked, unless  *)
(* the client was killed with one on its way: there is no number in the    *)
(* messages to tell a late answer by.                                      *)
PrintsWhole ==
    client.at = "read" =>
        /\ client.shown = <<>> \/ \E b \in asked : client.shown \in Printed(b)
        /\ kills = 0 => client.shown \in Printed(client.line)

(* A question is answered unless a datagram is lost: then the client waits *)
(* for ever (client.c:52 has no timeout).                                  *)
UdpAnswered == client.at = "recv" ~> (client.at # "recv" \/ lost)
=============================================================================
