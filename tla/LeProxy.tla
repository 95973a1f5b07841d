------------------------------ MODULE LeProxy ------------------------------
(***************************************************************************)
(* The relay le-proxy.c: two bufferevents that are each other's partner,   *)
(* one for the client that came ("in"), one connecting to the target       *)
(* ("out"), with deferred callbacks.  A side whose partner's output is     *)
(* full is not read (choked) until the partner has drained half of it.     *)
(* Bytes are counted: what the buffers do with them is libevent's.         *)
(***************************************************************************)
EXTENDS Naturals

CONSTANTS
    MaxOutput,  \* MAX_OUTPUT                                (512 KiB)
    ReadMax,    \* what one read event moves
    MaxSay      \* bound: MaxSay[s], what the peer of s sends

VARIABLES
    relay,      \* the proxy: waiting for a client, running, or killed
    side,       \* side[s]: on, finish (close_on_finished_writecb) or freed
    link,       \* link[s]: the TCP connection behind s, connecting or up
    peer,       \* peer[s]: what the peer did to its end
    said,       \* said[s]: units the peer of s has sent
    wire,       \* wire[s]: of these, not read yet
    input, output,
    heard,      \* heard[s]: units the peer of s has received
    reading,    \* EV_READ
    choking,    \* choking[s]: write callback drained_writecb, low watermark
    pending,    \* deferred callbacks of s
    calling     \* callbacks of this round have begun, others are still due

proxyVars == <<relay, side, link, peer, said, wire, input, output, heard, reading, choking, pending, calling>>

Sides == {"in", "out"}
Other(s) == IF s = "in" THEN "out" ELSE "in"
All(v) == [s \in Sides |-> v]

Init ==
    /\ relay = "idle"
    /\ side = All("none") /\ link = [All("up") EXCEPT !["out"] = "connecting"]
    /\ peer = All("none")
    /\ said = All(0) /\ wire = All(0) /\ input = All(0) /\ output = All(0) /\ heard = All(0)
    /\ reading = All(FALSE) /\ choking = All(FALSE) /\ pending = All({})
    /\ calling = FALSE

Running(s) == relay = "running" /\ side[s] \in {"on", "finish"}

-----------------------------------------------------------------------------
(* The peers and the network.                                              *)

Say(s) ==
    /\ Running(s) /\ link[s] = "up" /\ peer[s] = "none" /\ said[s] < MaxSay[s]
    /\ said' = [said EXCEPT ![s] = @ + 1]
    /\ wire' = [wire EXCEPT ![s] = @ + 1]
    /\ UNCHANGED <<relay, side, link, peer, input, output, heard, reading, choking, pending, calling>>

(* A reset takes what was not read yet with it.                            *)
End(s) ==
    /\ Running(s) /\ link[s] = "up"
    /\ \/ peer[s] = "none" /\ peer' = [peer EXCEPT ![s] = "fin"] /\ UNCHANGED wire
       \/ /\ peer[s] \in {"none", "fin"}
          /\ peer' = [peer EXCEPT ![s] = IF @ = "none" THEN "rst" ELSE "broken"]
          /\ wire' = [wire EXCEPT ![s] = 0]
    /\ UNCHANGED <<relay, side, link, said, input, output, heard, reading, choking, pending, calling>>

-----------------------------------------------------------------------------
(* libevent's part: socket events, which defer the callbacks.              *)

(* BEV_EVENT_CONNECTED means nothing to eventcb(). *)
Connected(s) ==
    /\ Running(s) /\ ~calling /\ link[s] = "connecting"
    /\ link' = [link EXCEPT ![s] = "up"]
    /\ UNCHANGED <<relay, side, peer, said, wire, input, output, heard, reading, choking, pending, calling>>

Defer(s, callback) == pending' = [pending EXCEPT ![s] = @ \cup {callback}]

Refused(s) ==
    /\ Running(s) /\ ~calling /\ link[s] = "connecting" /\ pending[s] = {}
    /\ Defer(s, "event")
    /\ peer' = [peer EXCEPT ![s] = "broken"]
    /\ UNCHANGED <<relay, side, link, said, wire, input, output, heard, reading, choking, calling>>

(* Once a round for each of the two.                                       *)
CanRead(s) ==
    /\ Running(s) /\ ~calling /\ link[s] = "up" /\ reading[s]
    /\ "read" \notin pending[s] /\ "event" \notin pending[s]

ReadEvent(s) ==
    /\ CanRead(s)
    /\ \E k \in 1..ReadMax :
         /\ k <= wire[s]
         /\ input' = [input EXCEPT ![s] = @ + k]
         /\ wire' = [wire EXCEPT ![s] = @ - k]
    /\ Defer(s, "read")
    /\ UNCHANGED <<relay, side, link, peer, said, output, heard, reading, choking, calling>>

EofEvent(s) ==
    /\ CanRead(s) /\ wire[s] = 0 /\ peer[s] # "none"
    /\ Defer(s, "event")
    /\ peer' = [peer EXCEPT ![s] = IF @ = "rst" THEN "broken" ELSE @]
    /\ reading' = [reading EXCEPT ![s] = FALSE]
    /\ UNCHANGED <<relay, side, link, said, wire, input, output, heard, choking, calling>>

CanWrite(s) == Running(s) /\ ~calling /\ link[s] = "up" /\ output[s] > 0 /\ "event" \notin pending[s]

Low(s) == IF choking[s] THEN MaxOutput \div 2 ELSE 0

(* The write callback is due at the low watermark or below.                *)
WriteEvent(s) ==
    /\ CanWrite(s) /\ peer[s] \in {"none", "fin"}
    /\ output' = [output EXCEPT ![s] = @ - 1]
    /\ heard' = [heard EXCEPT ![s] = @ + 1]
    /\ IF output[s] - 1 <= Low(s) THEN Defer(s, "write") ELSE UNCHANGED pending
    /\ UNCHANGED <<relay, side, link, peer, said, wire, input, reading, choking, calling>>

WriteError(s) ==
    /\ CanWrite(s) /\ peer[s] = "rst"
    /\ Defer(s, "event")
    /\ peer' = [peer EXCEPT ![s] = "broken"]
    /\ UNCHANGED <<relay, side, link, said, wire, input, output, heard, reading, choking, calling>>

Sigpipe(s) ==
    /\ CanWrite(s) /\ peer[s] = "broken"
    /\ relay' = "killed"
    /\ UNCHANGED <<side, link, peer, said, wire, input, output, heard, reading, choking, pending, calling>>

-----------------------------------------------------------------------------
AcceptCb ==
    /\ relay = "idle"
    /\ relay' = "running"
    /\ \/ side' = All("on") /\ reading' = All(TRUE)
       \/ side' = All("freed") /\ UNCHANGED reading       \* bufferevent_socket_connect() < 0
    /\ UNCHANGED <<link, peer, said, wire, input, output, heard, choking, pending, calling>>

(* Deferred callbacks run in this order. *)
Due(s, callback) ==
    /\ Running(s)
    /\ CASE callback = "read"  -> "read" \in pending[s]
         [] callback = "write" -> "write" \in pending[s] /\ "read" \notin pending[s]
         [] callback = "event" -> pending[s] = {"event"}

(* The loop gets back to the sockets when all that were due have run.      *)
Called == calling' = \E t \in Sides : side'[t] \in {"on", "finish"} /\ pending'[t] # {}

Done(s, callback) == pending' = [pending EXCEPT ![s] = @ \ {callback}]

Relayed(s) == output[Other(s)] + input[s]

(* readcb: all of the input to the partner, and no more reading once the   *)
(* partner's output is full.                                               *)
Readcb(s) ==
    /\ Due(s, "read") /\ side[s] = "on"
    /\ output' = [output EXCEPT ![Other(s)] = Relayed(s)]
    /\ input' = [input EXCEPT ![s] = 0]
    /\ LET full == Relayed(s) >= MaxOutput
       IN  /\ choking' = [choking EXCEPT ![Other(s)] = @ \/ full]
           /\ reading' = [reading EXCEPT ![s] = @ /\ ~full]
    /\ Done(s, "read")
    /\ UNCHANGED <<relay, side, link, peer, said, wire, heard>>
    /\ Called

(* Slip: the side that drained enabled, not the one that waits.            *)
DrainedWakesItself(s) ==
    /\ Due(s, "write") /\ side[s] = "on"
    /\ choking' = [choking EXCEPT ![s] = FALSE]
    /\ reading' = [reading EXCEPT ![s] = TRUE]
    /\ Done(s, "write")
    /\ UNCHANGED <<relay, side, link, peer, said, wire, input, output, heard>>
    /\ Called

(* Without choking there is no write callback.                             *)
DrainedWritecb(s) ==
    /\ Due(s, "write") /\ side[s] = "on"
    /\ choking' = [choking EXCEPT ![s] = FALSE]
    /\ reading' = [reading EXCEPT ![Other(s)] = @ \/ choking[s]]
    /\ Done(s, "write")
    /\ UNCHANGED <<relay, side, link, peer, said, wire, input, output, heard>>
    /\ Called

CloseOnFinished(s) ==
    /\ Due(s, "write") /\ side[s] = "finish"
    /\ side' = [side EXCEPT ![s] = IF output[s] = 0 THEN "freed" ELSE @]
    /\ Done(s, "write")
    /\ UNCHANGED <<relay, link, peer, said, wire, input, output, heard, reading, choking>>
    /\ Called

(* eventcb on a side whose partner lives: flush, then free this side, and  *)
(* the partner too, at once or when it has written everything.             *)
EventcbPartner(s) ==
    /\ Due(s, "event") /\ side[s] = "on"
    /\ output' = [output EXCEPT ![Other(s)] = Relayed(s), ![s] = 0]
    /\ input' = [input EXCEPT ![s] = 0]
    /\ side' = [All("freed") EXCEPT ![Other(s)] = IF Relayed(s) > 0 THEN "finish" ELSE "freed"]
    /\ choking' = [choking EXCEPT ![Other(s)] = @ \/ Relayed(s) >= MaxOutput]
    /\ reading' = All(FALSE)
    /\ pending' = [pending EXCEPT ![s] = {}]
    /\ UNCHANGED <<relay, link, peer, said, wire, heard>>
    /\ Called

(* ... and on one that is only being flushed.                              *)
EventcbAlone(s) ==
    /\ Due(s, "event") /\ side[s] = "finish"
    /\ side' = [side EXCEPT ![s] = "freed"]
    /\ output' = [output EXCEPT ![s] = 0]
    /\ Done(s, "event")
    /\ UNCHANGED <<relay, link, peer, said, wire, input, heard, reading, choking>>
    /\ Called

(* readcb is NULL by now.                                                  *)
ReadSkipped(s) ==
    /\ Due(s, "read") /\ side[s] = "finish"
    /\ Done(s, "read")
    /\ UNCHANGED <<relay, side, link, peer, said, wire, input, output, heard, reading, choking>>
    /\ Called

-----------------------------------------------------------------------------
Socket(s) == Connected(s) \/ Refused(s) \/ ReadEvent(s) \/ EofEvent(s)
Output(s) == WriteEvent(s) \/ WriteError(s) \/ Sigpipe(s)
Callback(s) ==
    \/ Readcb(s) \/ DrainedWritecb(s) \/ CloseOnFinished(s)
    \/ EventcbPartner(s) \/ EventcbAlone(s) \/ ReadSkipped(s)

Next == AcceptCb \/ \E s \in Sides : Say(s) \/ End(s) \/ Socket(s) \/ Output(s) \/ Callback(s)

-----------------------------------------------------------------------------
(* Properties.                                                             *)

(* However fast one peer sends and slowly the other reads, the proxy holds *)
(* less than MAX_OUTPUT and one read for it, and a side is left unread     *)
(* only while its partner is due to wake it, or the side is ending         *)
(* (le-proxy.c:67-76, 86-89).                                              *)
Bounded ==
    \A s \in Sides :
        /\ output[s] < MaxOutput + ReadMax
        /\ side[s] = "on" /\ ~reading[s] => choking[Other(s)] \/ "event" \in pending[s]
        /\ side[s] = "on" /\ choking[s] => output[s] > Low(s) \/ "write" \in pending[s]

(* Everything a peer says before it closes reaches the other peer, unless  *)
(* that one leaves first, or the proxy is killed by SIGPIPE                *)
(* (le-proxy.c:124-143).                                                   *)
Delivered ==
    \A s \in Sides :
        (Running(s) /\ said[s] > 0)
            ~> (heard[Other(s)] = said[s] \/ peer[Other(s)] # "none"
                  \/ peer[s] \in {"rst", "broken"} \/ relay = "killed")
=============================================================================
