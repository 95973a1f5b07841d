----------------------------- MODULE FrameTools -----------------------------
(***************************************************************************)
(* The raw-socket tools on one wire: udpMessage.c builds and sends a UDP   *)
(* datagram with its own headers, analyzeMac.c takes every frame apart,    *)
(* getMacAddr.c asks for an address and waits for the ARP answer;          *)
(* libNetUdp.c sends the same datagram through libnet, pcapRules.c prints  *)
(* the lengths of those it catches.  All on one machine, which sees its    *)
(* own frames as they were sent.                                           *)
(* Frames are sequences of 16-bit words in network order; an address is    *)
(* the words it takes.                                                     *)
(***************************************************************************)
EXTENDS Naturals, Sequences

CONSTANTS
    Payloads,   \* what the user types: words, an odd last byte padded with 0
    Src, Dst,   \* the two IP addresses, two words each
    Port,       \* 8000, source and destination
    Mac,        \* the machines' hardware addresses, three words each
    MaxFrames   \* bound: frames on the wire

VARIABLES
    wire,       \* frames under way, to every tool
    printed,    \* what analyzeMac.c printed of the last frame
    asking,     \* getMacAddr.c: start, wait, done
    answer,     \* the hardware address it printed
    count,      \* libNetUdp.c: messages sent
    captured,   \* pcapRules.c: the lengths it printed
    frames      \* frames sent

frameVars == <<wire, printed, asking, answer, count, captured, frames>>

W == 65536      \* 2^16

-----------------------------------------------------------------------------
(* checksum(): one word is added after the other, ...                      *)
WordSum(buf) ==
    LET sum[k \in 0..Len(buf)] == IF k = 0 THEN 0 ELSE sum[k - 1] + buf[k]
    IN  sum[Len(buf)]

(* Slip: the carry of the first folding dropped. *)
ChecksumFoldsOnce(buf) ==
    LET folded == (WordSum(buf) \div W) + (WordSum(buf) % W)
    IN  W - 1 - (folded % W)

(* ... the sum is folded twice and complemented to 16 bits.                *)
Folded(sum) ==
    LET folded == (sum \div W) + (sum % W)
    IN  W - 1 - ((folded + folded \div W) % W)

Checksum(buf) == Folded(WordSum(buf))

EtherIP == 2048
EtherARP == 2054
TCP == 6
UDP == 17
Broadcast == <<W - 1, W - 1, W - 1>>

(* Version and length, tos; tot_len; id; fragment; ttl, protocol; check.   *)
IpHeader(proto, len, check) ==
    <<17664, 20 + len, 0, 0, 128 * 256 + proto, check>> \o Src \o Dst

UdpHeader(len, check) == <<Port, Port, 8 + len, check>>

Pseudo(len) == Src \o Dst \o <<UDP, 8 + len>>

(* Both checksums are taken over a header whose check field is 0.          *)
Frame(data) ==
    LET len == 2 * Len(data)
    IN  Mac[2] \o Mac[1] \o <<EtherIP>>
          \o IpHeader(UDP, 8 + len, Checksum(IpHeader(UDP, 8 + len, 0)))
          \o UdpHeader(len, Checksum(Pseudo(len) \o UdpHeader(len, 0) \o data))
          \o data

ArpFrame(dst, src, op) == dst \o src \o <<EtherARP, 1, EtherIP, 6 * 256 + 4, op>> \o src

(* Another program's TCP segment, 20 bytes of header and no options.       *)
TcpFrame(data) ==
    Mac[2] \o Mac[1] \o <<EtherIP>> \o IpHeader(TCP, 20 + 2 * Len(data), 0)
      \o <<Port, Port, 0, 0, 0, 0, 5 * 4096, 0, 0, 0>> \o data

-----------------------------------------------------------------------------
Init ==
    /\ wire = <<>> /\ frames = 0
    /\ printed = [above |-> "nothing"]
    /\ asking = "start" /\ answer = <<>> /\ count = 0 /\ captured = <<>>

Put(f) ==
    /\ frames < MaxFrames /\ frames' = frames + 1
    /\ wire' = Append(wire, f)
    /\ UNCHANGED <<printed, answer, captured>>

(* udpMessage.c, SendTo() included. *)
SendUdp(data) == Put(Frame(data)) /\ UNCHANGED <<asking, count>>

(* Five messages over the same tags: libnet fills in both checksums.       *)
LibnetSend(data) ==
    /\ count < 5 /\ count' = count + 1
    /\ Put(Frame(data)) /\ UNCHANGED asking

AskMac ==
    /\ asking = "start" /\ asking' = "wait"
    /\ Put(ArpFrame(Broadcast, Mac[1], 1)) /\ UNCHANGED count

(* Another machine's question or answer, or TCP. *)
Others ==
    /\ \E f \in {ArpFrame(Broadcast, Mac[2], 1), ArpFrame(Mac[1], Mac[2], 2)}
                 \cup {TcpFrame(data) : data \in Payloads} : Put(f)
    /\ UNCHANGED <<asking, count>>

(* The word at a byte offset of the frame, and the words from it on.       *)
At(f, offset) == f[(offset \div 2) + 1]
From(f, offset) == SubSeq(f, (offset \div 2) + 1, Len(f))

Ip(f) == From(f, 14)
Above(f) == From(Ip(f), ((At(Ip(f), 0) \div 256) % 16) * 4)

(* The cast binds tighter than the +: 2 is added to the source port as a   *)
(* little-endian machine loads it, and no second word is read.             *)
Swap(w) == (w % 256) * 256 + (w \div 256)
DstPort(w) == Swap((Swap(w) + 2) % W)

Analyze(f) ==
    IF At(f, 12) # EtherIP THEN [above |-> IF At(f, 12) = EtherARP THEN "arp" ELSE "other"]
    ELSE LET tcp == At(Ip(f), 8) % 256 = TCP
         IN  [above |-> IF tcp THEN "tcp" ELSE "udp",
              src |-> SubSeq(Ip(f), 7, 8), dst |-> SubSeq(Ip(f), 9, 10),
              sport |-> At(Above(f), 0), dport |-> DstPort(At(Above(f), 0)),
              data |-> From(Above(f), IF tcp THEN (At(Above(f), 12) \div 4096) * 4 ELSE 8)]

IsAnswer(f) == At(f, 12) = EtherARP /\ At(f, 20) = 2

(* "udp port 8000" *)
Caught(f) == At(f, 12) = EtherIP /\ At(Ip(f), 8) % 256 = UDP /\ Port \in {At(Above(f), 0), At(Above(f), 2)}

(* Every tool that runs sees every frame. *)
Receive ==
    /\ wire # <<>> /\ wire' = Tail(wire)
    /\ printed' = Analyze(Head(wire))
    /\ IF asking = "wait" /\ IsAnswer(Head(wire))
       THEN asking' = "done" /\ answer' = SubSeq(Head(wire), 4, 6)
       ELSE UNCHANGED <<asking, answer>>
    /\ captured' = IF Caught(Head(wire)) THEN Append(captured, 2 * Len(Head(wire))) ELSE captured
    /\ UNCHANGED <<count, frames>>

Next ==
    \/ \E data \in Payloads : SendUdp(data) \/ LibnetSend(data)
    \/ AskMac \/ Others \/ Receive

-----------------------------------------------------------------------------
(* Properties.                                                             *)

(* Whatever is typed, the receiver's kernel takes the datagram: over the   *)
(* header, and over pseudo header, header and data, the words with their   *)
(* checksum add up to 0 (udpMessage.c:40-53, 109, 134), at the carries     *)
(* too.  analyzeMac.c finds the data and the addresses again, and          *)
(* pcapRules.c catches these datagrams and no TCP on the same port.        *)
FrameRight ==
    /\ \A k \in DOMAIN captured : \E data \in Payloads : captured[k] = 42 + 2 * Len(data)
    /\ \A k \in DOMAIN wire :
        LET f == wire[k]
            udp == From(Ip(f), 20)
        IN  At(f, 12) = EtherIP /\ At(Ip(f), 8) % 256 = UDP =>
              /\ Checksum(SubSeq(Ip(f), 1, 10)) = 0
              /\ Checksum(Pseudo(2 * Len(udp) - 8) \o udp) = 0
              /\ LET seen == Analyze(f)
                 IN  /\ seen.data \in Payloads /\ seen.sport = Port
                     /\ seen.src = Src /\ seen.dst = Dst
=============================================================================
