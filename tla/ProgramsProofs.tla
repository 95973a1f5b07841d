--------------------------- MODULE ProgramsProofs ---------------------------
(***************************************************************************)
(* For every value of the constants: what MCPrograms asks of the programs  *)
(* that stand alone.                                                       *)
(***************************************************************************)
EXTENDS MCPrograms, SequenceTheorems, FiniteSetTheorems, WellFoundedInduction, NaturalsInduction, TLAPS

(* A step of the composition is, for each program, one of its own or none. *)
LEMMA Apart ==
    [MCNext]_allVars =>
        /\ UNCHANGED program
        /\ Proxy!Next \/ UNCHANGED proxyVars
        /\ Udp!Next \/ UNCHANGED udpVars
        /\ Chat!Next \/ UNCHANGED chatVars
        /\ Calls!Next \/ UNCHANGED wrapVars
        /\ Ports!Next \/ UNCHANGED startVars
        /\ Raw!Next \/ UNCHANGED rawVars
        /\ Pages!Next \/ UNCHANGED cgiVars
        /\ Logs!Next \/ UNCHANGED logVars
        /\ Pub!Next \/ UNCHANGED pubVars
BY DEF MCNext, allVars, others, SelectStep, SmallStep, Alone, Idle

-----------------------------------------------------------------------------
(* How the TCP servers come up. *)

(* Whoever is past setsockopt() has the option. *)
ReuseInv == \A p \in Progs : stage[p] \in {"option", "bound", "listening"} => reuse[p]

PortsInv ==
    /\ stage \in [Progs -> {"off", "socket", "option", "bound", "listening", "failed"}]
    /\ reuse \in [Progs -> BOOLEAN]
    /\ ReuseInv

LEMMA PortsInit == Ports!Init => PortsInv
BY DEF Ports!Init, PortsInv, ReuseInv

LEMMA PortsStep == PortsInv /\ (Ports!Next \/ UNCHANGED startVars) => PortsInv'
BY DEF Ports!Next, startVars, PortsInv, ReuseInv, Ports!Socket, Ports!Setsockopt, Ports!Bind,
       Ports!Listen, Ports!Accept, Ports!Kill, Ports!Retry, Ports!TimeWaitEnds, Ports!To

LEMMA PortsInvariance == MCSpec => []PortsInv
<1>1. MCInit => PortsInv
  BY PortsInit DEF MCInit
<1>2. PortsInv /\ [MCNext]_allVars => PortsInv'
  BY Apart, PortsStep
<1> QED BY <1>1, <1>2, PTL DEF MCSpec

(* A server that does not come up has lost the port to one that has it     *)
(* now: the option of wrap.c:213-217 keeps all else out of its way.        *)
THEOREM NeverKeptDown == MCSpec => FailsOnlyToAnother
<1> DEFINE Fails(p) == stage[p] # "failed" /\ stage'[p] = "failed"
<1>1. ASSUME PortsInv, Ports!Next, NEW p \in Progs, Fails(p)
      PROVE  Ports!Listening \ {p} # {}
  <2>1. Ports!Bind(p) \/ Ports!Listen(p)
    BY <1>1 DEF Ports!Next, Ports!Socket, Ports!Setsockopt, Ports!Bind, Ports!Listen,
                Ports!Accept, Ports!Kill, Ports!Retry, Ports!TimeWaitEnds, Ports!To, PortsInv
  <2>2. stage[p] # "listening" /\ Ports!Listening # {}
    <3>1. CASE Ports!Bind(p)
      <4>1. stage[p] = "option" /\ reuse[p] /\ ~Ports!MayBind(p)
        BY <1>1, <3>1 DEF Ports!Bind, Ports!To, PortsInv, ReuseInv
      <4>2. \A q \in Ports!Holding : reuse[q]
        BY <1>1 DEF PortsInv, ReuseInv, Ports!Holding
      <4> QED BY <4>1, <4>2 DEF Ports!MayBind
    <3>2. CASE Ports!Listen(p)
      BY <1>1, <3>2 DEF Ports!Listen, Ports!To, PortsInv
    <3> QED BY <2>1, <3>1, <3>2
  <2> QED BY <2>2 DEF Ports!Listening
<1>2. PortsInv /\ [MCNext]_allVars =>
        [\A p \in Progs : Fails(p) => Ports!Listening \ {p} # {}]_Ports!startVars
  BY <1>1, Apart DEF startVars, Ports!startVars
<1> QED BY <1>2, PortsInvariance, PTL DEF MCSpec, FailsOnlyToAnother, Ports!FailsOnlyToAnother

-----------------------------------------------------------------------------
(* The relay. *)

ProxyTypeOK ==
    /\ side \in [Proxy!Sides -> {"none", "on", "finish", "freed"}]
    /\ input \in [Proxy!Sides -> Nat] /\ output \in [Proxy!Sides -> Nat]
    /\ reading \in [Proxy!Sides -> BOOLEAN] /\ choking \in [Proxy!Sides -> BOOLEAN]
    /\ pending \in [Proxy!Sides -> SUBSET {"read", "write", "event"}]
    /\ calling \in BOOLEAN

IdleInv ==
    relay = "idle" => \A s \in Proxy!Sides :
        /\ side[s] = "none" /\ input[s] = 0 /\ output[s] = 0
        /\ ~reading[s] /\ ~choking[s] /\ pending[s] = {}

(* Both sides are relayed or none is; what a read event brought is passed  *)
(* on before the next one.                                                 *)
PairInv ==
    \A s \in Proxy!Sides : side[s] = "on" =>
        /\ side[Proxy!Other(s)] = "on"
        /\ input[s] <= ReadMax
        /\ "read" \notin pending[s] => input[s] = 0

(* A side is read only while the partner has room.  A write callback still *)
(* due from before the choking finds what one read event may have put into *)
(* an empty output, and that is less than the limit.                       *)
RoomInv ==
    \A s \in Proxy!Sides : side[s] = "on" =>
        /\ reading[s] \/ "read" \in pending[s] =>
             output[Proxy!Other(s)] < MaxOutput /\ ~choking[Proxy!Other(s)]
        /\ "write" \in pending[s] =>
             \/ choking[s] /\ output[s] <= MaxOutput \div 2
             \/ ~choking[s] /\ output[s] = 0
             \/ /\ ~choking[s] /\ output[s] < MaxOutput
                /\ calling /\ "read" \notin pending[Proxy!Other(s)]

ProxyInv == ProxyTypeOK /\ IdleInv /\ PairInv /\ RoomInv /\ Bounded

LEMMA HalfOutput ==
    /\ MaxOutput \in Nat /\ ReadMax \in Nat /\ ReadMax < MaxOutput /\ MaxOutput > 0
    /\ MaxOutput \div 2 \in Nat /\ MaxOutput \div 2 < MaxOutput
BY ProxyAssumption

LEMMA ProxyInit == Proxy!Init => ProxyInv
<1> SUFFICES ASSUME Proxy!Init PROVE ProxyInv
  OBVIOUS
<1>1. \A s \in Proxy!Sides :
        /\ side[s] = "none" /\ input[s] = 0 /\ output[s] = 0
        /\ reading[s] = FALSE /\ choking[s] = FALSE /\ pending[s] = {}
  BY DEF Proxy!Init, Proxy!All
<1>2. ProxyTypeOK
  BY DEF Proxy!Init, Proxy!All, ProxyTypeOK
<1>3. Bounded
  BY <1>1, HalfOutput DEF Bounded, Proxy!Bounded
<1> QED BY <1>1, <1>2, <1>3 DEF ProxyInv, IdleInv, PairInv, RoomInv

LEMMA TwoSides ==
    ASSUME NEW s \in Proxy!Sides
    PROVE  /\ Proxy!Other(s) \in Proxy!Sides /\ Proxy!Other(s) # s
           /\ Proxy!Other(Proxy!Other(s)) = s
           /\ Proxy!Sides = {s, Proxy!Other(s)}
BY DEF Proxy!Sides, Proxy!Other

(* The invariant of the two sides, spelled out for one of them.            *)
LEMMA ProxyCore ==
    ASSUME ProxyTypeOK, NEW s \in Proxy!Sides
    PROVE  /\ side[s] \in {"none", "on", "finish", "freed"}
           /\ input[s] \in Nat /\ output[s] \in Nat
           /\ reading[s] \in BOOLEAN /\ choking[s] \in BOOLEAN
           /\ pending[s] \subseteq {"read", "write", "event"}
BY DEF ProxyTypeOK

(* The peers' part, and a socket event that only leaves word of the end.   *)
LEMMA ProxyEnds ==
    ASSUME ProxyInv, NEW s \in Proxy!Sides,
           \/ Proxy!Say(s) \/ Proxy!End(s) \/ Proxy!Connected(s) \/ Proxy!Sigpipe(s)
           \/ Proxy!Refused(s) \/ Proxy!EofEvent(s) \/ Proxy!WriteError(s)
    PROVE  ProxyInv'
<1>1. /\ UNCHANGED <<side, input, output, choking, calling>>
      /\ relay' \in {relay, "killed"} /\ relay # "idle"
      /\ \/ UNCHANGED <<reading, pending>>
         \/ /\ pending' = [pending EXCEPT ![s] = @ \cup {"event"}]
            /\ reading' = reading \/ reading' = [reading EXCEPT ![s] = FALSE]
  BY DEF ProxyInv, IdleInv, Proxy!Say, Proxy!End, Proxy!Connected, Proxy!Refused, Proxy!EofEvent,
         Proxy!WriteError, Proxy!Sigpipe, Proxy!CanRead, Proxy!CanWrite, Proxy!Defer, Proxy!Running
<1>2. ProxyTypeOK' /\ IdleInv'
  <2>1. reading' \in [Proxy!Sides -> BOOLEAN]
    BY <1>1 DEF ProxyInv, ProxyTypeOK
  <2>2. pending' \in [Proxy!Sides -> SUBSET {"read", "write", "event"}]
    BY <1>1 DEF ProxyInv, ProxyTypeOK
  <2>3. IdleInv'
    BY <1>1 DEF IdleInv
  <2> QED BY <1>1, <2>1, <2>2, <2>3 DEF ProxyInv, ProxyTypeOK
<1>3. \A t \in Proxy!Sides :
        /\ reading'[t] => reading[t]
        /\ ~reading'[t] => ~reading[t] \/ "event" \in pending'[t]
        /\ \A w \in {"read", "write", "event"} : w \in pending[t] => w \in pending'[t]
        /\ \A w \in {"read", "write"} : w \in pending'[t] => w \in pending[t]
  BY <1>1 DEF ProxyInv, ProxyTypeOK
<1>4. PairInv'
  BY <1>1, <1>3 DEF ProxyInv, PairInv
<1>5. RoomInv'
  BY <1>1, <1>3, TwoSides DEF ProxyInv, RoomInv
<1>6. Bounded'
  BY <1>1, <1>3 DEF ProxyInv, Bounded, Proxy!Bounded, Proxy!Low
<1> QED BY <1>2, <1>4, <1>5, <1>6 DEF ProxyInv

LEMMA ProxyReadEvent ==
    ASSUME ProxyInv, NEW s \in Proxy!Sides, Proxy!ReadEvent(s)
    PROVE  ProxyInv'
<1> USE HalfOutput
<1>1. PICK k \in 1..ReadMax : input' = [input EXCEPT ![s] = @ + k]
  BY DEF Proxy!ReadEvent
<1>2. /\ UNCHANGED <<relay, side, output, reading, choking, calling>>
      /\ pending' = [pending EXCEPT ![s] = @ \cup {"read"}]
      /\ ~calling /\ relay # "idle" /\ reading[s] /\ "read" \notin pending[s]
  BY DEF Proxy!ReadEvent, Proxy!CanRead, Proxy!Defer, Proxy!Running
<1>3. ProxyTypeOK
  BY DEF ProxyInv
<1>4. ProxyTypeOK'
  <2>1. input' \in [Proxy!Sides -> Nat]
    BY <1>1, <1>3 DEF ProxyTypeOK
  <2>2. pending' \in [Proxy!Sides -> SUBSET {"read", "write", "event"}]
    BY <1>2, <1>3 DEF ProxyTypeOK
  <2> QED BY <1>2, <1>3, <2>1, <2>2 DEF ProxyTypeOK
<1>5. \A t \in Proxy!Sides :
        /\ t # s => input'[t] = input[t] /\ pending'[t] = pending[t]
        /\ t = s => input'[t] = input[t] + k /\ pending'[t] = pending[t] \cup {"read"}
  BY <1>1, <1>2, <1>3 DEF ProxyTypeOK
<1>6. PairInv'
  <2>1. side[s] = "on" => input[s] = 0
    BY <1>2 DEF ProxyInv, PairInv
  <2> QED BY <1>2, <1>5, <2>1 DEF ProxyInv, PairInv
<1>7. RoomInv'
  BY <1>2, <1>5, TwoSides DEF ProxyInv, RoomInv
<1>8. Bounded'
  <2>1. \A t \in Proxy!Sides : \A w \in {"write", "event"} : w \in pending'[t] <=> w \in pending[t]
    BY <1>5
  <2> QED BY <1>2, <2>1 DEF ProxyInv, Bounded, Proxy!Bounded, Proxy!Low
<1>9. IdleInv'
  BY <1>2 DEF IdleInv
<1> QED BY <1>4, <1>6, <1>7, <1>8, <1>9 DEF ProxyInv

LEMMA ProxyWriteEvent ==
    ASSUME ProxyInv, NEW s \in Proxy!Sides, Proxy!WriteEvent(s)
    PROVE  ProxyInv'
<1> USE HalfOutput
<1>1. /\ UNCHANGED <<relay, side, input, reading, choking, calling>>
      /\ output' = [output EXCEPT ![s] = @ - 1]
      /\ IF output[s] - 1 <= Proxy!Low(s) THEN pending' = [pending EXCEPT ![s] = @ \cup {"write"}]
         ELSE pending' = pending
      /\ ~calling /\ relay # "idle" /\ output[s] > 0
  BY DEF Proxy!WriteEvent, Proxy!CanWrite, Proxy!Defer, Proxy!Running
<1>2. ProxyTypeOK
  BY DEF ProxyInv
<1>3. ProxyTypeOK'
  <2>1. output' \in [Proxy!Sides -> Nat]
    <3>1. output[s] - 1 \in Nat
      BY <1>1, <1>2 DEF ProxyTypeOK
    <3> QED BY <1>1, <1>2, <3>1 DEF ProxyTypeOK
  <2>2. pending' \in [Proxy!Sides -> SUBSET {"read", "write", "event"}]
    BY <1>1, <1>2 DEF ProxyTypeOK
  <2> QED BY <1>1, <1>2, <2>1, <2>2 DEF ProxyTypeOK
<1>4. \A t \in Proxy!Sides :
        /\ t # s => output'[t] = output[t] /\ pending'[t] = pending[t]
        /\ output'[s] = output[s] - 1
        /\ output'[s] <= Proxy!Low(s) => "write" \in pending'[s]
        /\ \A w \in {"read", "write", "event"} : w \in pending[t] => w \in pending'[t]
        /\ \A w \in {"read", "event"} : w \in pending'[t] => w \in pending[t]
        /\ "write" \in pending'[s] => "write" \in pending[s] \/ output'[s] <= Proxy!Low(s)
  BY <1>1, <1>2 DEF ProxyTypeOK
<1>5. PairInv'
  BY <1>1, <1>4 DEF ProxyInv, PairInv
<1>6. RoomInv'
  BY <1>1, <1>2, <1>4, ProxyCore, TwoSides DEF ProxyInv, RoomInv, Proxy!Low
<1>7. Bounded'
  <2>1. ASSUME NEW t \in Proxy!Sides
        PROVE  /\ output'[t] < MaxOutput + ReadMax
               /\ side'[t] = "on" /\ choking'[t] => output'[t] > Proxy!Low(t)' \/ "write" \in pending'[t]
    <3>1. Proxy!Low(t)' = Proxy!Low(t)
      BY <1>1 DEF Proxy!Low
    <3> QED BY <1>1, <1>2, <1>4, <3>1, ProxyCore DEF ProxyInv, Bounded, Proxy!Bounded, Proxy!Low
  <2>2. ASSUME NEW t \in Proxy!Sides
        PROVE  side'[t] = "on" /\ ~reading'[t] => choking'[Proxy!Other(t)] \/ "event" \in pending'[t]
    BY <1>1, <1>4 DEF ProxyInv, Bounded, Proxy!Bounded
  <2> QED BY <2>1, <2>2 DEF Bounded, Proxy!Bounded
<1>8. IdleInv'
  BY <1>1 DEF IdleInv
<1> QED BY <1>3, <1>5, <1>6, <1>7, <1>8 DEF ProxyInv

(* Where callbacks are due, there will be calls.                           *)
LEMMA CallsDue ==
    ASSUME NEW t \in Proxy!Sides, Proxy!Called, side'[t] \in {"on", "finish"}, pending'[t] # {}
    PROVE  calling' = TRUE
BY DEF Proxy!Called

LEMMA ProxyReadcb ==
    ASSUME ProxyInv, NEW s \in Proxy!Sides, Proxy!Readcb(s)
    PROVE  ProxyInv'
<1> USE HalfOutput
<1> DEFINE o == Proxy!Other(s)
           all == output[o] + input[s]
<1>1. o \in Proxy!Sides /\ o # s /\ Proxy!Other(o) = s /\ Proxy!Sides = {s, o}
  BY TwoSides
<1>2. ProxyTypeOK
  BY DEF ProxyInv
<1>3. /\ UNCHANGED <<relay, side>> /\ relay = "running"
      /\ side[s] = "on" /\ side[o] = "on" /\ "read" \in pending[s]
      /\ output' = [output EXCEPT ![o] = all]
      /\ input' = [input EXCEPT ![s] = 0]
      /\ choking' = [choking EXCEPT ![o] = @ \/ all >= MaxOutput]
      /\ reading' = [reading EXCEPT ![s] = @ /\ ~(all >= MaxOutput)]
      /\ pending' = [pending EXCEPT ![s] = @ \ {"read"}]
      /\ Proxy!Called
  BY DEF ProxyInv, PairInv, Proxy!Readcb, Proxy!Due, Proxy!Running, Proxy!Done, Proxy!Relayed
<1>4. all \in Nat
  BY <1>1, <1>2 DEF ProxyTypeOK
<1>5. ProxyTypeOK'
  <2>1. output' \in [Proxy!Sides -> Nat] /\ input' \in [Proxy!Sides -> Nat]
    BY <1>2, <1>3, <1>4 DEF ProxyTypeOK
  <2>2. choking' \in [Proxy!Sides -> BOOLEAN]
    BY <1>2, <1>3 DEF ProxyTypeOK
  <2>3. reading' \in [Proxy!Sides -> BOOLEAN]
    BY <1>2, <1>3 DEF ProxyTypeOK
  <2>4. pending' \in [Proxy!Sides -> SUBSET {"read", "write", "event"}]
    BY <1>2, <1>3 DEF ProxyTypeOK
  <2>5. calling' \in BOOLEAN
    BY <1>3 DEF Proxy!Called
  <2> QED BY <1>2, <1>3, <2>1, <2>2, <2>3, <2>4, <2>5 DEF ProxyTypeOK
<1>6. /\ output'[s] = output[s] /\ output'[o] = all
      /\ input'[s] = 0 /\ input'[o] = input[o]
      /\ choking'[s] = choking[s]
      /\ reading'[o] = reading[o]
      /\ pending'[s] = pending[s] \ {"read"} /\ pending'[o] = pending[o]
  BY <1>1, <1>2, <1>3 DEF ProxyTypeOK
<1>7. /\ choking'[o] <=> choking[o] \/ all >= MaxOutput
      /\ reading'[s] <=> reading[s] /\ ~(all >= MaxOutput)
  BY <1>1, <1>2, <1>3 DEF ProxyTypeOK
<1>8. output[o] < MaxOutput /\ ~choking[o] /\ input[s] <= ReadMax
  BY <1>1, <1>3 DEF ProxyInv, RoomInv, PairInv
<1>9. "write" \in pending[o] => output[o] = 0
  BY <1>1, <1>3, <1>8 DEF ProxyInv, RoomInv
<1>10. PairInv'
  <2>1. ASSUME NEW t \in Proxy!Sides, side'[t] = "on"
        PROVE  side'[Proxy!Other(t)] = "on" /\ input'[t] <= ReadMax /\ ("read" \notin pending'[t] => input'[t] = 0)
    BY <1>1, <1>3, <1>6, <2>1 DEF ProxyInv, PairInv
  <2> QED BY <2>1 DEF PairInv
<1>11. RoomInv'
  <2>1. reading'[s] \/ "read" \in pending'[s] => output'[o] < MaxOutput /\ ~choking'[o]
    BY <1>4, <1>6, <1>7, <1>8
  <2>2. reading'[o] \/ "read" \in pending'[o] => output'[s] < MaxOutput /\ ~choking'[s]
    BY <1>1, <1>3, <1>6 DEF ProxyInv, RoomInv
  <2>3. "write" \in pending'[o] =>
          ~choking'[o] /\ output'[o] < MaxOutput /\ calling' /\ "read" \notin pending'[s]
    <3>1. "write" \in pending'[o] => calling' = TRUE
      BY <1>1, <1>3, CallsDue
    <3>2. input[s] \in Nat
      BY <1>2 DEF ProxyTypeOK
    <3>3. "write" \in pending'[o] => all < MaxOutput
      BY <1>6, <1>8, <1>9, <3>2
    <3> QED BY <1>4, <1>6, <1>7, <1>8, <3>1, <3>3
  <2>4. "write" \in pending'[s] =>
          \/ choking'[s] /\ output'[s] <= MaxOutput \div 2
          \/ ~choking'[s] /\ output'[s] = 0
          \/ /\ ~choking'[s] /\ output'[s] < MaxOutput
             /\ calling' /\ "read" \notin pending'[o]
    <3>1. "write" \in pending'[s] => calling' = TRUE
      BY <1>3, CallsDue
    <3>2. "write" \in pending'[s] => "write" \in pending[s]
      BY <1>6
    <3> QED BY <1>1, <1>3, <1>6, <3>1, <3>2 DEF ProxyInv, RoomInv
  <2>5. ASSUME NEW t \in Proxy!Sides
        PROVE  /\ reading'[t] \/ "read" \in pending'[t] =>
                    output'[Proxy!Other(t)] < MaxOutput /\ ~choking'[Proxy!Other(t)]
               /\ "write" \in pending'[t] =>
                    \/ choking'[t] /\ output'[t] <= MaxOutput \div 2
                    \/ ~choking'[t] /\ output'[t] = 0
                    \/ /\ ~choking'[t] /\ output'[t] < MaxOutput
                       /\ calling' /\ "read" \notin pending'[Proxy!Other(t)]
    <3>1. t = s \/ t = o
      BY <1>1
    <3> HIDE DEF o
    <3> QED BY <1>1, <2>1, <2>2, <2>3, <2>4, <3>1 DEF o
  <2> QED BY <2>5 DEF RoomInv
<1>12. Bounded'
  <2>1. /\ output'[s] < MaxOutput + ReadMax
        /\ ~reading'[s] => choking'[o] \/ "event" \in pending'[s]
        /\ choking'[s] => output'[s] > Proxy!Low(s)' \/ "write" \in pending'[s]
    BY <1>1, <1>3, <1>6, <1>7 DEF ProxyInv, Bounded, Proxy!Bounded, Proxy!Low
  <2>2. output'[o] < MaxOutput + ReadMax
    <3>1. input[s] \in Nat /\ output[o] \in Nat
      BY <1>1, <1>2 DEF ProxyTypeOK
    <3> QED BY <1>6, <1>8, <3>1
  <2>3. ~reading'[o] => choking'[s] \/ "event" \in pending'[o]
    BY <1>1, <1>3, <1>6 DEF ProxyInv, Bounded, Proxy!Bounded
  <2>4. choking'[o] => output'[o] > Proxy!Low(o)' \/ "write" \in pending'[o]
    BY <1>4, <1>6, <1>7, <1>8 DEF Proxy!Low
  <2> QED BY <1>1, <2>1, <2>2, <2>3, <2>4 DEF Bounded, Proxy!Bounded
<1>13. IdleInv'
  BY <1>3 DEF IdleInv
<1> QED BY <1>5, <1>10, <1>11, <1>12, <1>13 DEF ProxyInv

LEMMA ProxyDrained ==
    ASSUME ProxyInv, NEW s \in Proxy!Sides, Proxy!DrainedWritecb(s)
    PROVE  ProxyInv'
<1> USE HalfOutput
<1> DEFINE o == Proxy!Other(s)
<1>1. o \in Proxy!Sides /\ o # s /\ Proxy!Other(o) = s /\ Proxy!Sides = {s, o}
  BY TwoSides
<1>2. ProxyTypeOK
  BY DEF ProxyInv
<1>3. /\ UNCHANGED <<relay, side, input, output>> /\ relay = "running"
      /\ side[s] = "on" /\ side[o] = "on" /\ "write" \in pending[s]
      /\ choking' = [choking EXCEPT ![s] = FALSE]
      /\ reading' = [reading EXCEPT ![o] = @ \/ choking[s]]
      /\ pending' = [pending EXCEPT ![s] = @ \ {"write"}]
      /\ Proxy!Called
  BY DEF ProxyInv, PairInv, Proxy!DrainedWritecb, Proxy!Due, Proxy!Running, Proxy!Done
<1>4. ProxyTypeOK'
  <2>1. choking' \in [Proxy!Sides -> BOOLEAN]
    BY <1>2, <1>3 DEF ProxyTypeOK
  <2>2. reading' \in [Proxy!Sides -> BOOLEAN]
    BY <1>2, <1>3 DEF ProxyTypeOK
  <2>3. pending' \in [Proxy!Sides -> SUBSET {"read", "write", "event"}]
    BY <1>2, <1>3 DEF ProxyTypeOK
  <2>4. calling' \in BOOLEAN
    BY <1>3 DEF Proxy!Called
  <2> QED BY <1>2, <1>3, <2>1, <2>2, <2>3, <2>4 DEF ProxyTypeOK
<1>5. /\ ~choking'[s] /\ choking'[o] = choking[o]
      /\ reading'[s] = reading[s]
      /\ pending'[s] = pending[s] \ {"write"} /\ pending'[o] = pending[o]
  BY <1>1, <1>2, <1>3 DEF ProxyTypeOK
<1>6. reading'[o] <=> reading[o] \/ choking[s]
  BY <1>1, <1>2, <1>3 DEF ProxyTypeOK
<1>7. output[s] \in Nat /\ output[o] \in Nat
  BY <1>1, <1>2 DEF ProxyTypeOK
<1>8. PairInv'
  BY <1>1, <1>3, <1>5 DEF ProxyInv, PairInv
<1>9. RoomInv'
  <2>1. choking[s] => output[s] < MaxOutput
    BY <1>3, <1>7 DEF ProxyInv, RoomInv
  <2>2. reading'[o] \/ "read" \in pending'[o] => output'[s] < MaxOutput /\ ~choking'[s]
    BY <1>1, <1>3, <1>5, <1>6, <2>1 DEF ProxyInv, RoomInv
  <2>3. reading'[s] \/ "read" \in pending'[s] => output'[o] < MaxOutput /\ ~choking'[o]
    BY <1>1, <1>3, <1>5 DEF ProxyInv, RoomInv
  <2>4. "write" \notin pending'[s]
    BY <1>5
  <2>5. "write" \in pending'[o] => calling' = TRUE
    BY <1>1, <1>3, CallsDue
  <2>6. "write" \in pending'[o] =>
          \/ choking'[o] /\ output'[o] <= MaxOutput \div 2
          \/ ~choking'[o] /\ output'[o] = 0
          \/ ~choking'[o] /\ output'[o] < MaxOutput /\ calling' /\ "read" \notin pending'[s]
    BY <1>1, <1>3, <1>5, <2>5 DEF ProxyInv, RoomInv
  <2> QED BY <1>1, <2>2, <2>3, <2>4, <2>6 DEF RoomInv
<1>10. Bounded'
  <2>1. output'[s] < MaxOutput + ReadMax /\ output'[o] < MaxOutput + ReadMax
    BY <1>1, <1>3 DEF ProxyInv, Bounded, Proxy!Bounded
  <2>2. ~reading'[s] => choking'[o] \/ "event" \in pending'[s]
    BY <1>1, <1>3, <1>5 DEF ProxyInv, Bounded, Proxy!Bounded
  <2>3. ~reading'[o] => choking'[s] \/ "event" \in pending'[o]
    BY <1>1, <1>3, <1>5, <1>6 DEF ProxyInv, Bounded, Proxy!Bounded
  <2>4. choking'[o] => output'[o] > Proxy!Low(o)' \/ "write" \in pending'[o]
    BY <1>1, <1>3, <1>5 DEF ProxyInv, Bounded, Proxy!Bounded, Proxy!Low
  <2> QED BY <1>1, <1>5, <2>1, <2>2, <2>3, <2>4 DEF Bounded, Proxy!Bounded
<1>11. IdleInv'
  BY <1>3 DEF IdleInv
<1> QED BY <1>4, <1>8, <1>9, <1>10, <1>11 DEF ProxyInv

(* Where nothing is relayed any more, only the size of the outputs counts. *)
LEMMA NothingRelayed ==
    ASSUME ProxyTypeOK', relay' # "idle",
           \A s \in Proxy!Sides : side'[s] # "on" /\ output'[s] < MaxOutput + ReadMax
    PROVE  ProxyInv'
<1>1. IdleInv' /\ PairInv' /\ RoomInv'
  BY DEF IdleInv, PairInv, RoomInv
<1>2. Bounded'
  BY DEF Bounded, Proxy!Bounded
<1> QED BY <1>1, <1>2 DEF ProxyInv

LEMMA ProxyEnding ==
    ASSUME ProxyInv, NEW s \in Proxy!Sides,
           Proxy!CloseOnFinished(s) \/ Proxy!EventcbAlone(s) \/ Proxy!ReadSkipped(s)
    PROVE  ProxyInv'
<1> USE HalfOutput
<1>1. ProxyTypeOK
  BY DEF ProxyInv
<1>2. /\ UNCHANGED <<relay, input, reading, choking>> /\ relay = "running"
      /\ side[s] = "finish"
      /\ side' = side \/ side' = [side EXCEPT ![s] = "freed"]
      /\ output' = output \/ output' = [output EXCEPT ![s] = 0]
      /\ \E w \in {"read", "write", "event"} : pending' = [pending EXCEPT ![s] = @ \ {w}]
      /\ Proxy!Called
  <2>1. CASE Proxy!CloseOnFinished(s)
    BY <1>1, <2>1 DEF Proxy!CloseOnFinished, Proxy!Due, Proxy!Running, Proxy!Done, ProxyTypeOK
  <2>2. CASE Proxy!EventcbAlone(s)
    BY <2>2 DEF Proxy!EventcbAlone, Proxy!Due, Proxy!Running, Proxy!Done
  <2>3. CASE Proxy!ReadSkipped(s)
    BY <2>3 DEF Proxy!ReadSkipped, Proxy!Due, Proxy!Running, Proxy!Done
  <2> QED BY <2>1, <2>2, <2>3
<1>3. ProxyTypeOK'
  <2>1. side' \in [Proxy!Sides -> {"none", "on", "finish", "freed"}]
    BY <1>1, <1>2 DEF ProxyTypeOK
  <2>2. output' \in [Proxy!Sides -> Nat]
    BY <1>1, <1>2 DEF ProxyTypeOK
  <2>3. pending' \in [Proxy!Sides -> SUBSET {"read", "write", "event"}]
    BY <1>1, <1>2 DEF ProxyTypeOK
  <2>4. calling' \in BOOLEAN
    BY <1>2 DEF Proxy!Called
  <2> QED BY <1>1, <1>2, <2>1, <2>2, <2>3, <2>4 DEF ProxyTypeOK
<1>4. \A t \in Proxy!Sides : side[t] # "on"
  BY <1>2, TwoSides DEF ProxyInv, PairInv
<1>5. \A t \in Proxy!Sides : side'[t] # "on"
  BY <1>1, <1>2, <1>4 DEF ProxyTypeOK
<1>6. \A t \in Proxy!Sides : output'[t] < MaxOutput + ReadMax
  BY <1>1, <1>2 DEF ProxyInv, ProxyTypeOK, Bounded, Proxy!Bounded
<1> QED BY <1>2, <1>3, <1>5, <1>6, NothingRelayed

LEMMA ProxyPartner ==
    ASSUME ProxyInv, NEW s \in Proxy!Sides, Proxy!EventcbPartner(s)
    PROVE  ProxyInv'
<1> USE HalfOutput
<1> DEFINE o == Proxy!Other(s)
<1>1. o \in Proxy!Sides /\ o # s /\ Proxy!Other(o) = s /\ Proxy!Sides = {s, o}
  BY TwoSides
<1>2. ProxyTypeOK
  BY DEF ProxyInv
<1>3. side[s] = "on" /\ relay = "running" /\ pending[s] = {"event"}
  BY DEF Proxy!EventcbPartner, Proxy!Due, Proxy!Running
<1>4. input[s] = 0
  BY <1>3 DEF ProxyInv, PairInv
<1>5. Proxy!Relayed(s) = output[o] /\ output[o] \in Nat
  BY <1>1, <1>2, <1>4 DEF Proxy!Relayed, ProxyTypeOK
<1>6. /\ relay' = relay
      /\ output' = [output EXCEPT ![o] = output[o], ![s] = 0]
      /\ input' = [input EXCEPT ![s] = 0]
      /\ side' = [Proxy!All("freed") EXCEPT ![o] = IF output[o] > 0 THEN "finish" ELSE "freed"]
      /\ choking' = [choking EXCEPT ![o] = @ \/ output[o] >= MaxOutput]
      /\ reading' = Proxy!All(FALSE)
      /\ pending' = [pending EXCEPT ![s] = {}]
      /\ Proxy!Called
  BY <1>5 DEF Proxy!EventcbPartner
<1>7. /\ side' \in [Proxy!Sides -> {"none", "on", "finish", "freed"}]
      /\ \A t \in Proxy!Sides : side'[t] # "on"
  BY <1>1, <1>6 DEF Proxy!All
<1>8. ProxyTypeOK'
  <2>1. output' \in [Proxy!Sides -> Nat] /\ input' \in [Proxy!Sides -> Nat]
    BY <1>1, <1>2, <1>5, <1>6 DEF ProxyTypeOK
  <2>2. choking' \in [Proxy!Sides -> BOOLEAN]
    BY <1>2, <1>6 DEF ProxyTypeOK
  <2>3. reading' \in [Proxy!Sides -> BOOLEAN]
    BY <1>6 DEF Proxy!All
  <2>4. pending' \in [Proxy!Sides -> SUBSET {"read", "write", "event"}]
    BY <1>2, <1>6 DEF ProxyTypeOK
  <2>5. calling' \in BOOLEAN
    BY <1>6 DEF Proxy!Called
  <2> QED BY <1>7, <2>1, <2>2, <2>3, <2>4, <2>5 DEF ProxyTypeOK
<1>9. \A t \in Proxy!Sides : output'[t] < MaxOutput + ReadMax
  BY <1>1, <1>2, <1>6 DEF ProxyInv, ProxyTypeOK, Bounded, Proxy!Bounded
<1> QED BY <1>3, <1>6, <1>7, <1>8, <1>9, NothingRelayed

LEMMA ProxyAccept ==
    ASSUME ProxyInv, Proxy!AcceptCb
    PROVE  ProxyInv'
<1> USE HalfOutput
<1>1. ProxyTypeOK /\ relay' = "running" /\ UNCHANGED <<input, output, choking, pending, calling>>
  BY DEF ProxyInv, Proxy!AcceptCb
<1>2. \A t \in Proxy!Sides : input[t] = 0 /\ output[t] = 0 /\ ~choking[t] /\ pending[t] = {}
  BY DEF ProxyInv, IdleInv, Proxy!AcceptCb
<1>3. CASE side' = Proxy!All("on") /\ reading' = Proxy!All(TRUE)
  <2>1. \A t \in Proxy!Sides : side'[t] = "on" /\ reading'[t]
    BY <1>3 DEF Proxy!All
  <2>2. side' \in [Proxy!Sides -> {"none", "on", "finish", "freed"}]
    BY <1>3 DEF Proxy!All
  <2>3. reading' \in [Proxy!Sides -> BOOLEAN]
    BY <1>3 DEF Proxy!All
  <2>4. ProxyTypeOK'
    BY <1>1, <2>2, <2>3 DEF ProxyTypeOK
  <2>5. IdleInv' /\ PairInv' /\ RoomInv'
    BY <1>1, <1>2, <2>1, TwoSides DEF IdleInv, PairInv, RoomInv
  <2>6. Bounded'
    BY <1>1, <1>2, <2>1, TwoSides DEF Bounded, Proxy!Bounded
  <2> QED BY <2>4, <2>5, <2>6 DEF ProxyInv
<1>4. CASE side' = Proxy!All("freed") /\ reading' = reading
  <2>1. side' \in [Proxy!Sides -> {"none", "on", "finish", "freed"}] /\ \A t \in Proxy!Sides : side'[t] # "on"
    BY <1>4 DEF Proxy!All
  <2>2. ProxyTypeOK'
    BY <1>1, <1>4, <2>1 DEF ProxyTypeOK
  <2> QED BY <1>1, <1>2, <2>1, <2>2, NothingRelayed
<1> QED BY <1>3, <1>4 DEF Proxy!AcceptCb

LEMMA ProxyStep == ProxyInv /\ (Proxy!Next \/ UNCHANGED proxyVars) => ProxyInv'
<1>1. CASE ProxyInv /\ Proxy!Next
  BY <1>1, ProxyAccept, ProxyEnds, ProxyReadEvent, ProxyWriteEvent, ProxyReadcb, ProxyDrained,
     ProxyEnding, ProxyPartner
     DEF Proxy!Next, Proxy!Socket, Proxy!Output, Proxy!Callback
<1>2. CASE ProxyInv /\ UNCHANGED proxyVars
  BY <1>2 DEF proxyVars, ProxyInv, ProxyTypeOK, IdleInv, PairInv, RoomInv, Bounded, Proxy!Bounded, Proxy!Low
<1> QED BY <1>1, <1>2

(* The relay never holds more than the limit and one read for a peer, and  *)
(* leaves a side unread only while its partner is due to wake it, or the   *)
(* side is ending.                                                         *)
THEOREM RelayBounded == MCSpec => []Bounded
<1>1. MCInit => ProxyInv
  BY ProxyInit DEF MCInit
<1>2. ProxyInv /\ [MCNext]_allVars => ProxyInv'
  BY Apart, ProxyStep
<1>3. ProxyInv => Bounded
  BY DEF ProxyInv
<1> QED BY <1>1, <1>2, <1>3, PTL DEF MCSpec

-----------------------------------------------------------------------------
(* The library states induction with an operator as its parameter; a       *)
(* least counterexample serves instead.                                    *)
LEMMA LeastOf == \A T \in SUBSET Nat : T # {} => \E x \in T : \A y \in T : x <= y
<1> TAKE T \in SUBSET Nat
<1> HAVE T # {}
<1> DEFINE R == OpToRel(<, Nat)
<1>1. IsWellFoundedOn(R, Nat)
  BY NatLessThanWellFounded
<1>2. R = {p \in Nat \X Nat : p[1] < p[2]}
  BY DEF OpToRel
<1> HIDE DEF R
<1>3. PICK x \in T : \A y \in T : ~(<<y, x>> \in R)
  BY <1>1, WFMin
<1>4. \A y \in T : ~(y < x)
  BY <1>2, <1>3
<1> QED BY <1>4

-----------------------------------------------------------------------------
(* The UDP chat. *)

(* What is sent, and answered, when S has been asked.                      *)
Buffers == [1..BufLen -> Letters]
Sent(S) == UNION {Udp!Printed(b) : b \in S}
Back(S) == {Udp!Over(d, Udp!Zeros) : d \in Sent(S)}

(* Only texts of questions are under way, and only whole buffers back.     *)
UdpTypeOK ==
    /\ pieces \in Seq(Letters) /\ asked \subseteq Buffers
    /\ toServer \in Seq(Sent(asked)) /\ toClient \in Seq(Back(asked))
    /\ client \in [at : {"down", "read", "recv"}, line : asked \cup {Udp!Zeros}, shown : Sent(asked) \cup {<<>>}]
    /\ kills \in Nat

(* While nobody is killed, what is under way is the client's last line.    *)
FlightInv ==
    kills = 0 =>
        /\ client.at = "read" => client.shown \in Udp!Printed(client.line)
        /\ \/ toServer = <<>> /\ toClient = <<>>
           \/ /\ client.at = "recv" /\ toClient = <<>>
              /\ \E d \in Udp!Printed(client.line) : toServer = <<d>>
           \/ /\ client.at = "recv" /\ toServer = <<>>
              /\ \E d \in Udp!Printed(client.line) : toClient = <<Udp!Over(d, Udp!Zeros)>>

UdpInv == UdpTypeOK /\ FlightInv

(* A buffer, and the one the server gets the text of it into: either the   *)
(* first '\0' is at the same place, or there is none and nothing is lost.  *)
SameText(b, a) == Udp!Printed(a) = Udp!Printed(b) /\ \A c : Udp!Over(a, c) = a

LEMMA Cleared == \A l \in Seq(Letters) : Udp!Over(l, Udp!Zeros) \in Buffers
<1> SUFFICES ASSUME NEW l \in Seq(Letters) PROVE Udp!Over(l, Udp!Zeros) \in Buffers
  OBVIOUS
<1>1. BufLen \in Nat /\ NulChar \in Letters /\ Len(l) \in Nat
  BY UdpAssumption, LenProperties DEF Letters
<1>2. \A k \in 1..BufLen : k <= Len(l) => l[k] \in Letters
  BY <1>1, ElementOfSeq
<1>3. \A k \in 1..BufLen : (IF k <= Len(l) THEN l[k] ELSE Udp!Zeros[k]) \in Letters
  BY <1>1, <1>2 DEF Udp!Zeros
<1> QED BY <1>3 DEF Buffers, Udp!Over

LEMMA BufferSeq == \A b \in Buffers : b \in Seq(Letters) /\ Len(b) = BufLen
<1>1. BufLen \in Nat
  BY UdpAssumption
<1>2. \A b \in Buffers : b \in Seq(Letters)
  BY <1>1, SeqDef DEF Buffers
<1>3. \A b \in Buffers : DOMAIN b = 1..BufLen
  BY DEF Buffers
<1>4. \A b \in Buffers : DOMAIN b = 1..Len(b) /\ Len(b) \in Nat
  BY <1>2, LenProperties
<1> QED BY <1>1, <1>2, <1>3, <1>4

LEMMA FirstEnd ==
    ASSUME NEW b \in Buffers, Udp!Ends(b) # {}
    PROVE  LET k == Udp!First(Udp!Ends(b))
           IN  k \in 1..BufLen /\ b[k] = NulChar /\ \A m \in 1..BufLen : m < k => b[m] # NulChar
<1> DEFINE S == Udp!Ends(b)
<1>1. BufLen \in Nat /\ S = {k \in 1..BufLen : b[k] = NulChar}
  BY UdpAssumption DEF Udp!Ends, Buffers
<1>2. S \in SUBSET Nat /\ S # {}
  BY <1>1
<1> HIDE DEF S
<1>3. \E k \in S : \A m \in S : k <= m
  BY <1>2, LeastOf
<1>4. Udp!First(S) \in S /\ \A m \in S : Udp!First(S) <= m
  BY <1>3 DEF Udp!First
<1>5. \A m \in 1..BufLen : m < Udp!First(S) => m \notin S
  BY <1>1, <1>4
<1> QED BY <1>1, <1>4, <1>5 DEF S

LEMMA Echoed ==
    ASSUME NEW b \in Buffers, NEW d \in Udp!Printed(b)
    PROVE  SameText(b, Udp!Over(d, Udp!Zeros))
<1> DEFINE a == Udp!Over(d, Udp!Zeros)
<1>1. BufLen \in Nat /\ b \in Seq(Letters) /\ Len(b) = BufLen
  BY UdpAssumption, BufferSeq
<1>2. d \in Seq(Letters)
  <2>1. CASE Udp!Ends(b) # {}
    <3> DEFINE k == Udp!First(Udp!Ends(b))
    <3>1. d = SubSeq(b, 1, k - 1)
      BY <2>1 DEF Udp!Printed
    <3>2. k \in 1..BufLen
      BY <2>1, FirstEnd
    <3> HIDE DEF k
    <3>3. \A m \in 1..(k - 1) : b[m] \in Letters
      BY <1>1, <3>2 DEF Buffers
    <3> QED BY <1>1, <3>1, <3>2, <3>3, SubSeqProperties
  <2>2. CASE Udp!Ends(b) = {}
    <3>1. PICK more \in Behind : d = b \o more
      BY <2>2 DEF Udp!Printed
    <3>2. more \in Seq(Letters)
      BY UdpAssumption
    <3> QED BY <1>1, <3>1, <3>2, ConcatProperties
  <2> QED BY <2>1, <2>2
<1>3. a \in Buffers
  BY <1>2, Cleared
<1>4. a \in Seq(Letters) /\ Len(a) = BufLen
  BY <1>3, BufferSeq
<1>5. /\ Len(d) \in Nat
      /\ \A k \in 1..BufLen : a[k] = IF k <= Len(d) THEN d[k] ELSE NulChar
  BY <1>1, <1>2, LenProperties DEF Udp!Over, Udp!Zeros
<1> HIDE DEF a
<1>6. ASSUME NEW c PROVE Udp!Over(a, c) = a
  <2>1. Udp!Over(a, c) = [k \in 1..BufLen |-> a[k]]
    BY <1>1, <1>4 DEF Udp!Over
  <2> QED BY <1>3, <2>1 DEF Buffers
<1>7. Udp!Printed(a) = Udp!Printed(b)
  <2>1. CASE Udp!Ends(b) # {}
    <3> DEFINE k == Udp!First(Udp!Ends(b))
    <3>1. d = SubSeq(b, 1, k - 1)
      BY <2>1 DEF Udp!Printed
    <3>2. k \in 1..BufLen /\ \A m \in 1..BufLen : m < k => b[m] # NulChar
      BY <2>1, FirstEnd
    <3>3. Udp!Printed(b) = {d}
      BY <2>1, <3>1 DEF Udp!Printed
    <3> HIDE DEF k
    <3>4. Len(d) = k - 1 /\ \A m \in 1..(k - 1) : d[m] = b[m]
      <4>1. \A m \in 1..(k - 1) : b[m] \in Letters
        BY <1>1, <3>2 DEF Buffers
      <4>2. /\ Len(SubSeq(b, 1, k - 1)) = IF 1 <= k - 1 THEN ((k - 1) - 1) + 1 ELSE 0
            /\ \A m \in 1..(((k - 1) - 1) + 1) : SubSeq(b, 1, k - 1)[m] = b[(1 + m) - 1]
        BY <1>1, <3>2, <4>1, SubSeqProperties
      <4> QED BY <1>1, <3>1, <3>2, <4>2
    <3>5. /\ a[k] = NulChar
          /\ \A m \in 1..BufLen : m < k => a[m] = d[m] /\ a[m] # NulChar
      BY <1>1, <1>5, <3>2, <3>4
    <3>6. k \in Udp!Ends(a)
      BY <1>3, <3>2, <3>5 DEF Udp!Ends, Buffers
    <3> DEFINE j == Udp!First(Udp!Ends(a))
    <3>7. j \in 1..BufLen /\ a[j] = NulChar /\ \A m \in 1..BufLen : m < j => a[m] # NulChar
      BY <1>3, <3>6, FirstEnd
    <3>8. Udp!Printed(a) = {SubSeq(a, 1, j - 1)}
      BY <3>6 DEF Udp!Printed
    <3> HIDE DEF j
    <3>9. j = k
      BY <1>1, <3>2, <3>5, <3>7
    <3>10. SubSeq(a, 1, k - 1) = d
      <4>1. \A m \in 1..(k - 1) : a[m] \in Letters
        BY <1>1, <1>3, <3>2 DEF Buffers
      <4>2. /\ SubSeq(a, 1, k - 1) \in Seq(Letters)
            /\ Len(SubSeq(a, 1, k - 1)) = IF 1 <= k - 1 THEN ((k - 1) - 1) + 1 ELSE 0
            /\ \A m \in 1..(((k - 1) - 1) + 1) : SubSeq(a, 1, k - 1)[m] = a[(1 + m) - 1]
        BY <1>1, <1>4, <3>2, <4>1, SubSeqProperties
      <4>3. Len(SubSeq(a, 1, k - 1)) = Len(d)
        BY <1>1, <3>2, <3>4, <4>2
      <4>4. \A m \in 1..Len(d) : SubSeq(a, 1, k - 1)[m] = d[m]
        BY <1>1, <3>2, <3>4, <3>5, <4>2
      <4> QED BY <1>2, <4>2, <4>3, <4>4, SeqEqual
    <3> QED BY <3>3, <3>8, <3>9, <3>10
  <2>2. CASE Udp!Ends(b) = {}
    <3>1. PICK more \in Behind : d = b \o more
      BY <2>2 DEF Udp!Printed
    <3>2. more \in Seq(Letters) /\ Len(more) \in Nat
      BY UdpAssumption, LenProperties
    <3>3. Len(d) = BufLen + Len(more) /\ \A k \in 1..BufLen : d[k] = b[k]
      <4>1. /\ Len(b \o more) = Len(b) + Len(more)
            /\ \A k \in 1..Len(b) : (b \o more)[k] = b[k]
        BY <1>1, <3>2, ConcatProperties
      <4> QED BY <1>1, <3>1, <4>1
    <3>4. \A k \in 1..BufLen : a[k] = b[k]
      BY <1>1, <1>5, <3>2, <3>3
    <3>5. a = b
      <4>1. a = [k \in 1..BufLen |-> a[k]] /\ b = [k \in 1..BufLen |-> b[k]]
        BY <1>3 DEF Buffers
      <4>2. [k \in 1..BufLen |-> a[k]] = [k \in 1..BufLen |-> b[k]]
        BY <3>4
      <4> QED BY <4>1, <4>2
    <3> QED BY <3>5
  <2> QED BY <2>1, <2>2
<1> QED BY <1>6, <1>7 DEF SameText, a

(* Nothing asked, nothing printed. *)
LEMMA ZerosText == <<>> \in Udp!Printed(Udp!Zeros) /\ Udp!Zeros \in Buffers
<1>1. BufLen \in Nat \ {0} /\ NulChar \in Letters
  BY UdpAssumption DEF Letters
<1>2. Udp!Zeros \in Buffers /\ 1 \in Udp!Ends(Udp!Zeros)
  BY <1>1 DEF Udp!Zeros, Buffers, Udp!Ends
<1> DEFINE k == Udp!First(Udp!Ends(Udp!Zeros))
<1>3. k \in 1..BufLen /\ \A m \in 1..BufLen : m < k => Udp!Zeros[m] # NulChar
  BY <1>2, FirstEnd
<1>4. Udp!Printed(Udp!Zeros) = {SubSeq(Udp!Zeros, 1, k - 1)}
  BY <1>2 DEF Udp!Printed
<1> HIDE DEF k
<1>5. k = 1
  <2>1. Udp!Zeros[1] = NulChar /\ 1 \in 1..BufLen
    BY <1>1 DEF Udp!Zeros
  <2> QED BY <1>1, <1>3, <2>1
<1>6. SubSeq(Udp!Zeros, 1, 0) = <<>>
  <2>1. Len(SubSeq(Udp!Zeros, 1, 0)) = 0 /\ SubSeq(Udp!Zeros, 1, 0) \in Seq(Letters)
    <3>1. Udp!Zeros \in Seq(Letters)
      BY <1>2, BufferSeq
    <3> QED BY <3>1, SubSeqProperties
  <2> QED BY <2>1, EmptySeq
<1> QED BY <1>2, <1>4, <1>5, <1>6

LEMMA UdpInit == Udp!Init => UdpInv
<1> SUFFICES ASSUME Udp!Init PROVE UdpInv
  OBVIOUS
<1>1. UdpTypeOK
  BY EmptySeq DEF Udp!Init, UdpTypeOK
<1>2. FlightInv
  BY DEF Udp!Init, FlightInv
<1> QED BY <1>1, <1>2 DEF UdpInv

LEMMA UdpStep == UdpInv /\ (Udp!Next \/ UNCHANGED udpVars) => UdpInv'
<1> SUFFICES ASSUME UdpInv, Udp!Next \/ UNCHANGED udpVars PROVE UdpInv'
  OBVIOUS
<1>1. /\ pieces \in Seq(Letters) /\ asked \subseteq Buffers /\ kills \in Nat
      /\ toServer \in Seq(Sent(asked)) /\ toClient \in Seq(Back(asked))
      /\ client \in [at : {"down", "read", "recv"},
                     line : asked \cup {Udp!Zeros}, shown : Sent(asked) \cup {<<>>}]
  BY DEF UdpInv, UdpTypeOK
<1>2. CASE UNCHANGED udpVars
  BY <1>2 DEF udpVars, UdpInv, UdpTypeOK, FlightInv
<1>3. CASE Udp!ServerStart
  BY <1>3 DEF Udp!ServerStart, UdpInv, UdpTypeOK, FlightInv
<1>4. CASE Udp!ClientStart
  <2>1. /\ client' = [at |-> "read", line |-> Udp!Zeros, shown |-> <<>>] /\ pieces' = <<>> /\ client.at = "down"
        /\ UNCHANGED <<toServer, toClient, asked, kills>>
    BY <1>4 DEF Udp!ClientStart
  <2>2. UdpTypeOK'
    BY <1>1, <2>1, EmptySeq DEF UdpTypeOK
  <2>3. FlightInv'
    BY <2>1, ZerosText DEF UdpInv, FlightInv
  <2> QED BY <2>2, <2>3 DEF UdpInv
<1>5. ASSUME NEW l \in Lines \cup {pieces}, Udp!Ask(l) PROVE UdpInv'
  <2> DEFINE b == Udp!Over(l, Udp!Zeros)
  <2>0. l \in Seq(Letters) /\ Len(l) \in Nat /\ BufLen \in Nat
    BY <1>1, UdpAssumption, LenProperties
  <2>1. b \in Buffers
    BY <2>0, Cleared
  <2> HIDE DEF b
  <2>2. /\ client.at = "read" /\ client' = [client EXCEPT !.at = "recv", !.line = b]
        /\ asked' = asked \cup {client'.line} /\ UNCHANGED <<toClient, kills>>
        /\ \E d \in Udp!Printed(client'.line) : toServer' = toServer \/ toServer' = Append(toServer, d)
        /\ pieces' = IF Len(l) > BufLen THEN SubSeq(l, BufLen + 1, Len(l)) ELSE <<>>
    BY <1>5 DEF Udp!Ask, b
  <2>3. client'.at = "recv" /\ client'.line = b
    BY <1>1, <2>2
  <2>4. PICK d \in Udp!Printed(b) : toServer' = toServer \/ toServer' = Append(toServer, d)
    BY <2>2, <2>3
  <2>5. pieces' \in Seq(Letters)
    <3>1. CASE Len(l) > BufLen
      <4>1. \A k \in (BufLen + 1)..Len(l) : l[k] \in Letters
        BY <2>0, ElementOfSeq
      <4> QED BY <2>0, <2>2, <3>1, <4>1, SubSeqProperties
    <3> QED BY <2>2, <3>1, EmptySeq
  <2>6. asked' \subseteq Buffers /\ asked \subseteq asked' /\ b \in asked'
    BY <1>1, <2>1, <2>2, <2>3
  <2>7. Sent(asked) \subseteq Sent(asked') /\ d \in Sent(asked')
    BY <2>6 DEF Sent
  <2>8. Back(asked) \subseteq Back(asked')
    BY <2>7 DEF Back
  <2>9. toServer \in Seq(Sent(asked')) /\ toClient \in Seq(Back(asked'))
    BY <1>1, <2>7, <2>8, SeqMonotonic
  <2>10. toServer' \in Seq(Sent(asked'))
    BY <2>4, <2>7, <2>9, AppendProperties
  <2>11. client' \in [at : {"down", "read", "recv"},
                     line : asked' \cup {Udp!Zeros}, shown : Sent(asked') \cup {<<>>}]
    BY <1>1, <2>2, <2>6, <2>7
  <2>12. FlightInv'
    <3>1. kills = 0 => toServer = <<>> /\ toClient = <<>>
      BY <2>2 DEF UdpInv, FlightInv
    <3>2. Append(<<>>, d) = <<d>>
      OBVIOUS
    <3> QED BY <2>2, <2>3, <2>4, <3>1, <3>2 DEF FlightInv
  <2>13. UdpTypeOK'
    <3>1. kills' \in Nat /\ toClient' \in Seq(Back(asked'))
      BY <1>1, <2>2, <2>9
    <3>2. Sent(asked)' = Sent(asked') /\ Back(asked)' = Back(asked')
      BY DEF Sent, Back, Udp!Printed, Udp!Ends, Udp!First, Udp!Over, Udp!Zeros
    <3>3. Udp!Zeros' = Udp!Zeros
      BY DEF Udp!Zeros
    <3> QED BY <2>5, <2>6, <2>10, <2>11, <3>1, <3>2, <3>3 DEF UdpTypeOK, Buffers, Letters
  <2> QED BY <2>12, <2>13 DEF UdpInv
<1>6. CASE Udp!Serve
  <2> DEFINE back == Udp!Over(Head(toServer), Udp!Zeros)
  <2>1. /\ toServer # <<>> /\ toServer' = Tail(toServer)
        /\ toClient' = IF client.at = "down" THEN toClient ELSE Append(toClient, back)
        /\ UNCHANGED <<pieces, client, asked, kills>>
    BY <1>6 DEF Udp!Serve, Udp!ServeWith
  <2>2. Head(toServer) \in Sent(asked) /\ Tail(toServer) \in Seq(Sent(asked))
    BY <1>1, <2>1, HeadTailProperties
  <2>3. back \in Back(asked)
    BY <2>2 DEF Back
  <2> HIDE DEF back
  <2>4. toClient' \in Seq(Back(asked))
    BY <1>1, <2>1, <2>3, AppendProperties
  <2>5. UdpTypeOK'
    BY <1>1, <2>1, <2>2, <2>4 DEF UdpTypeOK
  <2>6. FlightInv'
    <3>1. CASE kills = 0
      <4>1. /\ client.at = "recv" /\ toClient = <<>>
            /\ \E d \in Udp!Printed(client.line) : toServer = <<d>>
        BY <2>1, <3>1 DEF UdpInv, FlightInv
      <4>2. PICK d \in Udp!Printed(client.line) : toServer = <<d>>
        BY <4>1
      <4>3. Head(toServer) = d /\ Tail(toServer) = <<>>
        BY <4>2
      <4>4. toClient' = <<Udp!Over(d, Udp!Zeros)>>
        <5>1. toClient' = Append(<<>>, back)
          BY <2>1, <4>1
        <5> QED BY <4>3, <5>1 DEF back
      <4> QED BY <2>1, <4>1, <4>3, <4>4 DEF FlightInv
    <3> QED BY <2>1, <3>1 DEF FlightInv
  <2> QED BY <2>5, <2>6 DEF UdpInv
<1>7. CASE Udp!Receive
  <2>0. client.at = "recv" /\ toClient # <<>>
    BY <1>7 DEF Udp!Receive
  <2>1. Head(toClient) \in Back(asked) /\ Tail(toClient) \in Seq(Back(asked))
    BY <1>1, <2>0, HeadTailProperties
  <2>2. PICK d \in Sent(asked) : Head(toClient) = Udp!Over(d, Udp!Zeros)
    BY <2>1 DEF Back
  <2>3. PICK b \in asked : d \in Udp!Printed(b)
    BY DEF Sent
  <2>4. SameText(b, Head(toClient))
    BY <1>1, <2>2, <2>3, Echoed
  <2>5. reBuf' = Head(toClient)
    BY <1>7, <2>4 DEF Udp!Receive, SameText
  <2>6. PICK text \in Udp!Printed(b) : client' = [client EXCEPT !.at = "read", !.shown = text]
    BY <1>7, <2>4, <2>5 DEF Udp!Receive, SameText
  <2>7. toClient' = Tail(toClient) /\ UNCHANGED <<pieces, toServer, asked, kills>>
    BY <1>7 DEF Udp!Receive
  <2>8. text \in Sent(asked)
    BY DEF Sent
  <2>9. UdpTypeOK'
    BY <1>1, <2>1, <2>6, <2>7, <2>8 DEF UdpTypeOK
  <2>10. FlightInv'
    <3>1. client'.shown = text /\ client'.line = client.line
      BY <1>1, <2>6
    <3>2. ASSUME kills = 0
          PROVE  toServer = <<>> /\ Tail(toClient) = <<>> /\ text \in Udp!Printed(client.line)
      <4>1. toServer = <<>> /\ \E e \in Udp!Printed(client.line) : toClient = <<Udp!Over(e, Udp!Zeros)>>
        BY <2>0, <3>2 DEF UdpInv, FlightInv
      <4>2. PICK e \in Udp!Printed(client.line) : toClient = <<Udp!Over(e, Udp!Zeros)>>
        BY <4>1
      <4>3. Tail(toClient) = <<>> /\ Head(toClient) = Udp!Over(e, Udp!Zeros)
        BY <4>2
      <4>4. client.line \in Buffers
        BY <1>1, ZerosText
      <4>5. SameText(client.line, Head(toClient))
        BY <4>3, <4>4, Echoed
      <4> QED BY <2>4, <4>1, <4>3, <4>5 DEF SameText
    <3> QED BY <2>7, <3>1, <3>2 DEF FlightInv
  <2> QED BY <2>9, <2>10 DEF UdpInv
<1>8. CASE Udp!Lose
  <2>1. /\ UNCHANGED <<pieces, client, asked, kills>>
        /\ \/ toServer # <<>> /\ toServer' = Tail(toServer) /\ toClient' = toClient
           \/ toClient # <<>> /\ toClient' = Tail(toClient) /\ toServer' = toServer
    BY <1>8 DEF Udp!Lose
  <2>2. UdpTypeOK'
    <3>1. toServer' \in Seq(Sent(asked)) /\ toClient' \in Seq(Back(asked))
      <4>1. toServer # <<>> => Tail(toServer) \in Seq(Sent(asked))
        BY <1>1, HeadTailProperties
      <4>2. toClient # <<>> => Tail(toClient) \in Seq(Back(asked))
        BY <1>1, HeadTailProperties
      <4> QED BY <1>1, <2>1, <4>1, <4>2
    <3> QED BY <1>1, <2>1, <3>1 DEF UdpTypeOK
  <2>3. FlightInv'
    <3>1. \A d : Tail(<<d>>) = <<>>
      OBVIOUS
    <3>2. kills = 0 => toServer' = <<>> /\ toClient' = <<>>
      BY <2>1, <3>1 DEF UdpInv, FlightInv
    <3> QED BY <2>1, <3>2 DEF UdpInv, FlightInv
  <2> QED BY <2>2, <2>3 DEF UdpInv
<1>9. CASE Udp!Kill
  <2>1. /\ kills' = kills + 1 /\ UNCHANGED <<pieces, asked>>
        /\ client' = client \/ client' = [client EXCEPT !.at = "down"]
        /\ toServer' \in {toServer, <<>>} /\ toClient' \in {toClient, <<>>}
    BY <1>9 DEF Udp!Kill
  <2>2. kills' \in Nat /\ kills' # 0
    BY <1>1, <2>1
  <2>3. client' \in [at : {"down", "read", "recv"},
                     line : asked \cup {Udp!Zeros}, shown : Sent(asked) \cup {<<>>}]
    BY <1>1, <2>1
  <2>4. toServer' \in Seq(Sent(asked)) /\ toClient' \in Seq(Back(asked))
    <3>1. <<>> \in Seq(Sent(asked)) /\ <<>> \in Seq(Back(asked))
      BY EmptySeq
    <3>2. toServer \in Seq(Sent(asked)) /\ toClient \in Seq(Back(asked))
      BY <1>1
    <3> QED BY <2>1, <3>1, <3>2
  <2>5. UdpTypeOK'
    BY <1>1, <2>1, <2>2, <2>3, <2>4 DEF UdpTypeOK
  <2> QED BY <2>2, <2>5 DEF UdpInv, FlightInv
<1>10. Udp!Next <=> \/ Udp!ServerStart \/ Udp!ClientStart \/ Udp!Serve \/ Udp!Receive \/ Udp!Lose \/ Udp!Kill
                   \/ \E l \in Lines \cup {pieces} : Udp!Ask(l)
  BY DEF Udp!Next
<1> QED BY <1>2, <1>3, <1>4, <1>5, <1>6, <1>7, <1>8, <1>9, <1>10

LEMMA UdpRight == UdpInv => Udp!PrintsWhole
BY DEF UdpInv, UdpTypeOK, FlightInv, Udp!PrintsWhole, Sent

-----------------------------------------------------------------------------
(* The chat over UNIX-domain sockets. *)

ChatTypeOK ==
    /\ at \in [Users -> {"down", "read", "recv"}]
    /\ chatLink \in [Users -> {"none", "queued", "accepted", "cut"}]
    /\ typed \in [Users -> Chat!Typed \cup {Nothing}]
    /\ up \in [Users -> Chat!Typed \cup {Nothing}]
    /\ down \in [Users -> Chat!Typed \cup {Nothing}]

(* A connected client that waits has its line under way, or the answer, or *)
(* had nothing to say.                                                     *)
WaitInv ==
    \A u \in Users :
        /\ srv = "serve" /\ served = u => chatLink[u] = "accepted"
        /\ at[u] = "recv" /\ chatLink[u] \in {"queued", "accepted"} =>
             up[u] = typed[u] \/ (up[u] = Nothing /\ (down[u] # Nothing \/ typed[u] = Empty))

LineInv == \A u \in Users : at[u] = "recv" => typed[u] # Nothing

ChatInv == ChatTypeOK /\ WaitInv /\ LineInv

LEMMA ChatInit == Chat!Init => ChatInv
<1> SUFFICES ASSUME Chat!Init PROVE ChatInv
  OBVIOUS
<1>1. ChatTypeOK
  BY DEF Chat!Init, ChatTypeOK
<1>2. WaitInv /\ LineInv
  BY DEF Chat!Init, WaitInv, LineInv
<1> QED BY <1>1, <1>2 DEF ChatInv

LEMMA ChatGone == ASSUME ChatInv, Chat!ServerGone PROVE ChatInv'
<1>1. /\ srv' = "down" /\ UNCHANGED <<at, typed, down>>
      /\ chatLink' = [u \in Users |-> IF chatLink[u] = "none" THEN "none" ELSE "cut"]
      /\ up' = [u \in Users |-> Nothing]
  BY DEF Chat!ServerGone
<1>2. ChatTypeOK'
  BY <1>1 DEF ChatInv, ChatTypeOK
<1>3. WaitInv' /\ LineInv'
  BY <1>1 DEF ChatInv, WaitInv, LineInv
<1> QED BY <1>2, <1>3 DEF ChatInv

(* What one user and the server do changes the entries of that user.       *)
LEMMA ChatOther ==
    ASSUME ChatInv, ChatTypeOK', NEW u \in Users,
           \A v \in Users \ {u} :
              /\ at'[v] = at[v] /\ chatLink'[v] = chatLink[v] /\ typed'[v] = typed[v]
              /\ up'[v] = up[v] /\ down'[v] = down[v],
           srv' = "serve" => \/ srv = "serve" /\ served' = served /\ (served = u => chatLink'[u] = chatLink[u])
                             \/ served' = u /\ chatLink'[u] = "accepted",
           at'[u] = "recv" => typed'[u] # Nothing,
           at'[u] = "recv" /\ chatLink'[u] \in {"queued", "accepted"} =>
             up'[u] = typed'[u] \/ (up'[u] = Nothing /\ (down'[u] # Nothing \/ typed'[u] = Empty))
    PROVE  ChatInv'
BY DEF ChatInv, WaitInv, LineInv

LEMMA ChatStep == ChatInv /\ (Chat!Next \/ UNCHANGED chatVars) => ChatInv'
<1> SUFFICES ASSUME ChatInv, Chat!Next \/ UNCHANGED chatVars PROVE ChatInv'
  OBVIOUS
<1>1. ChatTypeOK /\ Nothing \notin Chat!Typed
  BY ChatAssumption DEF ChatInv, Chat!Typed
<1>2. CASE UNCHANGED chatVars
  BY <1>2 DEF chatVars, ChatInv, ChatTypeOK, WaitInv, LineInv
<1>3. CASE Chat!ServerStart
  BY <1>3 DEF Chat!ServerStart, ChatInv, ChatTypeOK, WaitInv, LineInv
<1>4. CASE Chat!Kill
  <2>1. ASSUME NEW u \in Users, at[u] # "down", at' = [at EXCEPT ![u] = "down"],
               UNCHANGED <<srv, served, chatLink, typed, up, down>>
        PROVE  ChatInv'
    <3>1. ChatTypeOK'
      BY <1>1, <2>1 DEF ChatTypeOK
    <3>2. at'[u] = "down" /\ \A v \in Users \ {u} : at'[v] = at[v]
      BY <1>1, <2>1 DEF ChatTypeOK
    <3> QED BY <2>1, <3>1, <3>2, ChatOther
  <2> QED BY <1>4, <2>1, ChatGone DEF Chat!Kill
<1>5. ASSUME NEW u \in Users, Chat!Accept(u) PROVE ChatInv'
  <2>1. ChatTypeOK'
    BY <1>1, <1>5 DEF Chat!Accept, ChatTypeOK
  <2>2. chatLink'[u] = "accepted" /\ \A v \in Users \ {u} : chatLink'[v] = chatLink[v]
    BY <1>1, <1>5 DEF Chat!Accept, ChatTypeOK
  <2> QED BY <1>5, <2>1, <2>2, ChatOther DEF Chat!Accept, ChatInv, WaitInv, LineInv
<1>6. ASSUME NEW u \in Users, Chat!Answer(u) PROVE ChatInv'
  <2>1. ChatTypeOK'
    <3>1. up' \in [Users -> Chat!Typed \cup {Nothing}] /\ down' \in [Users -> Chat!Typed \cup {Nothing}]
      BY <1>1, <1>6 DEF Chat!Answer, ChatTypeOK
    <3> QED BY <1>1, <1>6, <3>1 DEF Chat!Answer, ChatTypeOK
  <2>2. /\ up[u] # Nothing /\ up'[u] = Nothing /\ (up[u] # Empty => down'[u] = up[u])
        /\ \A v \in Users \ {u} : up'[v] = up[v] /\ down'[v] = down[v]
    BY <1>1, <1>6 DEF Chat!Answer, Chat!Received, ChatTypeOK
  <2>3. UNCHANGED <<srv, served, at, chatLink, typed>>
    BY <1>6 DEF Chat!Answer
  <2>4. at[u] = "recv" /\ chatLink[u] \in {"queued", "accepted"} => up[u] = typed[u]
    BY <2>2 DEF ChatInv, WaitInv
  <2> QED BY <2>1, <2>2, <2>3, <2>4, ChatOther DEF ChatInv, LineInv
<1>7. ASSUME NEW u \in Users, Chat!AnswerNobody(u) \/ Chat!RecvEnd(u) PROVE ChatInv'
  BY <1>7, ChatGone DEF Chat!AnswerNobody, Chat!RecvEnd
<1>8. ASSUME NEW u \in Users, Chat!ClientStart(u) PROVE ChatInv'
  <2>1. ChatTypeOK'
    <3>1. /\ at' \in [Users -> {"down", "read", "recv"}]
          /\ chatLink' \in [Users -> {"none", "queued", "accepted", "cut"}]
      BY <1>1, <1>8 DEF Chat!ClientStart, ChatTypeOK
    <3>2. /\ typed' \in [Users -> Chat!Typed \cup {Nothing}]
          /\ up' \in [Users -> Chat!Typed \cup {Nothing}]
          /\ down' \in [Users -> Chat!Typed \cup {Nothing}]
      BY <1>1, <1>8 DEF Chat!ClientStart, ChatTypeOK
    <3> QED BY <3>1, <3>2 DEF ChatTypeOK
  <2>2. /\ at'[u] = "read" /\ UNCHANGED <<srv, served>> /\ chatLink[u] \in {"none", "cut"}
        /\ \A v \in Users \ {u} :
             /\ at'[v] = at[v] /\ chatLink'[v] = chatLink[v] /\ typed'[v] = typed[v]
             /\ up'[v] = up[v] /\ down'[v] = down[v]
    BY <1>1, <1>8 DEF Chat!ClientStart, ChatTypeOK
  <2>3. srv = "serve" => served # u
    BY <2>2 DEF ChatInv, WaitInv
  <2> QED BY <2>1, <2>2, <2>3, ChatOther
<1>9. ASSUME NEW u \in Users, NEW l \in Chat!Typed, Chat!Type(u, l) PROVE ChatInv'
  <2>1. ChatTypeOK'
    <3>1. at' \in [Users -> {"down", "read", "recv"}]
      BY <1>1, <1>9 DEF Chat!Type, ChatTypeOK
    <3>2. typed' \in [Users -> Chat!Typed \cup {Nothing}] /\ up' \in [Users -> Chat!Typed \cup {Nothing}]
      BY <1>1, <1>9 DEF Chat!Type, ChatTypeOK
    <3> QED BY <1>1, <1>9, <3>1, <3>2 DEF Chat!Type, ChatTypeOK
  <2>2. /\ UNCHANGED <<srv, served, chatLink, down>> /\ typed'[u] = l
        /\ chatLink[u] \in {"queued", "accepted"} => up'[u] = l
        /\ \A v \in Users \ {u} : at'[v] = at[v] /\ typed'[v] = typed[v] /\ up'[v] = up[v]
    BY <1>1, <1>9 DEF Chat!Type, ChatTypeOK
  <2> QED BY <1>1, <2>1, <2>2, ChatOther
<1>10. ASSUME NEW u \in Users, Chat!Recv(u) PROVE ChatInv'
  <2>1. /\ UNCHANGED <<srv, served, chatLink, typed, up>>
        /\ at' = [at EXCEPT ![u] = "read"] \/ at' = [at EXCEPT ![u] = "down"]
        /\ down' = down \/ down' = [down EXCEPT ![u] = Nothing]
    BY <1>10 DEF Chat!Recv, Chat!RecvAnswer, Chat!RecvGone
  <2>2. ChatTypeOK'
    <3>1. at' \in [Users -> {"down", "read", "recv"}]
      BY <1>1, <2>1 DEF ChatTypeOK
    <3>2. down' \in [Users -> Chat!Typed \cup {Nothing}]
      BY <1>1, <2>1 DEF ChatTypeOK
    <3> QED BY <1>1, <2>1, <3>1, <3>2 DEF ChatTypeOK
  <2>3. at'[u] # "recv" /\ \A v \in Users \ {u} : at'[v] = at[v] /\ down'[v] = down[v]
    BY <1>1, <2>1 DEF ChatTypeOK
  <2> QED BY <2>1, <2>2, <2>3, ChatOther
<1> QED BY <1>2, <1>3, <1>4, <1>5, <1>6, <1>7, <1>8, <1>9, <1>10 DEF Chat!Next, Chat!Server

LEMMA ChatRight == ChatInv => Chat!BothWaitOnlyOnEmpty
BY DEF ChatInv, WaitInv, LineInv, Chat!BothWaitOnlyOnEmpty

-----------------------------------------------------------------------------
(* The calculator. *)

Question == [a : Fields, op : {"+", "-"}, b : Fields]

PagesTypeOK ==
    /\ page \in Pages!Pages \cup {Nothing}
    /\ questions \in Seq(Question) /\ unanswered \subseteq 1..Len(questions)
    /\ results.of \in 0..Len(questions)

(* A result is the answer to its question, on a page that gets answers; a  *)
(* synchronous page has at most its last question open.                    *)
ShownInv ==
    /\ page = Nothing => questions = <<>> /\ results.of = 0
    /\ results.of # 0 => results.text \in Pages!Cgi(questions[results.of]) /\ page # "postSyn"
    /\ page = "getSyn" =>
         /\ \A k \in unanswered : k = Len(questions)
         /\ unanswered = {} /\ ~failed => results.of = Len(questions)

PagesInv == PagesTypeOK /\ ShownInv

(* An int that is left at one end of its range comes in at the other.      *)
LEMMA AsIntTurns ==
    ASSUME NEW v \in (-2 * Half)..(2 * Half - 1)
    PROVE  \E turns \in -1..1 : Pages!AsInt(v) = v + turns * 2 * Half
<1> DEFINE range == 2 * Half
<1>1. range \in Nat \ {0} /\ range = 2 * Half /\ Half \in Nat /\ v + Half \in Int
  BY CgiAssumption
<1> HIDE DEF range
<1>2. Pages!AsInt(v) = ((v + Half) % range) - Half
  BY DEF range, Pages!AsInt
<1>3. CASE v + Half < 0
  <2>1. -range <= v + Half
    BY <1>1
  <2>2. (v + Half) % range = v + Half + range
    BY <1>1, <1>3, <2>1
  <2>3. Pages!AsInt(v) = v + 1 * 2 * Half
    BY <1>1, <1>2, <2>2
  <2> QED BY <2>3
<1>4. CASE 0 <= v + Half /\ v + Half < range
  <2>1. (v + Half) % range = v + Half
    BY <1>1, <1>4
  <2>2. Pages!AsInt(v) = v + 0 * 2 * Half
    BY <1>1, <1>2, <2>1
  <2> QED BY <2>2
<1>5. CASE range <= v + Half
  <2>1. v + Half < 2 * range
    BY <1>1
  <2>2. (v + Half) % range = v + Half - range
    BY <1>1, <1>5, <2>1
  <2>3. Pages!AsInt(v) = v + (-1) * 2 * Half
    BY <1>1, <1>2, <2>2
  <2> QED BY <2>3
<1> QED BY <1>1, <1>3, <1>4, <1>5

LEMMA PagesInit == Pages!Init => PagesInv
<1> SUFFICES ASSUME Pages!Init PROVE PagesInv
  OBVIOUS
<1>1. questions = <<>> /\ unanswered = {} /\ page = Nothing /\ results.of = 0
  BY DEF Pages!Init, Pages!NoResult
<1>2. Len(questions) = 0 /\ questions \in Seq(Question)
  BY <1>1, EmptySeq
<1> QED BY <1>1, <1>2, CgiAssumption DEF PagesInv, PagesTypeOK, ShownInv, Pages!Pages

LEMMA PagesStep == PagesInv /\ (Pages!Next \/ UNCHANGED cgiVars) => PagesInv'
<1> SUFFICES ASSUME PagesInv, Pages!Next \/ UNCHANGED cgiVars PROVE PagesInv'
  OBVIOUS
<1>1. /\ page \in Pages!Pages \cup {Nothing}
      /\ questions \in Seq(Question) /\ unanswered \subseteq 1..Len(questions)
      /\ results.of \in 0..Len(questions) /\ Len(questions) \in Nat
  BY LenProperties DEF PagesInv, PagesTypeOK
<1>2. CASE UNCHANGED cgiVars
  BY <1>2 DEF cgiVars, PagesInv, PagesTypeOK, ShownInv
<1>3. ASSUME NEW p \in Pages!Pages, Pages!Open(p) PROVE PagesInv'
  <2>1. /\ questions = <<>> /\ results.of = 0 /\ unanswered = {} /\ page' = p
        /\ UNCHANGED <<questions, unanswered, failed, results>>
    BY <1>1, <1>3 DEF Pages!Open, PagesInv, ShownInv
  <2>2. Len(questions) = 0 /\ p # Nothing
    BY <2>1, CgiAssumption
  <2> QED BY <1>1, <2>1, <2>2 DEF PagesInv, PagesTypeOK, ShownInv
<1>4. ASSUME NEW a \in Fields, NEW b \in Fields, NEW op \in {"+", "-"}, Pages!Compute(a, op, b)
      PROVE  PagesInv'
  <2> DEFINE q == [a |-> a, op |-> op, b |-> b]
  <2>1. /\ questions' = Append(questions, q)
        /\ unanswered' = unanswered \cup {Len(questions) + 1}
        /\ UNCHANGED <<page, failed, results>> /\ page # Nothing
        /\ page = "getSyn" => unanswered = {}
    BY <1>4, CgiAssumption DEF Pages!Compute, Pages!Ready, Pages!Pages
  <2>2. q \in Question
    BY DEF Question
  <2> HIDE DEF q
  <2>3. /\ questions' \in Seq(Question) /\ Len(questions') = Len(questions) + 1
        /\ \A k \in 1..Len(questions) : questions'[k] = questions[k]
    BY <1>1, <2>1, <2>2, AppendProperties
  <2>4. results.of # 0 => questions'[results.of] = questions[results.of]
    BY <1>1, <2>3
  <2>5. unanswered' \subseteq 1..Len(questions')
    <3>1. 1..Len(questions') = 1..(Len(questions) + 1)
      BY <2>3
    <3>2. \A k \in 1..Len(questions) : k \in 1..(Len(questions) + 1)
      BY <1>1
    <3>3. Len(questions) + 1 \in 1..(Len(questions) + 1)
      BY <1>1
    <3> QED BY <1>1, <2>1, <3>1, <3>2, <3>3
  <2>6. PagesTypeOK'
    BY <1>1, <2>1, <2>3, <2>5 DEF PagesTypeOK
  <2>7. ShownInv'
    <3>1. results.of # 0 => results'.text \in Pages!Cgi(questions'[results'.of]) /\ page' # "postSyn"
      BY <2>1, <2>4 DEF PagesInv, ShownInv
    <3>2. page' = "getSyn" => unanswered' = {Len(questions')}
      BY <2>1, <2>3
    <3> QED BY <2>1, <3>1, <3>2 DEF ShownInv
  <2> QED BY <2>6, <2>7 DEF PagesInv
<1>5. ASSUME NEW k \in unanswered, Pages!Answer(k) PROVE PagesInv'
  <2>1. /\ page # "postSyn" /\ unanswered' = unanswered \ {k}
        /\ results'.of = k /\ results'.text \in Pages!Cgi(questions[k])
        /\ UNCHANGED <<page, questions, failed>>
    BY <1>5 DEF Pages!Answer
  <2>2. k \in 1..Len(questions) /\ questions # <<>>
    <3>1. k \in 1..Len(questions)
      BY <1>1
    <3>2. questions = <<>> => Len(questions) = 0
      OBVIOUS
    <3> QED BY <3>1, <3>2
  <2>3. page # Nothing /\ (page = "getSyn" => k = Len(questions))
    BY <2>2 DEF PagesInv, ShownInv
  <2>4. PagesTypeOK'
    BY <1>1, <2>1, <2>2 DEF PagesTypeOK
  <2> QED BY <2>1, <2>3, <2>4 DEF PagesInv, ShownInv
<1>6. ASSUME NEW k \in unanswered, Pages!Fail(k) PROVE PagesInv'
  <2>1. /\ unanswered' = unanswered \ {k} /\ failed' = TRUE
        /\ UNCHANGED <<page, questions, results>>
    BY <1>6 DEF Pages!Fail
  <2>2. PagesTypeOK'
    BY <1>1, <2>1 DEF PagesTypeOK
  <2> QED BY <2>1, <2>2 DEF PagesInv, ShownInv
<1> QED BY <1>2, <1>3, <1>4, <1>5, <1>6 DEF Pages!Next

LEMMA PagesRight == PagesInv => Pages!ResultRight
<1> SUFFICES ASSUME PagesInv, results.of # 0
             PROVE  LET q == questions[results.of]
                    IN  /\ results.text # Nothing => q.a.kind = "int"
                        /\ q.a.kind = "int" /\ q.a.number \in Pages!Ints /\ q.b.number \in Pages!Ints =>
                             \E turns \in -1..1 :
                                 results.text = Pages!Value(q.op, q.a.number, q.b.number) + turns * 2 * Half
                        /\ page = "getSyn" /\ unanswered = {} /\ ~failed => results.of = Len(questions)
                        /\ page # "postSyn"
  BY DEF Pages!ResultRight
<1> DEFINE q == questions[results.of]
           value == Pages!Value(q.op, q.a.number, q.b.number)
<1>1. q \in Question /\ results.text \in Pages!Cgi(q)
  <2>1. results.of \in 1..Len(questions)
    BY LenProperties DEF PagesInv, PagesTypeOK
  <2>2. q \in Question
    BY <2>1, ElementOfSeq DEF PagesInv, PagesTypeOK
  <2> QED BY <2>2 DEF PagesInv, ShownInv
<1> HIDE DEF q
<1>2. results.text # Nothing => q.a.kind = "int"
  BY <1>1 DEF Pages!Cgi
<1>3. ASSUME q.a.kind = "int", q.a.number \in Pages!Ints, q.b.number \in Pages!Ints
      PROVE  \E turns \in -1..1 : results.text = value + turns * 2 * Half
  <2>1. q.a.number \in (-Half)..(Half - 1) /\ q.b.number \in (-Half)..(Half - 1) /\ Half \in Nat
    BY <1>3, CgiAssumption DEF Pages!Ints
  <2>2. value \in (-2 * Half)..(2 * Half - 1)
    BY <2>1 DEF Pages!Value
  <2>3. results.text = Pages!AsInt(value)
    BY <1>1, <1>3 DEF Pages!Cgi, Pages!Stored
  <2> HIDE DEF value
  <2> QED BY <2>2, <2>3, AsIntTurns
<1> QED BY <1>2, <1>3 DEF PagesInv, ShownInv, q

-----------------------------------------------------------------------------
(* The log. *)

Options == Formats \cup {{}, Logs!Default}

LogTypeOK ==
    /\ file \in [Logs!Files -> {"null", "open", "freed"}]
    /\ opt \in [Logs!Files -> Options]
    /\ lines \in [Logs!Files -> Seq(Options)]
    /\ halfOpen \in BOOLEAN /\ broken \in BOOLEAN /\ closed \in BOOLEAN
    /\ told \in {"nothing", "failed", "ready"}

(* Unless only one file could be opened, a file that was opened has        *)
(* options; so no line went without.  Whoever is told that the log is      *)
(* ready has both files, and loses them only by closing.                   *)
MarkedInv ==
    /\ ~halfOpen => \/ \A f \in Logs!Files : file[f] = "null"
                    \/ \A f \in Logs!Files : opt[f] # {}
    /\ \A f \in Logs!Files : \A k \in 1..Len(lines[f]) : lines[f][k] = {} => halfOpen
    /\ ~closed => \A f \in Logs!Files : file[f] # "freed"
    /\ told = "ready" /\ ~closed => ~broken /\ \A f \in Logs!Files : file[f] = "open"

LogInv == LogTypeOK /\ MarkedInv

LEMMA LogInit == Logs!Init => LogInv
<1> SUFFICES ASSUME Logs!Init PROVE LogInv
  OBVIOUS
<1>1. LogTypeOK
  <2>1. lines \in [Logs!Files -> Seq(Options)]
    BY EmptySeq DEF Logs!Init
  <2>2. opt \in [Logs!Files -> Options]
    BY DEF Logs!Init, Options
  <2> QED BY <2>1, <2>2 DEF Logs!Init, LogTypeOK
<1>2. MarkedInv
  BY DEF Logs!Init, MarkedInv
<1> QED BY <1>1, <1>2 DEF LogInv

(* Lines that are added have the options in force.                         *)
Logged(to, files, opts) ==
    /\ lines' \in [Logs!Files -> Seq(Options)]
    /\ \A f \in Logs!Files : \A k \in 1..Len(lines'[f]) :
         lines'[f][k] = {} => \/ \E j \in 1..Len(lines[f]) : lines[f][j] = {}
                              \/ files[f] = "open" /\ opts[f] = {}
    /\ broken' \in BOOLEAN
    /\ broken' => \E f \in to : files[f] # "open"

LEMMA LogLines ==
    ASSUME NEW to \in SUBSET Logs!Files, NEW files, NEW opts \in [Logs!Files -> Options],
           lines \in [Logs!Files -> Seq(Options)],
           Logs!Log(to, files, opts)
    PROVE  Logged(to, files, opts)
<1>1. ASSUME NEW f \in Logs!Files
      PROVE  /\ lines'[f] = lines[f] \/ (lines'[f] = Append(lines[f], opts[f]) /\ files[f] = "open")
             /\ Append(lines[f], opts[f]) \in Seq(Options)
             /\ Len(Append(lines[f], opts[f])) = Len(lines[f]) + 1
             /\ \A k \in 1..Len(lines[f]) : Append(lines[f], opts[f])[k] = lines[f][k]
             /\ Append(lines[f], opts[f])[Len(lines[f]) + 1] = opts[f]
             /\ lines[f] \in Seq(Options) /\ Len(lines[f]) \in Nat
  <2>1. lines[f] \in Seq(Options) /\ opts[f] \in Options
    OBVIOUS
  <2> QED BY <2>1, AppendProperties, LenProperties DEF Logs!Log
<1>2. lines' \in [Logs!Files -> Seq(Options)]
  BY <1>1 DEF Logs!Log
<1>3. ASSUME NEW f \in Logs!Files, NEW k \in 1..Len(lines'[f]), lines'[f][k] = {}
      PROVE  (\E j \in 1..Len(lines[f]) : lines[f][j] = {}) \/ (files[f] = "open" /\ opts[f] = {})
  <2>1. CASE lines'[f] = lines[f]
    BY <1>3, <2>1
  <2>2. CASE lines'[f] = Append(lines[f], opts[f]) /\ files[f] = "open"
    <3>1. k \in 1..Len(lines[f]) \/ k = Len(lines[f]) + 1
      BY <1>1, <1>3, <2>2
    <3> QED BY <1>1, <1>3, <2>2, <3>1
  <2> QED BY <1>1, <2>1, <2>2
<1>4. broken' \in BOOLEAN /\ (broken' => \E f \in to : files[f] # "open")
  BY DEF Logs!Log
<1> QED BY <1>2, <1>3, <1>4 DEF Logged

LEMMA LogStep == LogInv /\ (Logs!Next \/ UNCHANGED logVars) => LogInv'
<1> SUFFICES ASSUME LogInv, Logs!Next \/ UNCHANGED logVars PROVE LogInv'
  OBVIOUS
<1>1. LogTypeOK
  BY DEF LogInv
<1>2. CASE UNCHANGED logVars
  BY <1>2 DEF logVars, LogInv, LogTypeOK, MarkedInv
<1>3. ASSUME NEW m \in {"null", "open"}, NEW w \in {"null", "open"},
             NEW msg, NEW wan, ~broken,
             msg = (IF file["msg"] = "null" THEN m ELSE file["msg"]),
             wan = (IF msg # "null" /\ file["wan"] = "null" THEN w ELSE file["wan"]),
             Logs!MsgLogOpen(msg, wan)
      PROVE  LogInv'
  <2> DEFINE files == [f \in Logs!Files |-> IF f = "msg" THEN msg ELSE wan]
  <2>1. /\ file' = files /\ halfOpen' = (halfOpen \/ (msg # "null" /\ wan = "null"))
        /\ IF "null" \in {msg, wan} THEN told' = "failed" /\ UNCHANGED <<opt, lines, broken>>
           ELSE /\ told' = "ready"
                /\ opt' = [f \in Logs!Files |-> Logs!Default] /\ Logs!Log({"msg"}, files, opt')
        /\ UNCHANGED closed
    BY <1>3 DEF Logs!MsgLogOpen
  <2>2. /\ files \in [Logs!Files -> {"null", "open", "freed"}]
        /\ files["msg"] = msg /\ files["wan"] = wan
        /\ Logs!Files = {"msg", "wan"}
    BY <1>1, <1>3 DEF LogTypeOK, Logs!Files
  <2> HIDE DEF files
  <2>3. halfOpen' \in BOOLEAN /\ (halfOpen => halfOpen')
    BY <1>1, <2>1 DEF LogTypeOK
  <2>6. ~closed' => \A f \in Logs!Files : file'[f] # "freed"
    BY <1>3, <2>1, <2>2 DEF LogInv, MarkedInv
  <2>4. CASE "null" \in {msg, wan}
    <3>1. LogTypeOK'
      BY <1>1, <2>1, <2>2, <2>3, <2>4 DEF LogTypeOK
    <3>2. ~halfOpen' => \/ \A f \in Logs!Files : file'[f] = "null"
                        \/ \A f \in Logs!Files : opt'[f] # {}
      BY <1>3, <2>1, <2>2, <2>4 DEF LogInv, MarkedInv
    <3>3. broken' = FALSE
      BY <1>1, <1>3, <2>1, <2>4 DEF LogTypeOK
    <3> QED BY <2>1, <2>3, <2>4, <2>6, <3>1, <3>2, <3>3 DEF LogInv, MarkedInv
  <2>5. CASE "null" \notin {msg, wan}
    <3>1. opt' \in [Logs!Files -> Options] /\ \A f \in Logs!Files : opt'[f] # {}
      BY <2>1, <2>5 DEF Options, Logs!Default
    <3>2. Logs!Log({"msg"}, files, opt')
      BY <2>1, <2>5
    <3>3. Logged({"msg"}, files, opt')
      <4>1. {"msg"} \in SUBSET Logs!Files /\ lines \in [Logs!Files -> Seq(Options)]
        BY <1>1, <2>2 DEF LogTypeOK
      <4>2. opt' \in [Logs!Files -> Options]
        BY <3>1
      <4> QED BY <3>2, <4>1, <4>2, LogLines
    <3>4. LogTypeOK'
      <4>1. file' \in [Logs!Files -> {"null", "open", "freed"}]
        BY <2>1, <2>2
      <4>2. lines' \in [Logs!Files -> Seq(Options)] /\ broken' \in BOOLEAN
        BY <3>3 DEF Logged
      <4>3. closed' \in BOOLEAN /\ told' = "ready"
        BY <1>1, <2>1, <2>5 DEF LogTypeOK
      <4> QED BY <2>3, <3>1, <4>1, <4>2, <4>3 DEF LogTypeOK
    <3>5. \A f \in Logs!Files : \A k \in 1..Len(lines'[f]) : lines'[f][k] = {} => halfOpen'
      BY <2>3, <3>1, <3>3 DEF LogInv, MarkedInv, Logged
    <3>6. ~closed' => ~broken' /\ \A f \in Logs!Files : file'[f] = "open"
      <4>1. ~closed' => files["msg"] = "open" /\ files["wan"] = "open"
        BY <2>1, <2>2, <2>5, <2>6
      <4>2. files["msg"] = "open" => ~broken'
        BY <3>3 DEF Logged
      <4> QED BY <2>1, <2>2, <4>1, <4>2
    <3> QED BY <2>1, <2>6, <3>1, <3>4, <3>5, <3>6 DEF LogInv, MarkedInv
  <2> QED BY <2>4, <2>5
<1>4. CASE Logs!MsgInit
  BY <1>3, <1>4 DEF Logs!MsgInit
<1>5. ASSUME NEW to \in (SUBSET Logs!Files) \ {{}}, Logs!Msglog(to) PROVE LogInv'
  <2>1. Logs!Log(to, file, opt) /\ UNCHANGED <<file, opt, halfOpen, told, closed>>
    BY <1>5 DEF Logs!Msglog
  <2>2. Logged(to, file, opt)
    BY <1>1, <2>1, LogLines DEF LogTypeOK
  <2>3. LogTypeOK'
    BY <1>1, <2>1, <2>2 DEF LogTypeOK, Logged
  <2>4. \A f \in Logs!Files : file[f] = "open" /\ opt[f] = {} => halfOpen
    BY DEF LogInv, MarkedInv
  <2>5. \A f \in Logs!Files : \A k \in 1..Len(lines'[f]) : lines'[f][k] = {} => halfOpen'
    BY <2>1, <2>2, <2>4 DEF LogInv, MarkedInv, Logged
  <2>6. told = "ready" /\ ~closed => ~broken'
    BY <2>2 DEF LogInv, MarkedInv, Logged
  <2> QED BY <2>1, <2>3, <2>5, <2>6 DEF LogInv, MarkedInv
<1>6. ASSUME NEW m \in Formats, NEW w \in Formats, Logs!MsgLogFormat(m, w) PROVE LogInv'
  <2>1. opt' \in [Logs!Files -> Options] /\ \A f \in Logs!Files : opt'[f] # {}
    BY <1>6, LogAssumption DEF Logs!MsgLogFormat, Options
  <2> QED BY <1>1, <1>6, <2>1 DEF Logs!MsgLogFormat, LogInv, LogTypeOK, MarkedInv
<1>7. CASE Logs!MsgLogClose
  <2>1. /\ file' \in [Logs!Files -> {"null", "open", "freed"}]
        /\ \A f \in Logs!Files : file[f] = "null" => file'[f] = "null"
        /\ UNCHANGED <<opt, lines, halfOpen, told, broken>> /\ closed' = TRUE
    BY <1>1, <1>7 DEF Logs!MsgLogClose, LogTypeOK
  <2> QED BY <1>1, <2>1 DEF LogInv, LogTypeOK, MarkedInv
<1> QED BY <1>2, <1>4, <1>5, <1>6, <1>7 DEF Logs!Next

LEMMA LogRight == LogInv => Logs!LinesMarked
<1> SUFFICES ASSUME LogInv PROVE Logs!LinesMarked
  OBVIOUS
<1>1. ASSUME NEW f \in Logs!Files, NEW k \in 1..MaxLines, k <= Len(lines[f]), lines[f][k] = {}
      PROVE  halfOpen
  <2>1. k \in 1..Len(lines[f])
    BY <1>1, LenProperties DEF LogInv, LogTypeOK
  <2> QED BY <1>1, <2>1 DEF LogInv, MarkedInv
<1> QED BY <1>1 DEF Logs!LinesMarked, LogInv, MarkedInv

-----------------------------------------------------------------------------
(* get_line(). *)

(* The first n characters of the line are those of the stream from there   *)
(* on, and none of them is a line end.                                     *)
Copied(l, from, h) ==
    \A j \in 1..h : l[j] = Stream[from + j] /\ Stream[from + j] \notin {Pub!CR, Pub!LF}

LineTypeOK ==
    /\ line \in Seq(Nat) /\ used \in Nat /\ lineStart \in Nat /\ streamed \in Nat
    /\ lineStart <= used /\ used <= streamed /\ streamed <= Len(Stream)
    /\ lineAt \in {"char", "peek", "done"}

Unended(l, from, to) == Len(l) = to - from /\ Copied(l, from, Len(l))

(* One line end, in one of its three forms, stands behind the n characters.*)
Ended(l, from, to) ==
    \E h \in Nat :
        /\ Len(l) = h + 1 /\ l[h + 1] = Pub!LF /\ Copied(l, from, h)
        /\ \/ to = from + h + 1 /\ Stream[from + h + 1] \in {Pub!CR, Pub!LF}
           \/ to = from + h + 2 /\ Stream[from + h + 1] = Pub!CR /\ Stream[to] = Pub!LF

TakenInv ==
    CASE lineAt = "char" -> Len(line) < Size - 1 /\ Unended(line, lineStart, used)
      [] lineAt = "peek" -> /\ Len(line) < Size - 1 /\ used > lineStart /\ Stream[used] = Pub!CR
                            /\ Unended(line, lineStart, used - 1)
      [] lineAt = "done" -> Len(line) < Size /\ (Unended(line, lineStart, used) \/ Ended(line, lineStart, used))

PubInv == LineTypeOK /\ TakenInv

LEMMA PubInit == Pub!Init => PubInv
<1> SUFFICES ASSUME Pub!Init PROVE PubInv
  OBVIOUS
<1>1. line = <<>> /\ used = 0 /\ lineStart = 0 /\ streamed = 0 /\ lineAt = "done"
  BY DEF Pub!Init
<1>2. <<>> \in Seq(Nat) /\ Len(<<>>) = 0 /\ Len(Stream) \in Nat
  BY EmptySeq, PubAssumption, LenProperties
<1> QED BY <1>1, <1>2, PubAssumption DEF PubInv, LineTypeOK, TakenInv, Unended, Copied

LEMMA PubStep == PubInv /\ (Pub!Next \/ UNCHANGED pubVars) => PubInv'
<1> SUFFICES ASSUME PubInv, Pub!Next \/ UNCHANGED pubVars PROVE PubInv'
  OBVIOUS
<1>1. /\ line \in Seq(Nat) /\ used \in Nat /\ lineStart \in Nat /\ streamed \in Nat
      /\ lineStart <= used /\ used <= streamed /\ streamed <= Len(Stream)
      /\ lineAt \in {"char", "peek", "done"}
      /\ Len(line) \in Nat /\ Len(Stream) \in Nat /\ Size \in Nat /\ Size > 1
  BY PubAssumption, LenProperties DEF PubInv, LineTypeOK
<1>2. ASSUME NEW ch \in Nat
      PROVE  /\ Append(line, ch) \in Seq(Nat) /\ Len(Append(line, ch)) = Len(line) + 1
             /\ \A j \in 1..Len(line) : Append(line, ch)[j] = line[j]
             /\ Append(line, ch)[Len(line) + 1] = ch
  BY <1>1, AppendProperties
<1>3. CASE UNCHANGED <<streamed, used, lineAt, line, lineStart>>
  BY <1>3 DEF PubInv, LineTypeOK, TakenInv, Unended, Ended, Copied
<1>4. CASE Pub!Arrive
  <2>1. UNCHANGED <<used, lineAt, line, lineStart>> /\ streamed' \in Nat /\ streamed <= streamed' /\ streamed' <= Len(Stream)
    BY <1>1, <1>4 DEF Pub!Arrive
  <2>2. TakenInv'
    BY <2>1 DEF PubInv, TakenInv, Unended, Ended, Copied
  <2>3. LineTypeOK'
    BY <1>1, <2>1 DEF LineTypeOK
  <2> QED BY <2>2, <2>3 DEF PubInv
<1>5. CASE Pub!GetLine
  <2>1. lineAt' = "char" /\ line' = <<>> /\ lineStart' = used /\ UNCHANGED <<used, streamed>>
    BY <1>5 DEF Pub!GetLine
  <2>2. <<>> \in Seq(Nat) /\ Len(<<>>) = 0
    BY EmptySeq
  <2>3. LineTypeOK'
    BY <1>1, <2>1, <2>2 DEF LineTypeOK
  <2>4. TakenInv'
    BY <1>1, <2>1, <2>2 DEF TakenInv, Unended, Copied
  <2> QED BY <2>3, <2>4 DEF PubInv
<1>6. CASE Pub!RecvChar
  <2> DEFINE ch == Stream[used + 1]
  <2>1. /\ lineAt = "char" /\ used < streamed /\ used' = used + 1 /\ UNCHANGED <<streamed, lineStart>>
        /\ IF ch = Pub!CR THEN lineAt' = "peek" /\ line' = line ELSE Pub!Store(ch)
    BY <1>6 DEF Pub!RecvChar, Pub!More, Pub!Peek
  <2>2. ch \in Nat
    BY <1>1, <2>1, PubAssumption, ElementOfSeq
  <2>3. Len(line) < Size - 1 /\ Len(line) = used - lineStart /\ Copied(line, lineStart, Len(line))
    BY <2>1 DEF PubInv, TakenInv, Unended
  <2>4. used = lineStart + Len(line)
    BY <1>1, <2>3
  <2> HIDE DEF ch
  <2>5. CASE ch = Pub!CR
    <3>1. LineTypeOK'
      BY <1>1, <2>1, <2>5 DEF LineTypeOK
    <3>2. used' - 1 = used /\ used' > lineStart /\ Stream[used'] = Pub!CR
      BY <1>1, <2>1, <2>5 DEF ch
    <3> QED BY <2>1, <2>3, <2>5, <3>1, <3>2 DEF PubInv, TakenInv, Unended
  <2>6. CASE ch # Pub!CR
    <3>1. /\ line' = Append(line, ch)
          /\ lineAt' = IF ch = Pub!LF \/ Len(line') = Size - 1 THEN "done" ELSE "char"
      BY <2>1, <2>6 DEF Pub!Store
    <3>2. /\ line' \in Seq(Nat) /\ Len(line') = Len(line) + 1
          /\ \A j \in 1..Len(line) : line'[j] = line[j]
          /\ line'[Len(line) + 1] = ch
      BY <1>2, <2>2, <3>1
    <3>3. LineTypeOK'
      BY <1>1, <2>1, <3>1, <3>2 DEF LineTypeOK
    <3>4. Copied(line', lineStart, Len(line))
      BY <2>3, <3>2 DEF Copied
    <3>5. ch = Stream[lineStart + Len(line) + 1]
      BY <1>1, <2>4 DEF ch
    <3>6. Len(line') = used' - lineStart' /\ Len(line') < Size /\ used' = lineStart' + Len(line) + 1
      BY <1>1, <2>1, <2>3, <2>4, <3>2
    <3>7. CASE ch = Pub!LF
      <4>1. Ended(line', lineStart', used')
        BY <1>1, <2>1, <3>2, <3>4, <3>5, <3>6, <3>7 DEF Ended
      <4> QED BY <3>1, <3>3, <3>6, <3>7, <4>1 DEF PubInv, TakenInv
    <3>8. CASE ch # Pub!LF
      <4>1. Copied(line', lineStart', Len(line'))
        <5>1. ASSUME NEW j \in 1..Len(line')
              PROVE  line'[j] = Stream[lineStart + j] /\ Stream[lineStart + j] \notin {Pub!CR, Pub!LF}
          <6>1. j \in 1..Len(line) \/ j = Len(line) + 1
            BY <1>1, <3>2
          <6>2. CASE j = Len(line) + 1
            <7>1. lineStart + j = lineStart + Len(line) + 1
              BY <1>1, <6>2
            <7> QED BY <2>6, <3>2, <3>5, <3>8, <6>2, <7>1
          <6> QED BY <3>4, <6>1, <6>2 DEF Copied
        <5> QED BY <2>1, <5>1 DEF Copied
      <4>2. Unended(line', lineStart', used')
        BY <3>6, <4>1 DEF Unended
      <4>3. lineAt' = "char" => Len(line') < Size - 1
        BY <1>1, <2>3, <3>1, <3>2, <3>8
      <4> QED BY <3>1, <3>3, <3>6, <4>2, <4>3 DEF PubInv, TakenInv
    <3> QED BY <3>7, <3>8
  <2> QED BY <2>5, <2>6
<1>7. CASE Pub!RecvEnd
  <2>1. lineAt = "char" /\ lineAt' = "done" /\ UNCHANGED <<streamed, used, line, lineStart>>
    BY <1>7 DEF Pub!RecvEnd
  <2>2. LineTypeOK'
    BY <1>1, <2>1 DEF LineTypeOK
  <2>3. Len(line) < Size /\ Unended(line, lineStart, used)
    BY <1>1, <2>1 DEF PubInv, TakenInv
  <2> QED BY <2>1, <2>2, <2>3 DEF PubInv, TakenInv, Unended
<1>8. CASE Pub!PeekCr
  <2>1. /\ lineAt = "peek" /\ UNCHANGED <<streamed, lineStart>>
        /\ \/ used' = used + 1 /\ used < streamed /\ Stream[used + 1] = Pub!LF
           \/ used' = used
        /\ line' = Append(line, Pub!LF) /\ lineAt' = "done"
    BY <1>8 DEF Pub!PeekCr, Pub!More, Pub!Peek, Pub!Store
  <2>2. /\ Len(line) < Size - 1 /\ used > lineStart /\ Stream[used] = Pub!CR
        /\ Len(line) = used - 1 - lineStart /\ Copied(line, lineStart, Len(line))
    BY <2>1 DEF PubInv, TakenInv, Unended
  <2>3. /\ line' \in Seq(Nat) /\ Len(line') = Len(line) + 1
        /\ \A j \in 1..Len(line) : line'[j] = line[j]
        /\ line'[Len(line) + 1] = Pub!LF
    BY <1>2, <2>1 DEF Pub!LF
  <2>4. LineTypeOK'
    BY <1>1, <2>1, <2>3 DEF LineTypeOK
  <2>5. Copied(line', lineStart, Len(line))
    BY <2>2, <2>3 DEF Copied
  <2>6. used = lineStart + Len(line) + 1 /\ Len(line') < Size
    BY <1>1, <2>2, <2>3
  <2>7. \/ used' = lineStart + Len(line) + 1 /\ Stream[lineStart + Len(line) + 1] = Pub!CR
        \/ used' = lineStart + Len(line) + 2 /\ Stream[lineStart + Len(line) + 1] = Pub!CR /\ Stream[used'] = Pub!LF
    BY <1>1, <2>1, <2>2, <2>6
  <2>8. Ended(line', lineStart', used')
    BY <1>1, <2>1, <2>3, <2>5, <2>7 DEF Ended
  <2> QED BY <2>1, <2>4, <2>6, <2>8 DEF PubInv, TakenInv
<1> QED BY <1>3, <1>4, <1>5, <1>6, <1>7, <1>8 DEF Pub!Next, pubVars, Pub!List, Pub!Follow

LEMMA PubRight == PubInv => Pub!LineWhole
<1> DEFINE part == SubSeq(Stream, lineStart + 1, used)
           ends == {k \in DOMAIN part : part[k] \in {Pub!CR, Pub!LF}}
           body == IF ends = {} THEN part ELSE SubSeq(part, 1, Pub!Min(ends) - 1)
<1> SUFFICES ASSUME PubInv, lineAt = "done"
             PROVE  /\ line = body \o (IF ends = {} THEN <<>> ELSE <<Pub!LF>>)
                    /\ ends # {} => SubSeq(part, Pub!Min(ends), Len(part))
                                      \in {<<Pub!CR>>, <<Pub!LF>>, <<Pub!CR, Pub!LF>>}
                    /\ Len(line) < Size
  BY DEF Pub!LineWhole
<1>1. /\ line \in Seq(Nat) /\ used \in Nat /\ lineStart \in Nat /\ lineStart <= used /\ used <= Len(Stream)
      /\ Len(Stream) \in Nat /\ Len(line) \in Nat /\ Stream \in Seq(Nat)
  BY PubAssumption, LenProperties DEF PubInv, LineTypeOK
<1>2. /\ part \in Seq(Nat) /\ Len(part) = used - lineStart /\ DOMAIN part = 1..(used - lineStart)
      /\ \A k \in 1..(used - lineStart) : part[k] = Stream[lineStart + k]
  <2>1. \A k \in (lineStart + 1)..used : Stream[k] \in Nat
    BY <1>1, ElementOfSeq
  <2>2. /\ part \in Seq(Nat) /\ Len(part) = IF lineStart + 1 <= used THEN used - (lineStart + 1) + 1 ELSE 0
        /\ \A k \in 1..(used - (lineStart + 1) + 1) : part[k] = Stream[lineStart + 1 + k - 1]
    BY <1>1, <2>1, SubSeqProperties
  <2> HIDE DEF part
  <2>3. Len(part) = used - lineStart
    <3>1. \A a, b \in Nat : a <= b => (IF a + 1 <= b THEN b - (a + 1) + 1 ELSE 0) = b - a
      OBVIOUS
    <3>2. lineStart \in Nat /\ used \in Nat /\ lineStart <= used
      BY <1>1
    <3>3. Len(part) = IF lineStart + 1 <= used THEN used - (lineStart + 1) + 1 ELSE 0
      BY <2>2
    <3> QED BY <3>1, <3>2, <3>3, Zenon
  <2>4. \A k \in 1..(used - lineStart) : part[k] = Stream[lineStart + k]
    <3>1. \A k \in 1..(used - lineStart) : k \in 1..(used - (lineStart + 1) + 1) /\ lineStart + 1 + k - 1 = lineStart + k
      BY <1>1
    <3> QED BY <2>2, <3>1
  <2> QED BY <2>2, <2>3, <2>4, LenProperties
<1> HIDE DEF part
<1>3. Len(line) < Size /\ (Unended(line, lineStart, used) \/ Ended(line, lineStart, used))
  BY DEF PubInv, TakenInv
<1>4. CASE Unended(line, lineStart, used)
  <2>1. ends = {}
    BY <1>1, <1>2, <1>4 DEF Unended, Copied
  <2>2. line = part
    <3>1. \A k \in 1..Len(line) : line[k] = part[k]
      BY <1>1, <1>2, <1>4 DEF Unended, Copied
    <3> QED BY <1>1, <1>2, <1>4, <3>1, SeqEqual DEF Unended
  <2>3. part \o <<>> = part
    BY <1>2, ConcatEmptySeq
  <2> HIDE DEF ends
  <2> QED BY <1>3, <2>1, <2>2, <2>3
<1>5. CASE Ended(line, lineStart, used)
  <2>1. PICK h \in Nat :
          /\ Len(line) = h + 1 /\ line[h + 1] = Pub!LF /\ Copied(line, lineStart, h)
          /\ \/ used = lineStart + h + 1 /\ Stream[lineStart + h + 1] \in {Pub!CR, Pub!LF}
             \/ used = lineStart + h + 2 /\ Stream[lineStart + h + 1] = Pub!CR /\ Stream[used] = Pub!LF
    BY <1>5 DEF Ended
  <2>2. used - lineStart \in {h + 1, h + 2} /\ h + 1 \in 1..(used - lineStart)
    <3>1. used = lineStart + h + 1 \/ used = lineStart + h + 2
      BY <2>1
    <3>2. used \in Nat /\ lineStart \in Nat /\ h \in Nat
      BY <1>1
    <3> QED BY <3>1, <3>2
  <2>3. part[h + 1] = Stream[lineStart + h + 1]
    <3>1. lineStart + (h + 1) = lineStart + h + 1
      BY <1>1
    <3> QED BY <1>2, <2>2, <3>1
  <2>4. h + 1 \in ends
    BY <1>2, <2>1, <2>2, <2>3
  <2>5. \A k \in ends : h + 1 <= k
    <3>1. ASSUME NEW k \in ends, k <= h PROVE FALSE
      <4>1. k \in 1..(used - lineStart) /\ part[k] \in {Pub!CR, Pub!LF} /\ k \in 1..h
        BY <1>1, <1>2, <3>1
      <4>2. part[k] = Stream[lineStart + k] /\ Stream[lineStart + k] \notin {Pub!CR, Pub!LF}
        BY <1>2, <2>1, <4>1 DEF Copied
      <4> QED BY <4>1, <4>2
    <3>2. \A k \in ends : k \in Int
      BY <1>1, <1>2
    <3> QED BY <3>1, <3>2
  <2>6. \A k \in ends : k \in Nat
    BY <1>2
  <2> HIDE DEF ends
  <2>7. Pub!Min(ends) = h + 1
    BY <2>4, <2>5, <2>6 DEF Pub!Min
  <2>8. SubSeq(part, 1, h) \in Seq(Nat) /\ Len(SubSeq(part, 1, h)) = h
        /\ \A k \in 1..h : SubSeq(part, 1, h)[k] = part[k]
    <3>1. \A k \in 1..h : part[k] \in Nat
      BY <1>2, <2>2, ElementOfSeq
    <3>2. /\ SubSeq(part, 1, h) \in Seq(Nat) /\ Len(SubSeq(part, 1, h)) = IF 1 <= h THEN h - 1 + 1 ELSE 0
          /\ \A k \in 1..(h - 1 + 1) : SubSeq(part, 1, h)[k] = part[1 + k - 1]
      BY <3>1, SubSeqProperties
    <3>3. h - 1 + 1 = h /\ \A k \in 1..h : 1 + k - 1 = k
      OBVIOUS
    <3> QED BY <3>2, <3>3
  <2>9. line = SubSeq(part, 1, h) \o <<Pub!LF>>
    <3> DEFINE b == SubSeq(part, 1, h)
    <3>1. b \in Seq(Nat) /\ Len(b) = h /\ \A k \in 1..h : b[k] = part[k]
      BY <2>8
    <3> HIDE DEF b
    <3>2. /\ Append(b, Pub!LF) \in Seq(Nat) /\ Len(Append(b, Pub!LF)) = h + 1
          /\ \A k \in 1..h : Append(b, Pub!LF)[k] = b[k]
          /\ Append(b, Pub!LF)[h + 1] = Pub!LF
      BY <3>1, AppendProperties DEF Pub!LF
    <3>3. \A k \in 1..h : line[k] = b[k]
      BY <1>2, <2>1, <2>2, <3>1 DEF Copied
    <3>4. \A k \in 1..(h + 1) : line[k] = Append(b, Pub!LF)[k]
      BY <2>1, <3>2, <3>3
    <3>5. line = Append(b, Pub!LF)
      BY <1>1, <2>1, <3>2, <3>4, SeqEqual
    <3>6. Append(b, Pub!LF) = b \o <<Pub!LF>>
      BY <3>1, AppendIsConcat DEF Pub!LF
    <3> QED BY <3>5, <3>6 DEF b
  <2>10. SubSeq(part, h + 1, Len(part)) \in {<<Pub!CR>>, <<Pub!LF>>, <<Pub!CR, Pub!LF>>}
    <3> DEFINE t == SubSeq(part, h + 1, Len(part))
    <3>a. Len(part) \in Nat /\ Len(part) \in {h + 1, h + 2}
      BY <1>1, <1>2, <2>2
    <3>b. \A k \in 1..Len(part) : part[k] \in Nat
      BY <1>2, ElementOfSeq
    <3>1. Len(part) \in Nat /\ Len(part) \in {h + 1, h + 2} /\ \A k \in 1..Len(part) : part[k] \in Nat
      BY <3>a, <3>b
    <3>2. \A k \in (h + 1)..Len(part) : part[k] \in Nat
      BY <3>1
    <3>3. /\ t \in Seq(Nat) /\ Len(t) = IF h + 1 <= Len(part) THEN Len(part) - (h + 1) + 1 ELSE 0
          /\ \A k \in 1..(Len(part) - (h + 1) + 1) : t[k] = part[h + 1 + k - 1]
      <4>1. \A a, b \in Int : (\A x \in a..b : part[x] \in Nat) =>
              /\ SubSeq(part, a, b) \in Seq(Nat)
              /\ Len(SubSeq(part, a, b)) = IF a <= b THEN b - a + 1 ELSE 0
              /\ \A k \in 1..(b - a + 1) : SubSeq(part, a, b)[k] = part[a + k - 1]
        <5> TAKE a, b \in Int
        <5> QED BY SubSeqProperties
      <4>2. h + 1 \in Int /\ Len(part) \in Int
        BY <3>1
      <4> QED BY <3>2, <4>1, <4>2, Zenon
    <3> HIDE DEF t
    <3>4. t[1] = part[h + 1]
      <4>1. 1 \in 1..(Len(part) - (h + 1) + 1) /\ h + 1 + 1 - 1 = h + 1
        BY <3>1
      <4> QED BY <3>3, <4>1
    <3>5. CASE used = lineStart + h + 1 /\ Stream[lineStart + h + 1] \in {Pub!CR, Pub!LF}
      <4>1. Len(part) = h + 1
        BY <1>1, <1>2, <3>5
      <4>2. Len(t) = 1
        BY <3>3, <4>1
      <4>3. t = <<t[1]>>
        BY <3>3, <4>2
      <4> QED BY <2>3, <3>4, <3>5, <4>3 DEF t
    <3>6. CASE used = lineStart + h + 2 /\ Stream[lineStart + h + 1] = Pub!CR /\ Stream[used] = Pub!LF
      <4>1. Len(part) = h + 2 /\ h + 2 \in 1..(used - lineStart) /\ lineStart + (h + 2) = used
        BY <1>1, <1>2, <3>6
      <4>2. Len(t) = 2
        BY <3>3, <4>1
      <4>3. t[2] = part[h + 2]
        <5>1. 2 \in 1..(Len(part) - (h + 1) + 1) /\ h + 1 + 2 - 1 = h + 2
          BY <3>1, <4>1
        <5> QED BY <3>3, <5>1
      <4>4. part[h + 2] = Pub!LF
        BY <1>2, <3>6, <4>1
      <4>5. t = <<t[1], t[2]>>
        BY <3>3, <4>2
      <4> QED BY <2>3, <3>4, <3>6, <4>3, <4>4, <4>5 DEF t
    <3> QED BY <2>1, <3>5, <3>6
  <2>11. ends # {} /\ Pub!Min(ends) - 1 = h
    BY <2>4, <2>7
  <2>12. body = SubSeq(part, 1, h)
    BY <2>11
  <2> HIDE DEF body
  <2> QED BY <1>3, <2>7, <2>9, <2>10, <2>11, <2>12
<1> QED BY <1>3, <1>4, <1>5

-----------------------------------------------------------------------------
(* The read and write functions of wrap.c. *)

Readers == Calls!Readers
Writers == Calls!Writers
Bytes(from, k) == Calls!Bytes(from, k)

WrapTypeOK ==
    /\ fn \in Readers \cup Writers \cup {"none"} /\ calls \in Nat /\ busy \in BOOLEAN /\ ret \in Int
    /\ buf \in Seq(Nat) /\ given \in Seq(Nat) /\ readBuf \in Seq(Nat) /\ written \in Seq(Nat)
    /\ nleft \in 0..Want
    /\ arrived \in Nat /\ got \in Nat /\ got <= arrived

(* A call that failed was the last one; what is in one function's hands    *)
(* was put there by it.                                                    *)
CallInv ==
    /\ fn = "none" <=> calls = 0
    /\ busy => fn # "none" /\ ret # -1
    /\ fn = "none" => ret = 0 /\ written = <<>>
    /\ fn \notin Readers => given = <<>> /\ got = 0
    /\ fn \notin Writers => written = <<>>
    /\ fn # "Readline" => readBuf = <<>>
    /\ fn = "Read" => buf = <<>>

(* What was handed over, the call at hand has, and read_buf holds.         *)
Held == (given \o (IF busy THEN buf ELSE <<>>)) \o readBuf

HeldInv == ret # -1 /\ fn \in Readers => Held = Bytes(0, got)

EndInv == fn = "Readn" /\ ~busy /\ ret \in 0..(Want - 1) /\ calls > 0 => arrived - got = 0 /\ peer = "fin"

WrittenInv ==
    /\ written = Bytes(0, Len(written))
    /\ fn = "Writen" /\ busy => Len(written) = Want - nleft + (calls - 1) * Want
    /\ fn = "Writen" /\ ~busy => ret \in {Want, -1} /\ (ret = Want => Len(written) = calls * Want)

StopInv == fn = "Readline" /\ busy => \A j \in 1..Len(buf) : buf[j] \notin LineEnds

WrapInv == WrapTypeOK /\ CallInv /\ HeldInv /\ EndInv /\ WrittenInv /\ StopInv

LEMMA BytesSeq ==
    ASSUME NEW from \in Nat, NEW k \in Nat
    PROVE  /\ Bytes(from, k) \in Seq(Nat) /\ Len(Bytes(from, k)) = k
           /\ \A j \in 1..k : Bytes(from, k)[j] = from + j
<1>1. Bytes(from, k) \in [1..k -> Nat] /\ \A j \in 1..k : Bytes(from, k)[j] = from + j
  BY DEF Bytes, Calls!Bytes
<1>2. Bytes(from, k) \in Seq(Nat)
  BY <1>1, SeqDef
<1>3. Len(Bytes(from, k)) = k
  BY <1>1, <1>2, LenProperties
<1> QED BY <1>1, <1>2, <1>3

(* Bytes that follow one another are as good as read at once.              *)
LEMMA BytesOn ==
    ASSUME NEW a \in Nat, NEW k \in Nat
    PROVE  Bytes(0, a) \o Bytes(a, k) = Bytes(0, a + k)
<1> DEFINE s == Bytes(0, a)
           t == Bytes(a, k)
           u == Bytes(0, a + k)
<1>1. /\ s \in Seq(Nat) /\ Len(s) = a /\ \A j \in 1..a : s[j] = 0 + j
      /\ t \in Seq(Nat) /\ Len(t) = k /\ \A j \in 1..k : t[j] = a + j
      /\ u \in Seq(Nat) /\ Len(u) = a + k /\ \A j \in 1..(a + k) : u[j] = 0 + j
  <2>1. 0 \in Nat /\ a + k \in Nat
    OBVIOUS
  <2>2. s \in Seq(Nat) /\ Len(s) = a /\ \A j \in 1..a : s[j] = 0 + j
    BY <2>1, BytesSeq
  <2>3. t \in Seq(Nat) /\ Len(t) = k /\ \A j \in 1..k : t[j] = a + j
    BY BytesSeq
  <2>4. u \in Seq(Nat) /\ Len(u) = a + k /\ \A j \in 1..(a + k) : u[j] = 0 + j
    BY <2>1, BytesSeq
  <2> QED BY <2>2, <2>3, <2>4
<1> HIDE DEF s, t, u
<1>2. /\ s \o t \in Seq(Nat) /\ Len(s \o t) = a + k
      /\ \A j \in 1..(a + k) : (s \o t)[j] = IF j <= a THEN s[j] ELSE t[j - a]
  BY <1>1, ConcatProperties, SMTT(40)
<1>3. \A j \in 1..(a + k) : (s \o t)[j] = u[j]
  BY <1>1, <1>2
<1>4. s \o t = u
  BY <1>1, <1>2, <1>3, SeqEqual
<1> QED BY <1>4 DEF s, t, u

LEMMA WrapInit == Calls!Init => WrapInv
<1> SUFFICES ASSUME Calls!Init PROVE WrapInv
  OBVIOUS
<1>1. Bytes(0, 0) = <<>> /\ Len(<<>>) = 0 /\ <<>> \in Seq(Nat) /\ <<>> \o <<>> = <<>>
  BY EmptySeq, ConcatEmptySeq DEF Bytes, Calls!Bytes
<1>2. WrapTypeOK
  <2>1. /\ fn = "none" /\ calls = 0 /\ busy = FALSE /\ ret = 0 /\ nleft = 0 /\ arrived = 0 /\ got = 0
        /\ buf = <<>> /\ given = <<>> /\ readBuf = <<>> /\ written = <<>>
    BY DEF Calls!Init
  <2>2. 0 \in 0..Want
    BY WrapAssumption
  <2>3. buf \in Seq(Nat) /\ given \in Seq(Nat) /\ readBuf \in Seq(Nat) /\ written \in Seq(Nat)
    BY <1>1, <2>1
  <2>4. calls \in Nat /\ ret \in Int /\ nleft \in 0..Want /\ arrived \in Nat /\ got \in Nat /\ got <= arrived
    BY <2>1, <2>2
  <2>5. fn \in Readers \cup Writers \cup {"none"}
    BY <2>1
  <2>6. busy \in BOOLEAN
    BY <2>1
  <2> QED BY <2>3, <2>4, <2>5, <2>6 DEF WrapTypeOK
<1>3. CallInv /\ EndInv /\ StopInv
  BY DEF Calls!Init, CallInv, EndInv, StopInv, Readers, Writers, Calls!Readers, Calls!Writers
<1>4. HeldInv /\ WrittenInv
  BY <1>1 DEF Calls!Init, HeldInv, Held, WrittenInv, Readers, Calls!Readers
<1> QED BY <1>2, <1>3, <1>4 DEF WrapInv

(* The peer, and signals. *)
LEMMA WrapOutside ==
    ASSUME WrapInv, Calls!Arrive \/ Calls!PeerEnds \/ Calls!Again \/ UNCHANGED wrapVars
    PROVE  WrapInv'
<1>1. /\ UNCHANGED <<fn, calls, busy, buf, nleft, ret, given, readBuf, got, written>>
      /\ arrived' = arrived \/ arrived' = arrived + 1
      /\ peer # "there" => UNCHANGED <<arrived, peer>>
  BY DEF Calls!Arrive, Calls!PeerEnds, Calls!Again, wrapVars, Calls!stream
<1>2. WrapTypeOK'
  BY <1>1 DEF WrapInv, WrapTypeOK
<1>3. CallInv' /\ HeldInv' /\ WrittenInv' /\ StopInv'
  BY <1>1 DEF WrapInv, CallInv, HeldInv, Held, WrittenInv, StopInv
<1>4. EndInv'
  BY <1>1 DEF WrapInv, EndInv
<1> QED BY <1>2, <1>3, <1>4 DEF WrapInv

LEMMA WrapCall == ASSUME WrapInv, NEW f \in Readers \cup Writers, Calls!Call(f) PROVE WrapInv'
<1> USE WrapAssumption
<1>1. /\ WrapTypeOK /\ ~busy /\ (calls > 0 => ret > 0) /\ fn \in {"none", f}
      /\ fn' = f /\ calls' = calls + 1 /\ busy' = TRUE /\ buf' = <<>> /\ nleft' = Want
      /\ UNCHANGED <<ret, given, readBuf, arrived, peer, got, written>>
  BY DEF WrapInv, Calls!Call, Calls!stream
<1>2. <<>> \in Seq(Nat) /\ Len(<<>>) = 0
  BY EmptySeq
<1>3. WrapTypeOK'
  BY <1>1, <1>2 DEF WrapTypeOK
<1>4. calls \in Nat /\ (calls = 0 <=> fn = "none") /\ (fn = "none" => ret = 0) /\ ret # -1
  BY <1>1 DEF WrapInv, WrapTypeOK, CallInv
<1>5. CallInv'
  BY <1>1, <1>4 DEF WrapInv, CallInv, Readers, Writers, Calls!Readers, Calls!Writers
<1>6. HeldInv'
  <2>1. Held' = Held
    BY <1>1 DEF Held
  <2>2. fn = "none" => Held = Bytes(0, got)
    <3>1. Bytes(0, 0) = <<>> /\ <<>> \o <<>> = <<>>
      BY ConcatEmptySeq, <1>2 DEF Bytes, Calls!Bytes
    <3> QED BY <1>1, <3>1 DEF WrapInv, CallInv, Held, Readers, Calls!Readers
  <2> QED BY <1>1, <1>4, <2>1, <2>2 DEF WrapInv, HeldInv
<1>7. EndInv' /\ StopInv'
  BY <1>1, <1>2 DEF EndInv, StopInv
<1>8. WrittenInv'
  <2>1. f = "Writen" => Len(written) = calls * Want
    <3>1. CASE fn = "none"
      <4>1. Len(written) = 0 /\ calls = 0
        BY <1>2, <1>4, <3>1 DEF WrapInv, CallInv
      <4> QED BY <4>1
    <3>2. CASE fn = f
      BY <1>1, <1>4, <3>2 DEF WrapInv, WrittenInv, Writers, Calls!Writers
    <3> QED BY <1>1, <3>1, <3>2
  <2>3. f = "Writen" => Len(written') = Want - nleft' + (calls' - 1) * Want
    <3>1. calls' - 1 = calls /\ Want - nleft' = 0 /\ calls * Want \in Nat
      BY <1>1, <1>4
    <3> QED BY <1>1, <2>1, <3>1
  <2>4. written' = Bytes(0, Len(written'))
    BY <1>1 DEF WrapInv, WrittenInv
  <2> QED BY <1>1, <2>3, <2>4 DEF WrittenInv
<1> QED BY <1>3, <1>5, <1>6, <1>7, <1>8 DEF WrapInv

(* What a reading function does is right if nothing is lost or invented.   *)
LEMMA WrapReader ==
    ASSUME WrapInv, busy, fn \in Readers, UNCHANGED <<fn, calls, nleft, arrived, peer, written>>,
           busy' \in BOOLEAN, ret' \in Int,
           buf' \in Seq(Nat), given' \in Seq(Nat), readBuf' \in Seq(Nat), got' \in Nat, got' <= arrived,
           busy' => ret' = ret,
           fn # "Readline" => readBuf' = <<>>,
           fn = "Read" => buf' = <<>>,
           ret' # -1 => Held' = Bytes(0, got'),
           fn = "Readn" /\ ~busy' /\ ret' \in 0..(Want - 1) => arrived - got' = 0 /\ peer = "fin",
           fn = "Readline" /\ busy' => \A j \in 1..Len(buf') : buf'[j] \notin LineEnds
    PROVE  WrapInv'
<1>1. fn \notin Writers /\ fn # "none" /\ fn # "Writen"
  BY DEF Readers, Writers, Calls!Readers, Calls!Writers
<1>2. WrapTypeOK'
  BY DEF WrapInv, WrapTypeOK
<1>3. CallInv'
  BY <1>1 DEF WrapInv, CallInv
<1>4. HeldInv' /\ EndInv' /\ StopInv'
  BY DEF HeldInv, EndInv, StopInv
<1>5. WrittenInv'
  BY <1>1 DEF WrapInv, WrittenInv
<1> QED BY <1>2, <1>3, <1>4, <1>5 DEF WrapInv

LEMMA Empties == \A s \in Seq(Nat) : s \o <<>> = s /\ <<>> \o s = s
BY ConcatEmptySeq

LEMMA Joined == \A s, t \in Seq(Nat) : s \o t \in Seq(Nat)
BY ConcatProperties

(* An equation the provers instantiate by name.                            *)
AnyWay(s, t, u) == (s \o t) \o u = s \o (t \o u)

LEMMA Regrouped == \A s, t, u \in Seq(Nat) : AnyWay(s, t, u)
<1> TAKE s, t, u \in Seq(Nat)
<1>1. (s \o t) \o u = s \o (t \o u)
  BY ConcatAssociative, SMTT(40)
<1> QED BY <1>1, Zenon DEF AnyWay

(* While a reading function is under way.                                  *)
LEMMA HeldBusy ==
    ASSUME WrapInv, busy, fn \in Readers
    PROVE  /\ buf \in Seq(Nat) /\ given \in Seq(Nat) /\ readBuf \in Seq(Nat)
           /\ got \in Nat /\ arrived \in Nat /\ got <= arrived /\ ret \in Int /\ ret # -1
           /\ Len(buf) \in Nat
           /\ fn # "Readline" => readBuf = <<>>
           /\ fn = "Read" => buf = <<>>
           /\ given \o buf \in Seq(Nat)
           /\ (given \o buf) \o readBuf = Bytes(0, got)
<1>1. /\ buf \in Seq(Nat) /\ given \in Seq(Nat) /\ readBuf \in Seq(Nat)
      /\ got \in Nat /\ arrived \in Nat /\ got <= arrived /\ ret \in Int
  BY DEF WrapInv, WrapTypeOK
<1>2. ret # -1 /\ (fn # "Readline" => readBuf = <<>>) /\ (fn = "Read" => buf = <<>>)
  BY DEF WrapInv, CallInv
<1>3. (given \o buf) \o readBuf = Bytes(0, got)
  BY <1>2 DEF WrapInv, HeldInv, Held
<1> QED BY <1>1, <1>2, <1>3, ConcatProperties, LenProperties

LEMMA WrapRead == ASSUME WrapInv, Calls!Read PROVE WrapInv'
<1> USE WrapAssumption
<1>1. /\ busy /\ fn = "Read" /\ fn \in Readers
      /\ UNCHANGED <<fn, calls, buf, nleft, readBuf, arrived, peer, written>>
  BY DEF Calls!Read, Calls!In, Calls!stream, Readers, Calls!Readers
<1>2. /\ buf = <<>> /\ readBuf = <<>> /\ given \in Seq(Nat)
      /\ got \in Nat /\ arrived \in Nat /\ got <= arrived /\ given = Bytes(0, got)
  BY <1>1, HeldBusy, Empties
<1> DEFINE Right == /\ busy' = FALSE /\ ret' \in Int /\ given' \in Seq(Nat)
                    /\ got' \in Nat /\ got' <= arrived
                    /\ ret' # -1 => given' = Bytes(0, got')
<1>3. Right
  <2>1. ASSUME NEW k \in 1..Want, Calls!Got(k), Calls!Return(k, Calls!Bytes(got, k))
        PROVE  Right
    <3>1. busy' = FALSE /\ ret' = k /\ given' = given \o Bytes(got, k) /\ got' = got + k /\ got + k <= arrived
      BY <1>2, <2>1 DEF Calls!Got, Calls!Return, Calls!Pending, Bytes
    <3>2. k \in Nat
      OBVIOUS
    <3>3. given \o Bytes(got, k) = Bytes(0, got + k)
      BY <1>2, <3>2, BytesOn
    <3>4. Bytes(0, got + k) \in Seq(Nat) /\ got + k \in Nat
      BY <1>2, <3>2, BytesSeq
    <3> QED BY <3>1, <3>2, <3>3, <3>4
  <2>2. ASSUME NEW r \in {0, -1}, Calls!Return(r, <<>>), got' = got
        PROVE  Right
    BY <1>2, <2>2, Empties DEF Calls!Return
  <2>3. \/ \E k \in 1..Want : Calls!Got(k) /\ Calls!Return(k, Calls!Bytes(got, k))
        \/ \E r \in {0, -1} : Calls!Return(r, <<>>) /\ got' = got
    BY DEF Calls!Read
  <2> HIDE DEF Right
  <2> QED BY <2>1, <2>2, <2>3
<1>4. Held' = given'
  BY <1>1, <1>2, <1>3, Empties DEF Held
<1>5. buf' \in Seq(Nat) /\ readBuf' \in Seq(Nat)
  BY <1>1, HeldBusy
<1> QED BY <1>1, <1>2, <1>3, <1>4, <1>5, WrapReader

LEMMA WrapReadn == ASSUME WrapInv, Calls!ReadnPart \/ Calls!ReadnReturns PROVE WrapInv'
<1> USE WrapAssumption
<1>1. /\ busy /\ fn = "Readn" /\ fn \in Readers
      /\ UNCHANGED <<fn, calls, nleft, readBuf, arrived, peer, written>>
  BY DEF Calls!ReadnPart, Calls!ReadnReturns, Calls!In, Calls!stream, Readers, Calls!Readers
<1>2. /\ buf \in Seq(Nat) /\ given \in Seq(Nat) /\ readBuf = <<>> /\ readBuf \in Seq(Nat)
      /\ got \in Nat /\ arrived \in Nat /\ got <= arrived /\ ret \in Int /\ Len(buf) \in Nat
      /\ given \o buf \in Seq(Nat) /\ given \o buf = Bytes(0, got)
  BY <1>1, HeldBusy, Empties
<1>3. CASE Calls!ReadnPart
  <2>1. PICK k \in 1..(Want - Len(buf)) : Calls!Got(k) /\ buf' = buf \o Calls!Bytes(got, k)
    BY <1>3 DEF Calls!ReadnPart
  <2>2. k \in Nat
    OBVIOUS
  <2> DEFINE more == Bytes(got, k)
  <2>3. /\ UNCHANGED <<busy, ret, given>> /\ got' = got + k /\ got + k <= arrived
        /\ buf' = buf \o more
    <3>1. UNCHANGED <<busy, ret, given>>
      BY <1>3 DEF Calls!ReadnPart
    <3>2. got' = got + k /\ k <= arrived - got
      BY <2>1 DEF Calls!Got, Calls!Pending
    <3>3. buf' = buf \o more
      BY <2>1 DEF Bytes
    <3> QED BY <1>2, <2>2, <3>1, <3>2, <3>3
  <2>4. more \in Seq(Nat) /\ got + k \in Nat /\ Bytes(0, got) \o more = Bytes(0, got + k)
    <3>1. got \in Nat
      BY <1>2
    <3>2. more \in Seq(Nat)
      BY <2>2, <3>1, BytesSeq
    <3>3. Bytes(0, got) \o more = Bytes(0, got + k)
      BY <2>2, <3>1, BytesOn
    <3>4. got + k \in Nat
      BY <2>2, <3>1
    <3> QED BY <3>2, <3>3, <3>4
  <2> HIDE DEF more
  <2>5. buf \o more \in Seq(Nat) /\ given \o (buf \o more) = Bytes(0, got + k) /\ given \o (buf \o more) \in Seq(Nat)
    <3>1. buf \o more \in Seq(Nat)
      BY <1>2, <2>4, Joined
    <3>2. given \o (buf \o more) = (given \o buf) \o more
      <4>1. AnyWay(given, buf, more)
        BY <1>2, <2>4, Regrouped, Zenon
      <4> QED BY <4>1, Zenon DEF AnyWay
    <3>3. given \o (buf \o more) \in Seq(Nat)
      BY <1>2, <3>1, Joined
    <3> QED BY <1>2, <2>4, <3>1, <3>2, <3>3
  <2>6. Held' = Bytes(0, got')
    BY <1>1, <1>2, <2>3, <2>5, Empties DEF Held
  <2>7. busy' \in BOOLEAN
    BY <2>3 DEF WrapInv, WrapTypeOK
  <2> QED BY <1>1, <1>2, <2>3, <2>4, <2>5, <2>6, <2>7, WrapReader
<1>4. CASE Calls!ReadnReturns
  <2>1. /\ UNCHANGED <<buf, got>> /\ busy' = FALSE
        /\ \/ (Len(buf) = Want \/ (arrived - got = 0 /\ peer = "fin")) /\ ret' = Len(buf) /\ given' = given \o buf
           \/ ret' = -1 /\ given' = given \o <<>>
    BY <1>4 DEF Calls!ReadnReturns, Calls!Return, Calls!Eof, Calls!Pending
  <2>2. ret' \in Int /\ given' \in Seq(Nat)
    <3>1. given \o <<>> = given
      BY <1>2, Empties
    <3>2. given' \in Seq(Nat)
      BY <1>2, <2>1, <3>1
    <3>3. ret' \in Int
      BY <1>2, <2>1
    <3> QED BY <3>2, <3>3
  <2>3. ret' # -1 => Held' = Bytes(0, got')
    BY <1>1, <1>2, <2>1, Empties DEF Held
  <2>4. ret' \in 0..(Want - 1) => arrived - got' = 0 /\ peer = "fin"
    BY <1>2, <2>1
  <2> QED BY <1>1, <1>2, <2>1, <2>2, <2>3, <2>4, WrapReader
<1> QED BY <1>3, <1>4

LEMMA WrapReadline == ASSUME WrapInv, Calls!Refill \/ Calls!LinePart \/ Calls!LineEnd PROVE WrapInv'
<1> USE WrapAssumption
<1>1. /\ busy /\ fn = "Readline" /\ fn \in Readers
      /\ UNCHANGED <<fn, calls, nleft, arrived, peer, written>>
  BY DEF Calls!Refill, Calls!LinePart, Calls!LineEnd, Calls!In, Calls!stream, Readers, Calls!Readers
<1>2. /\ buf \in Seq(Nat) /\ given \in Seq(Nat) /\ readBuf \in Seq(Nat)
      /\ got \in Nat /\ arrived \in Nat /\ got <= arrived /\ ret \in Int /\ Len(buf) \in Nat
      /\ given \o buf \in Seq(Nat) /\ (given \o buf) \o readBuf = Bytes(0, got)
  BY <1>1, HeldBusy
<1>3. \A j \in 1..Len(buf) : buf[j] \notin LineEnds
  BY <1>1 DEF WrapInv, StopInv
<1>4. CASE Calls!Refill
  <2>1. PICK k \in 1..ReadBuf : Calls!Got(k) /\ readBuf' = Calls!Bytes(got, k)
    BY <1>4 DEF Calls!Refill
  <2>2. k \in Nat
    OBVIOUS
  <2>3. /\ UNCHANGED <<busy, buf, ret, given>> /\ got' = got + k /\ got + k <= arrived
        /\ readBuf = <<>> /\ readBuf' = Bytes(got, k)
    BY <1>2, <1>4, <2>1 DEF Calls!Refill, Calls!Got, Calls!Pending, Bytes
  <2>4. Bytes(got, k) \in Seq(Nat) /\ got + k \in Nat /\ Bytes(0, got) \o Bytes(got, k) = Bytes(0, got + k)
    <3>1. got \in Nat
      BY <1>2
    <3>2. Bytes(got, k) \in Seq(Nat)
      BY <2>2, <3>1, BytesSeq
    <3>3. Bytes(0, got) \o Bytes(got, k) = Bytes(0, got + k)
      BY <2>2, <3>1, BytesOn
    <3>4. got + k \in Nat
      BY <2>2, <3>1
    <3> QED BY <3>2, <3>3, <3>4
  <2>5. given \o buf = Bytes(0, got)
    BY <1>2, <2>3, Empties
  <2>6. Held' = Bytes(0, got')
    BY <1>1, <2>3, <2>4, <2>5 DEF Held
  <2>7. busy' \in BOOLEAN
    BY <2>3 DEF WrapInv, WrapTypeOK
  <2> QED BY <1>1, <1>2, <1>3, <2>3, <2>4, <2>6, <2>7, WrapReader
<1>5. CASE Calls!LinePart
  <2> DEFINE h == Head(readBuf)
             b == Append(buf, h)
             rest == Tail(readBuf)
  <2>1. /\ readBuf # <<>> /\ readBuf' = rest /\ got' = got
        /\ \/ busy' = FALSE /\ ret' \in {Len(b), Want} /\ given' = given \o b /\ buf' = buf
           \/ h \notin LineEnds /\ buf' = b /\ UNCHANGED <<busy, ret, given>>
    BY <1>5 DEF Calls!LinePart, Calls!Return
  <2>2. h \in Nat /\ rest \in Seq(Nat) /\ readBuf = <<h>> \o rest
    <3>1. h \in Nat /\ rest \in Seq(Nat) /\ Len(rest) = Len(readBuf) - 1
          /\ \A j \in 1..Len(rest) : rest[j] = readBuf[j + 1]
      BY <1>2, <2>1, HeadTailProperties
    <3>2. h = readBuf[1] /\ Len(readBuf) \in Nat /\ Len(rest) \in Nat
      BY <1>2, <3>1, LenProperties
    <3> HIDE DEF h, rest
    <3>3. /\ <<h>> \in Seq(Nat) /\ Len(<<h>>) = 1 /\ <<h>>[1] = h
          /\ <<h>> \o rest \in Seq(Nat) /\ Len(<<h>> \o rest) = 1 + Len(rest)
          /\ \A j \in 1..(1 + Len(rest)) : (<<h>> \o rest)[j] = IF j <= 1 THEN <<h>>[j] ELSE rest[j - 1]
      <4>1. <<h>> \in Seq(Nat) /\ Len(<<h>>) = 1 /\ <<h>>[1] = h
        BY <3>1
      <4> QED BY <3>1, <4>1, ConcatProperties
    <3>4. \A j \in 1..Len(readBuf) : (<<h>> \o rest)[j] = readBuf[j]
      <4>1. ASSUME NEW j \in 1..Len(readBuf) PROVE (<<h>> \o rest)[j] = readBuf[j]
        <5>1. CASE j = 1
          BY <3>1, <3>2, <3>3, <5>1
        <5>2. CASE j > 1
          <6>1. j - 1 \in 1..Len(rest) /\ j - 1 + 1 = j /\ j \in 1..(1 + Len(rest)) /\ ~(j <= 1)
            BY <3>1, <3>2, <5>2
          <6> QED BY <3>1, <3>3, <6>1
        <5>3. j = 1 \/ j > 1
          OBVIOUS
        <5> QED BY <5>1, <5>2, <5>3
      <4> QED BY <4>1
    <3>5. Len(<<h>> \o rest) = Len(readBuf)
      BY <3>1, <3>2, <3>3
    <3>6. readBuf = <<h>> \o rest
      BY <1>2, <3>3, <3>4, <3>5, SeqEqual
    <3> QED BY <3>1, <3>6
  <2> HIDE DEF h, rest
  <2>3. /\ b \in Seq(Nat) /\ Len(b) = Len(buf) + 1 /\ b = buf \o <<h>>
        /\ \A j \in 1..Len(buf) : b[j] = buf[j]
        /\ b[Len(buf) + 1] = h
    BY <1>2, <2>2, AppendProperties, AppendIsConcat
  <2> HIDE DEF b
  <2>4. (given \o b) \o rest = Bytes(0, got) /\ given \o b \in Seq(Nat)
    <3> DEFINE one == <<h>>
    <3>1. one \in Seq(Nat)
      BY <2>2
    <3>2. b = buf \o one /\ readBuf = one \o rest
      BY <2>2, <2>3
    <3> HIDE DEF one
    <3>3. given \o (buf \o one) = (given \o buf) \o one
      <4>1. AnyWay(given, buf, one)
        BY <1>2, <3>1, Regrouped, Zenon
      <4> QED BY <4>1, Zenon DEF AnyWay
    <3>4. ((given \o buf) \o one) \o rest = (given \o buf) \o (one \o rest)
      <4>1. AnyWay(given \o buf, one, rest)
        BY <1>2, <2>2, <3>1, Regrouped, Zenon
      <4> QED BY <4>1, Zenon DEF AnyWay
    <3>5. given \o b \in Seq(Nat)
      BY <1>2, <2>3, Joined
    <3> QED BY <1>2, <3>2, <3>3, <3>4, <3>5
  <2>5. CASE busy' = FALSE /\ ret' \in {Len(b), Want} /\ given' = given \o b /\ buf' = buf
    <3>1. Held' = Bytes(0, got')
      BY <2>1, <2>4, <2>5, Empties DEF Held
    <3>2. ret' \in Int
      BY <1>2, <2>3, <2>5
    <3> QED BY <1>1, <1>2, <2>1, <2>2, <2>4, <2>5, <3>1, <3>2, WrapReader
  <2>6. CASE h \notin LineEnds /\ buf' = b /\ UNCHANGED <<busy, ret, given>>
    <3>1. Held' = Bytes(0, got')
      BY <1>1, <2>1, <2>4, <2>6 DEF Held
    <3>2. \A j \in 1..Len(buf') : buf'[j] \notin LineEnds
      <4>1. ASSUME NEW j \in 1..Len(b) PROVE b[j] \notin LineEnds
        <5>1. j \in 1..Len(buf) \/ j = Len(buf) + 1
          BY <1>2, <2>3
        <5> QED BY <1>3, <2>3, <2>6, <5>1
      <4> QED BY <2>6, <4>1
    <3>3. busy' \in BOOLEAN
      BY <2>6 DEF WrapInv, WrapTypeOK
    <3> QED BY <1>1, <1>2, <2>1, <2>2, <2>3, <2>6, <3>1, <3>2, <3>3, WrapReader
  <2> QED BY <2>1, <2>5, <2>6
<1>6. CASE Calls!LineEnd
  <2>1. /\ UNCHANGED <<buf, readBuf, got>> /\ busy' = FALSE /\ readBuf = <<>>
        /\ \/ ret' = Len(buf) /\ given' = given \o buf
           \/ ret' = -1 /\ given' = given \o <<>>
    BY <1>6 DEF Calls!LineEnd, Calls!Return
  <2>2. ret' \in Int /\ given' \in Seq(Nat)
    <3>1. given \o <<>> = given
      BY <1>2, Empties
    <3>2. given' \in Seq(Nat)
      BY <1>2, <2>1, <3>1
    <3>3. ret' \in Int
      BY <1>2, <2>1
    <3> QED BY <3>2, <3>3
  <2>3. ret' # -1 => Held' = Bytes(0, got')
    BY <1>1, <1>2, <2>1, Empties DEF Held
  <2> QED BY <1>1, <1>2, <2>1, <2>2, <2>3, WrapReader
<1> QED BY <1>4, <1>5, <1>6

LEMMA WrapWriter ==
    ASSUME WrapInv, Calls!Write \/ Calls!WritenPart \/ Calls!WritenReturns
    PROVE  WrapInv'
<1> USE WrapAssumption
<1>1. /\ busy /\ fn \in {"Write", "Writen"} /\ fn \notin Readers /\ fn \in Writers
      /\ UNCHANGED <<fn, calls, buf, readBuf, got, arrived, peer>>
  BY DEF Calls!Write, Calls!WritenPart, Calls!WritenReturns, Calls!In, Calls!stream,
         Readers, Calls!Readers, Writers, Calls!Writers
<1>2. /\ WrapTypeOK /\ given = <<>> /\ <<>> \o <<>> = <<>> /\ calls \in Nat /\ Len(written) \in Nat
      /\ written \in Seq(Nat) /\ nleft \in 0..Want /\ calls * Want \in Nat
      /\ written = Bytes(0, Len(written))
  <2>1. given = <<>> /\ WrapTypeOK /\ written = Bytes(0, Len(written))
    BY <1>1 DEF WrapInv, CallInv, WrittenInv
  <2>2. <<>> \o <<>> = <<>>
    BY Empties, EmptySeq
  <2>3. calls \in Nat /\ Len(written) \in Nat /\ written \in Seq(Nat) /\ nleft \in 0..Want
    BY <2>1, LenProperties DEF WrapTypeOK
  <2>4. calls * Want \in Nat
    BY <2>3
  <2> QED BY <2>1, <2>2, <2>3, <2>4
<1>3. ASSUME NEW k \in Nat
      PROVE  /\ written \o Bytes(Len(written), k) = Bytes(0, Len(written) + k)
             /\ Bytes(0, Len(written) + k) \in Seq(Nat) /\ Len(Bytes(0, Len(written) + k)) = Len(written) + k
  <2>1. Len(written) + k \in Nat
    BY <1>2
  <2>2. Bytes(0, Len(written)) \o Bytes(Len(written), k) = Bytes(0, Len(written) + k)
    BY <1>2, BytesOn
  <2> QED BY <1>2, <2>1, <2>2, BytesSeq
<1>4. ASSUME busy' \in BOOLEAN, busy' => ret' = ret, ret' \in Int, given' = <<>>, written' \in Seq(Nat),
             nleft' \in 0..Want, WrittenInv'
      PROVE  WrapInv'
  <2>1. WrapTypeOK'
    BY <1>1, <1>2, <1>4, EmptySeq DEF WrapTypeOK
  <2>2. fn # "none" /\ fn # "Readn" /\ fn # "Readline"
    BY <1>1
  <2>3. CallInv'
    BY <1>1, <1>4, <2>2 DEF WrapInv, CallInv
  <2>4. HeldInv' /\ EndInv' /\ StopInv'
    BY <1>1, <2>2 DEF HeldInv, EndInv, StopInv
  <2> QED BY <1>4, <2>1, <2>3, <2>4 DEF WrapInv
<1>5. CASE Calls!Write
  <2>1. /\ busy' = FALSE /\ ret' \in Int /\ given' = <<>> /\ nleft' = nleft /\ fn = "Write"
        /\ \/ \E k \in 1..Want : written' = written \o Bytes(Len(written), k)
           \/ written' = written
    BY <1>2, <1>5 DEF Calls!Write, Calls!In, Calls!Return, Bytes
  <2>2. written' \in Seq(Nat) /\ written' = Bytes(0, Len(written'))
    <3>1. ASSUME NEW k \in 1..Want, written' = written \o Bytes(Len(written), k)
          PROVE  written' \in Seq(Nat) /\ written' = Bytes(0, Len(written'))
      <4>1. k \in Nat
        OBVIOUS
      <4> QED BY <1>3, <3>1, <4>1
    <3> QED BY <1>2, <2>1, <3>1
  <2>3. WrittenInv'
    BY <1>1, <2>1, <2>2 DEF WrittenInv
  <2> QED BY <1>2, <1>4, <2>1, <2>2, <2>3
<1>6. CASE Calls!WritenPart
  <2>1. PICK k \in 1..nleft : written' = written \o Calls!Bytes(Calls!Ahead, k) /\ nleft' = nleft - k
    BY <1>6 DEF Calls!WritenPart
  <2>2. k \in Nat /\ nleft' \in 0..Want
    BY <1>2, <2>1
  <2>3. fn = "Writen" /\ UNCHANGED <<busy, ret, given>>
    BY <1>6 DEF Calls!WritenPart, Calls!In
  <2>4. Calls!Ahead = Len(written)
    BY <1>1, <2>3 DEF Calls!Ahead, WrapInv, WrittenInv
  <2>5. written' \in Seq(Nat) /\ written' = Bytes(0, Len(written')) /\ Len(written') = Len(written) + k
    BY <1>3, <2>1, <2>2, <2>4 DEF Bytes
  <2>6. Len(written) = Want - nleft + (calls - 1) * Want
    BY <1>1, <2>3 DEF WrapInv, WrittenInv
  <2>7. Len(written') = Want - nleft' + (calls' - 1) * Want
    <3>1. (calls - 1) * Want \in Int
      BY <1>2
    <3> DEFINE before == (calls - 1) * Want
    <3>2. before \in Int /\ Len(written) = Want - nleft + before
      BY <2>6, <3>1
    <3> HIDE DEF before
    <3>3. Len(written') = Want - nleft' + before
      BY <1>2, <2>1, <2>2, <2>5, <3>2
    <3> QED BY <1>1, <3>3 DEF before
  <2>8. WrittenInv'
    BY <1>1, <2>3, <2>5, <2>7 DEF WrittenInv
  <2>9. busy' \in BOOLEAN /\ ret' \in Int
    BY <1>2, <2>3 DEF WrapTypeOK
  <2> QED BY <1>2, <1>4, <2>2, <2>3, <2>5, <2>8, <2>9
<1>7. CASE Calls!WritenReturns
  <2>1. /\ busy' = FALSE /\ given' = <<>> /\ fn = "Writen" /\ UNCHANGED <<nleft, written>>
        /\ (nleft = 0 /\ ret' = Want) \/ ret' = -1
    BY <1>2, <1>7 DEF Calls!WritenReturns, Calls!In, Calls!Return
  <2>2. nleft = 0 => Len(written) = calls * Want
    <3>1. Len(written) = Want - nleft + (calls - 1) * Want
      BY <1>1, <2>1 DEF WrapInv, WrittenInv
    <3>2. Want - 0 + (calls - 1) * Want = calls * Want
      BY <1>2
    <3> QED BY <3>1, <3>2
  <2>3. ret' \in {Want, -1} /\ ret' \in Int
    BY <2>1
  <2>4. ret' = Want => nleft = 0
    BY <2>1
  <2>5. WrittenInv'
    BY <1>1, <1>2, <2>1, <2>2, <2>3, <2>4 DEF WrittenInv
  <2> QED BY <1>2, <1>4, <2>1, <2>3, <2>5
<1> QED BY <1>5, <1>6, <1>7

LEMMA WrapStep == WrapInv /\ (Calls!Next \/ UNCHANGED wrapVars) => WrapInv'
BY WrapOutside, WrapCall, WrapRead, WrapReadn, WrapReadline, WrapWriter DEF Calls!Next, Readers, Writers

LEMMA WrapRight == WrapInv => Calls!Exact
<1> SUFFICES ASSUME WrapInv PROVE Calls!Exact
  OBVIOUS
<1>1. ret # -1 /\ fn \in Calls!Readers =>
        (given \o (IF busy THEN buf ELSE <<>>)) \o readBuf = Calls!Bytes(0, got)
  BY DEF WrapInv, HeldInv, Held, Readers, Bytes
<1>2. fn = "Readn" /\ ~busy /\ ret \in 0..(Want - 1) /\ calls > 0 => Calls!Eof
  BY DEF WrapInv, EndInv, Calls!Eof, Calls!Pending
<1>3. /\ written = Calls!Bytes(0, Len(written))
      /\ fn = "Writen" /\ ~busy /\ ret = Want => Len(written) = calls * Want
  BY DEF WrapInv, WrittenInv, Bytes
<1>4. fn = "Readline" => \A j \in 1..(Len(buf) - 1) : busy => buf[j] \notin LineEnds
  <2>1. \A j \in 1..(Len(buf) - 1) : j \in 1..Len(buf)
    BY LenProperties DEF WrapInv, WrapTypeOK
  <2> QED BY <2>1 DEF WrapInv, StopInv
<1> QED BY <1>1, <1>2, <1>3, <1>4 DEF Calls!Exact

-----------------------------------------------------------------------------
(* The client of the UDP chat prints whole questions, the two of the local *)
(* chat never wait for one another but after an empty line, the calculator *)
(* shows right answers, the read and write functions and get_line() give   *)
(* their callers the stream, and log lines are marked.                     *)
THEOREM AnswersAreRight == MCSpec => []AnswersRight
<1> DEFINE Inv == UdpInv /\ ChatInv /\ PagesInv /\ WrapInv /\ PubInv /\ LogInv
<1>1. MCInit => Inv
  BY UdpInit, ChatInit, PagesInit, WrapInit, PubInit, LogInit DEF MCInit
<1>2. Inv /\ [MCNext]_allVars => Inv'
  <2> SUFFICES ASSUME Inv, [MCNext]_allVars PROVE Inv'
    OBVIOUS
  <2>1. UdpInv' /\ ChatInv'
    BY Apart, UdpStep, ChatStep
  <2>2. PagesInv' /\ WrapInv'
    BY Apart, PagesStep, WrapStep
  <2>3. PubInv' /\ LogInv'
    BY Apart, PubStep, LogStep
  <2> QED BY <2>1, <2>2, <2>3
<1>3. Inv => AnswersRight
  BY UdpRight, ChatRight, PagesRight, WrapRight, PubRight, LogRight DEF AnswersRight
<1> QED BY <1>1, <1>2, <1>3, PTL DEF MCSpec

-----------------------------------------------------------------------------
(* The two echo servers that share the sockets: first what a call does,    *)
(* then the programs that make the calls.                                  *)

(* A descriptor stands for an open connection, and for one of its own.     *)
OwnInv ==
    /\ \A f \in OpenFds : phase[fdtab[f]] = "open"
    /\ \A f, g \in OpenFds : fdtab[f] = fdtab[g] => f = g

ConnsInv == SockTypeOK /\ out \in [Conns -> Nat] /\ OwnInv

(* A step of StreamService, or one that changes nothing it shows. *)
Promised == [Abstract!Next]_Abstract!vars

(* What was waiting in these descriptors still is. *)
StillReadable(S) == \A f \in S : Readable(fdtab[f]) => Readable(fdtab[f])'

LEMMA OpenConns == ConnsInv => \A f \in OpenFds : f \in Fds /\ f \in Nat /\ fdtab[f] \in Conns
BY SocketsAssumption DEF ConnsInv, SockTypeOK, OpenFds

LEMMA NoCall ==
    ASSUME ConnsInv, UNCHANGED echoVars
    PROVE  ConnsInv' /\ OpenFds' = OpenFds /\ StillReadable(OpenFds)
BY DEF ConnsInv, SockTypeOK, OwnInv, OpenFds, StillReadable, Readable, Avail, echoVars, sockVars

LEMMA NoCallPromised ==
    ASSUME UNCHANGED echoVars, pc = "dead" => pc' = "dead" PROVE Promised
<1>1. UNCHANGED <<phase, sent, taken, end>>
  BY DEF echoVars, sockVars
<1>2. CASE pc = "dead" \/ pc' # "dead"
  BY <1>1, <1>2 DEF Promised, Abstract!vars
<1>3. CASE pc # "dead" /\ pc' = "dead"
  BY <1>1, <1>3 DEF Promised, Abstract!Next, Abstract!Die
<1> QED BY <1>2, <1>3

LEMMA ClientCall ==
    ASSUME ConnsInv, NEW c \in Conns, ClientActs(c) \/ Consume(c)
    PROVE  ConnsInv' /\ OpenFds' = OpenFds /\ StillReadable(OpenFds)
<1> USE DEF ConnsInv
<1>1. UNCHANGED fdtab /\ OpenFds' = OpenFds
  BY DEF ClientActs, Consume, Connect, Deliver, Fin, Abort, sockVars, OpenFds
<1>2. SockTypeOK'
  BY DEF ClientActs, Consume, Connect, Deliver, Fin, Abort, sockVars, SockTypeOK, Phases, Ends, Alive
<1>3. out' \in [Conns -> Nat]
  BY DEF ClientActs, Consume
<1>4. \A d \in Conns : phase[d] = "open" => phase'[d] = "open"
  BY DEF ClientActs, Consume, Connect, Deliver, Fin, Abort, sockVars, SockTypeOK
<1>5. \A d \in Conns : Readable(d) => Readable(d)'
  BY DEF ClientActs, Consume, Connect, Deliver, Fin, Abort, sockVars, SockTypeOK, Readable, Avail
<1>6. OwnInv'
  BY <1>1, <1>4, OpenConns DEF OwnInv
<1>7. StillReadable(OpenFds)
  BY <1>1, <1>5, OpenConns DEF StillReadable, Readable, Avail
<1> QED BY <1>1, <1>2, <1>3, <1>6, <1>7

LEMMA ClientPromised ==
    ASSUME ConnsInv, NEW c \in Conns, ClientActs(c) \/ Consume(c), UNCHANGED pc
    PROVE  Promised
<1> USE DEF Promised, Abstract!vars
<1>1. CASE Connect(c)
  BY <1>1 DEF Connect, Abstract!Connect, Abstract!Next
<1>2. CASE sent[c] < MaxSent[c] /\ Deliver(c, 1)
  BY <1>2 DEF Deliver, Alive, Abstract!Send, Abstract!Next
<1>3. CASE Fin(c)
  BY <1>3 DEF Fin, Alive, Abstract!End, Abstract!Next
<1>4. CASE Abort(c)
  BY <1>4 DEF Abort, Alive, Abstract!End, Abstract!Next, ConnsInv, SockTypeOK
<1>5. CASE Consume(c)
  BY <1>5 DEF Consume, sockVars
<1> QED BY <1>1, <1>2, <1>3, <1>4, <1>5 DEF ClientActs

LEMMA AcceptCall ==
    ASSUME ConnsInv, NEW c \in Conns, NEW f \in Fds, AcceptConn(c, f), UNCHANGED out
    PROVE  ConnsInv' /\ OpenFds' = OpenFds \cup {f} /\ f \notin OpenFds /\ StillReadable(OpenFds)
<1> USE DEF ConnsInv
<1>1. /\ phase' = [phase EXCEPT ![c] = "open"] /\ fdtab' = [fdtab EXCEPT ![f] = c]
      /\ phase[c] = "queued" /\ f \notin OpenFds /\ UNCHANGED <<sent, taken, end>>
  BY DEF AcceptConn, Lowest, Free, Queued
<1>2. SockTypeOK'
  BY <1>1 DEF SockTypeOK, Phases
<1>3. /\ OpenFds' = OpenFds \cup {f}
      /\ fdtab'[f] = c /\ \A g \in OpenFds : fdtab'[g] = fdtab[g]
  BY <1>1, SocketsAssumption DEF OpenFds, SockTypeOK
<1>4. \A g \in OpenFds : phase[fdtab[g]] = "open" /\ fdtab[g] # c
  BY <1>1 DEF OwnInv
<1>5. \A g \in OpenFds' : phase'[fdtab'[g]] = "open"
  BY <1>1, <1>3, <1>4, OpenConns DEF SockTypeOK
<1>6. \A g, h \in OpenFds' : fdtab'[g] = fdtab'[h] => g = h
  BY <1>3, <1>4 DEF OwnInv
<1>7. StillReadable(OpenFds)
  BY <1>1, <1>3 DEF StillReadable, Readable, Avail
<1> QED BY <1>1, <1>2, <1>3, <1>5, <1>6, <1>7 DEF OwnInv

LEMMA AcceptPromised ==
    ASSUME NEW c \in Conns, NEW f \in Fds, AcceptConn(c, f), pc # "dead", pc' # "dead"
    PROVE  Promised
<1>1. Abstract!Accept(c)
  BY DEF AcceptConn, Queued, Abstract!Accept
<1> QED BY <1>1 DEF Abstract!Next, Promised

LEMMA ReadCall ==
    ASSUME ConnsInv, NEW f \in OpenFds, HasData(fdtab[f]), UNCHANGED out,
           TakeData(fdtab[f], ReadSize(fdtab[f], BufSize))
    PROVE  ConnsInv' /\ OpenFds' = OpenFds /\ StillReadable(OpenFds \ {f})
<1> USE DEF ConnsInv
<1> DEFINE c == fdtab[f]
<1>1. c \in Conns
  BY OpenConns
<1>2. ReadSize(c, BufSize) \in Nat
  BY <1>1, SelectAssumption DEF ReadSize, HasData, Avail, SockTypeOK
<1>3. /\ taken' = [taken EXCEPT ![c] = @ + ReadSize(c, BufSize)]
      /\ UNCHANGED <<phase, sent, end, fdtab>>
  BY DEF TakeData
<1>4. SockTypeOK'
  BY <1>1, <1>2, <1>3 DEF SockTypeOK
<1>5. OpenFds' = OpenFds /\ OwnInv'
  BY <1>3 DEF OwnInv, OpenFds
<1>6. \A g \in OpenFds \ {f} : fdtab[g] \in Conns \ {c}
  BY OpenConns DEF OwnInv
<1>7. StillReadable(OpenFds \ {f})
  BY <1>3, <1>6 DEF StillReadable, Readable, Avail, SockTypeOK
<1> QED BY <1>4, <1>5, <1>7

LEMMA ReadPromised ==
    ASSUME ConnsInv, NEW f \in OpenFds, HasData(fdtab[f]),
           TakeData(fdtab[f], ReadSize(fdtab[f], BufSize)), pc # "dead", pc' # "dead"
    PROVE  Promised
<1> DEFINE c == fdtab[f]
<1>1. c \in Conns /\ phase[c] = "open"
  BY OpenConns DEF ConnsInv, OwnInv
<1>2. ReadSize(c, BufSize) \in 1..(sent[c] - taken[c])
  BY <1>1, SelectAssumption DEF HasData, ReadSize, Avail, ConnsInv, SockTypeOK
<1>3. Abstract!Take(c)
  BY <1>1, <1>2 DEF TakeData, Abstract!Take
<1> QED BY <1>1, <1>3 DEF Abstract!Serve, Abstract!Next, Promised

LEMMA CloseCall ==
    ASSUME ConnsInv, NEW f \in OpenFds, CloseFd(f), UNCHANGED out
    PROVE  ConnsInv' /\ OpenFds' = OpenFds \ {f} /\ StillReadable(OpenFds')
<1> USE DEF ConnsInv
<1> DEFINE c == fdtab[f]
<1>1. /\ phase' = [phase EXCEPT ![c] = "closed"] /\ fdtab' = [fdtab EXCEPT ![f] = NoConn]
      /\ UNCHANGED <<sent, taken, end>>
  BY DEF CloseFd
<1>2. f \in Fds /\ c \in Conns
  BY OpenConns
<1>3. SockTypeOK'
  BY <1>1, <1>2 DEF SockTypeOK, Phases
<1>4. OpenFds' = OpenFds \ {f} /\ \A g \in OpenFds' : fdtab'[g] = fdtab[g]
  BY <1>1, <1>2 DEF OpenFds, SockTypeOK
<1>5. \A g \in OpenFds' : fdtab[g] # c
  BY <1>4 DEF OwnInv
<1>6. OwnInv'
  BY <1>1, <1>4, <1>5, OpenConns DEF OwnInv, SockTypeOK
<1>7. StillReadable(OpenFds')
  BY <1>1, <1>4 DEF StillReadable, Readable, Avail
<1> QED BY <1>3, <1>4, <1>6, <1>7

LEMMA ClosePromised ==
    ASSUME ConnsInv, NEW f \in OpenFds, AtEof(fdtab[f]) \/ HasError(fdtab[f]), CloseFd(f),
           pc # "dead", pc' # "dead"
    PROVE  Promised
<1> DEFINE c == fdtab[f]
<1>1. c \in Conns /\ phase[c] = "open"
  BY OpenConns DEF ConnsInv, OwnInv
<1>2. taken[c] = sent[c] /\ end[c] # "none"
  BY <1>1 DEF AtEof, HasError, Avail, ConnsInv, SockTypeOK
<1>3. Abstract!Close(c)
  BY <1>1, <1>2 DEF CloseFd, Abstract!Close
<1> QED BY <1>1, <1>3 DEF Abstract!Serve, Abstract!Next, Promised

(* Write(), or a Read() that hands out an error. *)
Told(c) == end[c] = "rst" /\ TakeError(c) /\ UNCHANGED out

LEMMA WriteCall ==
    ASSUME ConnsInv, NEW f \in OpenFds, WriteOk(fdtab[f]) \/ Told(fdtab[f])
    PROVE  ConnsInv' /\ OpenFds' = OpenFds /\ StillReadable(OpenFds)
<1> USE DEF ConnsInv
<1>1. fdtab[f] \in Conns
  BY OpenConns
<1>2. /\ UNCHANGED <<phase, sent, taken, fdtab>>
      /\ end' \in [Conns -> Ends] /\ out' \in [Conns -> Nat]
      /\ \A d \in Conns : end[d] # "none" => end'[d] # "none"
  BY <1>1 DEF WriteOk, Told, TakeError, SockTypeOK, Ends, sockVars
<1>3. SockTypeOK' /\ OpenFds' = OpenFds /\ OwnInv'
  BY <1>2 DEF SockTypeOK, OpenFds, OwnInv
<1>4. StillReadable(OpenFds)
  BY <1>2, OpenConns DEF StillReadable, Readable, Avail
<1> QED BY <1>2, <1>3, <1>4

LEMMA WritePromised ==
    ASSUME ConnsInv, NEW f \in OpenFds, WriteOk(fdtab[f]) \/ Told(fdtab[f]), pc # "dead", pc' # "dead"
    PROVE  Promised
<1>1. fdtab[f] \in Conns /\ phase[fdtab[f]] = "open"
  BY OpenConns DEF ConnsInv, OwnInv
<1>2. CASE WriteOk(fdtab[f])
  BY <1>2 DEF WriteOk, sockVars, Promised, Abstract!vars
<1>3. CASE Told(fdtab[f])
  <2>1. Abstract!Learn(fdtab[f])
    BY <1>1, <1>3 DEF Told, TakeError, Abstract!Learn, ConnsInv, SockTypeOK
  <2> QED BY <1>1, <2>1 DEF Promised, Abstract!Next
<1> QED BY <1>2, <1>3

(* selectFunTeacher.c: it watches its open connections; what the scan has  *)
(* still ahead of it is open and has something to read.                    *)
Ahead == IF pc = "accept" THEN rset
         ELSE {f \in rset : f > i \/ (pc = "scan" /\ f = i)}

ScanTypeOK ==
    /\ pc \in {"wait", "accept", "scan", "write", "dead"}
    /\ rset \subseteq Fds /\ i \in Nat

ScanInv ==
    /\ oldset = OpenFds
    /\ pc \in {"accept", "scan", "write"} => \A f \in Ahead : f \in OpenFds /\ Readable(fdtab[f])
    /\ pc = "write" => i \in OpenFds

SelectInv == program = "select" => ScanTypeOK /\ ScanInv

LEMMA Passed ==
    ASSUME ScanTypeOK, pc \in {"scan", "write"}, rset' = rset, i' = i + 1, pc' \in {"scan", "write", "wait"}
    PROVE  Ahead' \subseteq Ahead \ (IF pc = "scan" THEN {i} ELSE {})
<1> SUFFICES ASSUME NEW f \in Ahead' PROVE f \in Ahead /\ f # i
  OBVIOUS
<1>1. f \in rset /\ f \in Nat /\ f >= i + 1
  BY SocketsAssumption DEF Ahead, ScanTypeOK
<1> QED BY <1>1 DEF Ahead, ScanTypeOK

(* The scan moves on past a descriptor it has dealt with. *)
LEMMA ScanOn ==
    ASSUME ScanTypeOK, ScanInv, pc \in {"scan", "write"}, rset' = rset, i' = i + 1, pc' = "scan",
           oldset' = OpenFds', NEW S, Ahead \ (IF pc = "scan" THEN {i} ELSE {}) \subseteq S,
           S \subseteq OpenFds', StillReadable(S)
    PROVE  (ScanTypeOK /\ ScanInv)'
<1>1. Ahead' \subseteq S
  BY Passed
<1>2. \A f \in Ahead' : f \in Ahead /\ f \in S /\ f \in OpenFds'
  BY <1>1, Passed
<1>3. \A f \in Ahead : Readable(fdtab[f])
  BY DEF ScanInv
<1>4. \A f \in S : Readable(fdtab[f]) => Readable(fdtab[f])'
  BY DEF StillReadable
<1>5. \A f \in Ahead' : Readable(fdtab[f])'
  BY <1>2, <1>3, <1>4
<1>6. ScanInv'
  BY <1>2, <1>5 DEF ScanInv
<1> QED BY <1>6 DEF ScanTypeOK

LEMMA SelectStays ==
    ASSUME ConnsInv, ScanTypeOK, ScanInv,
           ConnsInv' /\ OpenFds' = OpenFds /\ StillReadable(OpenFds), UNCHANGED scanVars
    PROVE  (ScanTypeOK /\ ScanInv)'
<1>1. UNCHANGED <<pc, oldset, rset, i>> /\ Ahead' = Ahead
  BY DEF scanVars, Ahead
<1>2. \A f \in Ahead : Readable(fdtab[f]) => pc \notin {"accept", "scan", "write"} \/ Readable(fdtab[f])'
  BY DEF StillReadable, ScanInv
<1> QED BY <1>1, <1>2 DEF ScanTypeOK, ScanInv

LEMMA SelectNext ==
    ASSUME ConnsInv, ScanTypeOK, ScanInv, Next
    PROVE  ConnsInv' /\ (ScanTypeOK /\ ScanInv)' /\ Promised
<1>n. UNCHANGED echoVars => ConnsInv' /\ OpenFds' = OpenFds /\ StillReadable(OpenFds)
  BY NoCall
<1>p. UNCHANGED echoVars /\ (pc = "dead" => pc' = "dead") => Promised
  BY NoCallPromised
<1>o. OpenFds \subseteq Fds /\ LFd \in Nat
  BY SelectAssumption DEF OpenFds
<1>a. pc \in {"accept", "scan", "write"} => Ahead \subseteq OpenFds
  BY DEF ScanInv
<1>1. ASSUME NEW c \in Conns, Client(c) PROVE ConnsInv' /\ (ScanTypeOK /\ ScanInv)' /\ Promised
  <2>1. (ClientActs(c) \/ Consume(c)) /\ UNCHANGED scanVars
    BY <1>1 DEF Client
  <2>2. ConnsInv' /\ OpenFds' = OpenFds /\ StillReadable(OpenFds)
    BY <2>1, ClientCall
  <2>3. (ScanTypeOK /\ ScanInv)'
    BY <2>1, <2>2, SelectStays
  <2>4. UNCHANGED pc
    BY <2>1 DEF scanVars
  <2> QED BY <2>1, <2>2, <2>3, <2>4, ClientPromised
<1>2. CASE Select
  <2>1. /\ pc = "wait" /\ rset' = Ready /\ pc' \in {"accept", "scan"} /\ i' = LFd + 1
        /\ UNCHANGED <<echoVars, oldset>>
    BY <1>2 DEF Select
  <2>2. ConnsInv' /\ OpenFds' = OpenFds /\ StillReadable(OpenFds)
    BY <1>n, <2>1
  <2>3. Ready \subseteq OpenFds /\ \A f \in Ready : Readable(fdtab[f])
    BY DEF Ready, ScanInv
  <2>4. Ahead' \subseteq rset'
    BY DEF Ahead
  <2>5. \A f \in Ahead' : f \in OpenFds' /\ Readable(fdtab[f])'
    BY <2>1, <2>2, <2>3, <2>4 DEF StillReadable
  <2>6. ScanTypeOK' /\ ScanInv'
    BY <1>o, <2>1, <2>2, <2>3, <2>5 DEF ScanTypeOK, ScanInv
  <2> QED BY <1>p, <2>1, <2>2, <2>6
<1>3. CASE Accept
  <2>1. PICK c \in Conns : \E f \in Fds :
          AcceptConn(c, f) /\ oldset' = oldset \cup {f}
    BY <1>3 DEF Accept
  <2>2. PICK f \in Fds : AcceptConn(c, f) /\ oldset' = oldset \cup {f}
    BY <2>1
  <2>3. pc = "accept" /\ pc' \in {"wait", "scan"} /\ UNCHANGED <<out, rset, i>>
    BY <1>3 DEF Accept
  <2>4. ConnsInv' /\ OpenFds' = OpenFds \cup {f} /\ StillReadable(OpenFds)
    BY <2>2, <2>3, AcceptCall
  <2>5. Ahead' \subseteq Ahead
    BY <2>3 DEF Ahead
  <2>6. \A g \in Ahead : g \in OpenFds' /\ Readable(fdtab[g])'
    BY <2>3, <2>4 DEF ScanInv, StillReadable
  <2>7. ScanTypeOK' /\ ScanInv'
    BY <2>2, <2>3, <2>4, <2>5, <2>6 DEF ScanTypeOK, ScanInv
  <2> QED BY <2>2, <2>3, <2>4, <2>7, AcceptPromised
<1>4. CASE AcceptFails \/ WriteSigpipe
  <2>1. pc' = "dead" /\ UNCHANGED <<echoVars, oldset, rset, i>>
    BY <1>4 DEF AcceptFails, WriteSigpipe
  <2> QED BY <1>n, <1>p, <2>1 DEF ScanTypeOK, ScanInv
<1>5. CASE Skip
  <2>1. pc = "scan" /\ i \notin rset /\ UNCHANGED <<echoVars, oldset, rset>>
    BY <1>5 DEF Skip
  <2>2. ConnsInv' /\ OpenFds' = OpenFds /\ StillReadable(OpenFds)
    BY <1>n, <2>1
  <2>3. CASE i' = i + 1 /\ pc' = pc
    <3>1. Ahead \ (IF pc = "scan" THEN {i} ELSE {}) \subseteq OpenFds'
      BY <1>a, <2>1, <2>2
    <3>2. oldset' = OpenFds' /\ StillReadable(OpenFds')
      BY <2>1, <2>2 DEF ScanInv
    <3> QED BY <1>p, <2>1, <2>2, <2>3, <3>1, <3>2, ScanOn
  <2>4. CASE i' = i /\ pc' = "wait"
    BY <1>p, <2>1, <2>2, <2>4 DEF ScanTypeOK, ScanInv
  <2> QED BY <1>5, <2>3, <2>4 DEF Skip
<1>h. Hit => pc = "scan" /\ i \in rset /\ i \in Ahead /\ i \in OpenFds
  BY <1>a DEF Hit, Ahead
<1>6. CASE ReadData
  <2>1. /\ Hit /\ HasData(fdtab[i]) /\ TakeData(fdtab[i], ReadSize(fdtab[i], BufSize))
        /\ pc' = "write" /\ UNCHANGED <<out, oldset, rset, i>>
    BY <1>6 DEF ReadData
  <2>2. ConnsInv' /\ OpenFds' = OpenFds /\ StillReadable(OpenFds \ {i})
    BY <1>h, <2>1, ReadCall
  <2>3. \A f \in Ahead' : f \in Ahead \ {i}
    BY <1>h, <2>1, SocketsAssumption DEF Ahead, ScanTypeOK
  <2>4. \A f \in Ahead' : f \in OpenFds' /\ Readable(fdtab[f])'
    BY <1>h, <2>1, <2>2, <2>3 DEF ScanInv, StillReadable
  <2>5. ScanTypeOK' /\ ScanInv'
    BY <1>h, <2>1, <2>2, <2>4 DEF ScanTypeOK, ScanInv
  <2>6. Promised
    BY <1>h, <2>1, ReadPromised
  <2> QED BY <2>2, <2>5, <2>6
<1>7. CASE ReadEnd
  <2>1. /\ Hit /\ (AtEof(fdtab[i]) \/ HasError(fdtab[i])) /\ CloseFd(i)
        /\ oldset' = oldset \ {i} /\ i' = i + 1 /\ UNCHANGED <<out, pc, rset>>
    BY <1>7 DEF ReadEnd
  <2>2. ConnsInv' /\ OpenFds' = OpenFds \ {i} /\ StillReadable(OpenFds')
    BY <1>h, <2>1, CloseCall
  <2>3. oldset' = OpenFds' /\ Ahead \ (IF pc = "scan" THEN {i} ELSE {}) \subseteq OpenFds'
    BY <1>a, <1>h, <2>1, <2>2 DEF ScanInv
  <2>4. (ScanTypeOK /\ ScanInv)'
    BY <1>h, <2>1, <2>2, <2>3, ScanOn
  <2>5. Promised
    BY <1>h, <2>1, ClosePromised
  <2> QED BY <2>2, <2>4, <2>5
<1>8. CASE Write
  <2>1. /\ pc = "write" /\ pc' = "scan" /\ i' = i + 1 /\ UNCHANGED <<oldset, rset>>
        /\ WriteOk(fdtab[i]) \/ Told(fdtab[i])
    BY <1>8 DEF Write, WriteReset, Told
  <2>2. i \in OpenFds
    BY <2>1 DEF ScanInv
  <2>3. ConnsInv' /\ OpenFds' = OpenFds /\ StillReadable(OpenFds)
    BY <2>1, <2>2, WriteCall
  <2>4. oldset' = OpenFds' /\ Ahead \ (IF pc = "scan" THEN {i} ELSE {}) \subseteq OpenFds'
    BY <1>a, <2>1, <2>3 DEF ScanInv
  <2>5. (ScanTypeOK /\ ScanInv)'
    BY <2>1, <2>3, <2>4, ScanOn
  <2>6. Promised
    BY <2>1, <2>2, WritePromised
  <2> QED BY <2>3, <2>5, <2>6
<1> QED BY <1>1, <1>2, <1>3, <1>4, <1>5, <1>6, <1>7, <1>8 DEF Next, Server

-----------------------------------------------------------------------------
(* webdemo01.c: the batch holds open descriptors with something to read.   *)
BatchTypeOK ==
    /\ pc \in {"wait", "next", "write", "dead"}
    /\ evs \subseteq Fds \cup {LFd}

BatchInv ==
    /\ tree = OpenFds
    /\ pc \in {"next", "write"} => \A f \in evs \ {LFd} : f \in OpenFds /\ Readable(fdtab[f])
    /\ pc = "write" => cur \in OpenFds

SmallInv == program = "small" => BatchTypeOK /\ BatchInv

(* The sockets of WebDemo are those of SelectTeacher. *)
LEMMA SameCalls ==
    /\ UNCHANGED Small!echoVars <=> UNCHANGED echoVars
    /\ \A c \in Conns : Small!ClientActs(c) \/ Small!Consume(c) => ClientActs(c) \/ Consume(c)
    /\ \A c \in Conns, f \in Fds : Small!AcceptConn(c, f) <=> AcceptConn(c, f)
    /\ \A f \in Fds : Small!CloseFd(f) <=> CloseFd(f)
BY DEF Small!echoVars, Small!sockVars, echoVars, sockVars,
       Small!ClientActs, Small!Connect, Small!Deliver, Small!Alive, Small!Fin, Small!Abort, Small!Consume,
       ClientActs, Connect, Deliver, Alive, Fin, Abort, Consume,
       Small!AcceptConn, Small!Queued, Small!Lowest, Small!Free, Small!OpenFds,
       AcceptConn, Queued, Lowest, Free, OpenFds, Small!CloseFd, CloseFd

LEMMA SmallNext ==
    ASSUME ConnsInv, BatchTypeOK, BatchInv, Small!Next
    PROVE  ConnsInv' /\ (BatchTypeOK /\ BatchInv)' /\ Promised
<1>n. UNCHANGED echoVars => ConnsInv' /\ OpenFds' = OpenFds /\ StillReadable(OpenFds)
  BY NoCall
<1>p. UNCHANGED echoVars /\ (pc = "dead" => pc' = "dead") => Promised
  BY NoCallPromised
<1>o. OpenFds \subseteq Fds /\ LFd \notin Fds
  BY SelectAssumption DEF OpenFds
<1>1. ASSUME NEW c \in Conns, Small!Client(c) PROVE ConnsInv' /\ (BatchTypeOK /\ BatchInv)' /\ Promised
  <2>1. (ClientActs(c) \/ Consume(c)) /\ UNCHANGED <<pc, evs, cur, tree>>
    BY <1>1, SameCalls DEF Small!Client
  <2>2. ConnsInv' /\ OpenFds' = OpenFds /\ StillReadable(OpenFds)
    BY <2>1, ClientCall
  <2>3. (BatchTypeOK /\ BatchInv)'
    BY <2>1, <2>2 DEF BatchTypeOK, BatchInv, StillReadable
  <2> QED BY <2>1, <2>2, <2>3, ClientPromised
<1>2. CASE Small!EpollWait
  <2>1. /\ pc = "wait" /\ pc' = "next" /\ evs' = Small!Reportable
        /\ UNCHANGED <<echoVars, cur, tree>>
    BY <1>2, SameCalls DEF Small!EpollWait
  <2>2. ConnsInv' /\ OpenFds' = OpenFds /\ StillReadable(OpenFds)
    BY <1>n, <2>1
  <2>3. \A f \in evs' \ {LFd} : f \in OpenFds /\ Readable(fdtab[f])
    BY <2>1 DEF Small!Reportable, Small!Readable, Small!Avail, Readable, Avail, BatchInv
  <2>4. evs' \subseteq Fds \cup {LFd}
    BY <1>o, <2>3
  <2>5. BatchTypeOK' /\ BatchInv'
    BY <2>1, <2>2, <2>3, <2>4 DEF BatchTypeOK, BatchInv, StillReadable
  <2> QED BY <1>p, <2>1, <2>2, <2>5
<1>3. CASE Small!BatchDone
  <2>1. pc = "next" /\ evs = {} /\ pc' = "wait" /\ UNCHANGED <<echoVars, evs, cur, tree>>
    BY <1>3, SameCalls DEF Small!BatchDone
  <2> QED BY <1>n, <1>p, <2>1 DEF BatchTypeOK, BatchInv
<1>4. CASE Small!AcceptEvent
  <2>1. PICK c \in Conns : \E f \in Fds : AcceptConn(c, f) /\ tree' = tree \cup {f}
    BY <1>4, SameCalls DEF Small!AcceptEvent
  <2>2. PICK f \in Fds : AcceptConn(c, f) /\ tree' = tree \cup {f}
    BY <2>1
  <2>3. pc = "next" /\ evs' = evs \ {LFd} /\ UNCHANGED <<out, pc, cur>>
    BY <1>4 DEF Small!AcceptEvent, Small!Accepting
  <2>4. ConnsInv' /\ OpenFds' = OpenFds \cup {f} /\ StillReadable(OpenFds)
    BY <2>2, <2>3, AcceptCall
  <2>5. BatchTypeOK' /\ BatchInv'
    BY <2>2, <2>3, <2>4 DEF BatchTypeOK, BatchInv, StillReadable
  <2> QED BY <2>2, <2>3, <2>4, <2>5, AcceptPromised
<1>5. CASE Small!AcceptFails \/ Small!WriteSigpipe
  <2>1. pc' = "dead" /\ UNCHANGED <<echoVars, evs, cur, tree>>
    BY <1>5, SameCalls DEF Small!AcceptFails, Small!WriteSigpipe
  <2> QED BY <1>n, <1>p, <2>1 DEF BatchTypeOK, BatchInv
<1>6. ASSUME NEW f \in Fds, Small!ReadData(f) PROVE ConnsInv' /\ (BatchTypeOK /\ BatchInv)' /\ Promised
  <2>1. /\ pc = "next" /\ f \in evs \ {LFd} /\ evs' = evs \ {f}
        /\ cur' = f /\ pc' = "write" /\ UNCHANGED <<out, tree>>
    BY <1>6 DEF Small!ReadData, Small!Handle
  <2>2. HasData(fdtab[f]) /\ TakeData(fdtab[f], ReadSize(fdtab[f], BufSize))
    BY <1>6 DEF Small!ReadData, Small!HasData, Small!TakeData, Small!ReadSize, Small!Avail,
                HasData, TakeData, ReadSize, Avail
  <2>3. f \in OpenFds
    BY <2>1 DEF BatchInv
  <2>4. ConnsInv' /\ OpenFds' = OpenFds /\ StillReadable(OpenFds \ {f})
    BY <2>1, <2>2, <2>3, ReadCall
  <2>5. BatchTypeOK' /\ BatchInv'
    BY <2>1, <2>3, <2>4 DEF BatchTypeOK, BatchInv, StillReadable
  <2> QED BY <2>1, <2>2, <2>3, <2>4, <2>5, ReadPromised
<1>7. ASSUME NEW f \in Fds, Small!ReadError(f) PROVE ConnsInv' /\ (BatchTypeOK /\ BatchInv)' /\ Promised
  <2>1. /\ pc = "next" /\ f \in evs \ {LFd} /\ evs' = evs \ {f} /\ UNCHANGED <<pc, cur, tree>>
        /\ Told(fdtab[f])
    BY <1>7 DEF Small!ReadError, Small!Handle, Small!HasError, Small!TakeError, Told, TakeError
  <2>2. f \in OpenFds
    BY <2>1 DEF BatchInv
  <2>3. ConnsInv' /\ OpenFds' = OpenFds /\ StillReadable(OpenFds)
    BY <2>1, <2>2, WriteCall
  <2>4. BatchTypeOK' /\ BatchInv'
    BY <2>1, <2>3 DEF BatchTypeOK, BatchInv, StillReadable
  <2> QED BY <2>1, <2>2, <2>3, <2>4, WritePromised
<1>8. ASSUME NEW f \in Fds, Small!ReadEof(f) PROVE ConnsInv' /\ (BatchTypeOK /\ BatchInv)' /\ Promised
  <2>1. /\ pc = "next" /\ f \in evs \ {LFd} /\ evs' = evs \ {f} /\ tree' = tree \ {f}
        /\ CloseFd(f) /\ UNCHANGED <<out, pc, cur>>
    BY <1>8, SameCalls DEF Small!ReadEof, Small!Handle
  <2>2. AtEof(fdtab[f])
    BY <1>8 DEF Small!ReadEof, Small!AtEof, Small!Avail, AtEof, Avail
  <2>3. f \in OpenFds
    BY <2>1 DEF BatchInv
  <2>4. ConnsInv' /\ OpenFds' = OpenFds \ {f} /\ StillReadable(OpenFds')
    BY <2>1, <2>3, CloseCall
  <2>5. BatchTypeOK' /\ BatchInv'
    BY <2>1, <2>4 DEF BatchTypeOK, BatchInv, StillReadable
  <2> QED BY <2>1, <2>2, <2>3, <2>4, <2>5, ClosePromised
<1>9. CASE Small!Write
  <2>1. /\ pc = "write" /\ pc' = "next" /\ UNCHANGED <<evs, cur, tree>>
        /\ WriteOk(fdtab[cur]) \/ Told(fdtab[cur])
    BY <1>9 DEF Small!Write, Small!WriteOk, Small!WriteReset, Small!TakeError, Small!sockVars,
                WriteOk, sockVars, Told, TakeError
  <2>2. cur \in OpenFds
    BY <2>1 DEF BatchInv
  <2>3. ConnsInv' /\ OpenFds' = OpenFds /\ StillReadable(OpenFds)
    BY <2>1, <2>2, WriteCall
  <2>4. BatchTypeOK' /\ BatchInv'
    BY <2>1, <2>3 DEF BatchTypeOK, BatchInv, StillReadable
  <2> QED BY <2>1, <2>2, <2>3, <2>4, WritePromised
<1> QED BY <1>1, <1>2, <1>3, <1>4, <1>5, <1>6, <1>7, <1>8, <1>9
        DEF Small!Next, Small!Server, Small!Event

-----------------------------------------------------------------------------
StreamsInv == ConnsInv /\ SelectInv /\ SmallInv

LEMMA StreamsInit == MCInit => StreamsInv /\ Abstract!Init
BY SelectAssumption
   DEF MCInit, Init, EchoInit, SockInit, Small!Init, StreamsInv, ConnsInv, SockTypeOK, Phases, Ends,
       OwnInv, OpenFds, SelectInv, ScanTypeOK, ScanInv, SmallInv, BatchTypeOK, BatchInv, Abstract!Init

LEMMA StreamsStep == StreamsInv /\ [MCNext]_allVars => StreamsInv' /\ Promised
<1> SUFFICES ASSUME StreamsInv, [MCNext]_allVars PROVE StreamsInv' /\ Promised
  OBVIOUS
<1>1. CASE SelectStep(Next)
  <2>1. program = "select" /\ program' = program /\ Next
    BY <1>1 DEF SelectStep
  <2> QED BY <2>1, SelectNext DEF StreamsInv, SelectInv, SmallInv
<1>2. CASE SmallStep(Small!Next)
  <2>1. program = "small" /\ program' = program /\ Small!Next
    BY <1>2 DEF SmallStep
  <2> QED BY <2>1, SmallNext DEF StreamsInv, SelectInv, SmallInv
<1>3. CASE UNCHANGED <<program, vars, smallVars>>
  <2>1. UNCHANGED <<echoVars, scanVars, evs, cur, tree, program>>
    BY <1>3 DEF vars, smallVars
  <2>2. ConnsInv' /\ OpenFds' = OpenFds /\ StillReadable(OpenFds)
    BY <2>1, NoCall DEF StreamsInv
  <2>3. UNCHANGED pc
    BY <2>1 DEF scanVars
  <2>4. SelectInv'
    BY <2>1, <2>2, SelectStays DEF StreamsInv, SelectInv
  <2>5. SmallInv'
    BY <2>1, <2>2, <2>3 DEF StreamsInv, SmallInv, BatchTypeOK, BatchInv, StillReadable
  <2>6. Promised
    BY <2>1, <2>3, NoCallPromised
  <2> QED BY <2>2, <2>4, <2>5, <2>6 DEF StreamsInv
<1> QED BY <1>1, <1>2, <1>3 DEF MCNext, Alone, allVars

(* The second select server and the small epoll server take only what was  *)
(* sent, in order, and close only what has ended and been read to the end  *)
(* (selectFunTeacher.c:81-94, webdemo01.c:49-62).                          *)
THEOREM BothKeepThePromise == MCSpec => StreamsKept
<1>1. MCInit => StreamsInv /\ Abstract!Init
  BY StreamsInit
<1>2. StreamsInv /\ [MCNext]_allVars => StreamsInv' /\ [Abstract!Next]_Abstract!vars
  BY StreamsStep DEF Promised
<1> QED BY <1>1, <1>2, PTL DEF MCSpec, StreamsKept, Implements, Abstract!Spec

-----------------------------------------------------------------------------
(* f is computed up to m: from s0 on, each value from an earlier one.      *)
Computed(f, m, s0, before, step) ==
    f[0] = s0 /\ \A k \in 1..m : f[k] = step[<<k, f[before[k]]>>]

(* There is a function with given first value and step.                    *)
LEMMA Recursion ==
    ASSUME NEW S, NEW s0 \in S, NEW last \in Nat,
           NEW before \in [1..last -> Nat], \A k \in 1..last : before[k] < k,
           NEW step \in [(1..last) \X S -> S]
    PROVE  \E f \in [0..last -> S] : Computed(f, last, s0, before, step)
<1> DEFINE Known(m) == \E f \in [0..m -> S] : Computed(f, m, s0, before, step)
           T == {m \in 0..last : ~Known(m)}
<1>1. SUFFICES ASSUME T # {} PROVE FALSE
  BY <1>1
<1>2. PICK x \in T : \A y \in T : x <= y
  <2>1. T \in SUBSET Nat
    OBVIOUS
  <2> HIDE DEF T
  <2> QED BY <1>1, <2>1, LeastOf
<1>3. x \in 0..last /\ ~Known(x)
  OBVIOUS
<1>4. CASE x = 0
  <2> DEFINE f == [k \in 0..0 |-> s0]
  <2>1. f \in [0..0 -> S] /\ f[0] = s0 /\ 1..0 = {}
    OBVIOUS
  <2>2. Computed(f, 0, s0, before, step)
    BY <2>1 DEF Computed
  <2> QED BY <1>3, <1>4, <2>1, <2>2
<1>5. CASE x > 0
  <2>1. x - 1 \in 0..last /\ x - 1 < x /\ x \in 1..last
    BY <1>3, <1>5
  <2>2. Known(x - 1)
    BY <1>2, <2>1
  <2>3. PICK f \in [0..(x - 1) -> S] : Computed(f, x - 1, s0, before, step)
    BY <2>2
  <2> DEFINE g == [k \in 0..x |-> IF k = x THEN step[<<x, f[before[x]]>>] ELSE f[k]]
  <2>4. before[x] \in 0..(x - 1)
    BY <2>1
  <2>5. step[<<x, f[before[x]]>>] \in S
    BY <2>1, <2>3, <2>4
  <2>6. g \in [0..x -> S]
    BY <2>1, <2>3, <2>5
  <2>7. g[0] = s0
    BY <1>5, <2>1, <2>3 DEF Computed
  <2>8. \A k \in 1..x : g[k] = step[<<k, g[before[k]]>>]
    <3> TAKE k \in 1..x
    <3>1. k \in 1..last /\ before[k] \in 0..(x - 1) /\ before[k] \in 0..x /\ before[k] # x /\ k \in 0..x
      BY <2>1
    <3>2. g[before[k]] = f[before[k]]
      BY <3>1
    <3>3. CASE k = x
      <4>1. g[x] = step[<<x, f[before[x]]>>]
        BY <2>1
      <4> QED BY <3>2, <3>3, <4>1
    <3>4. CASE k # x
      <4>1. k \in 1..(x - 1)
        BY <2>1, <3>4
      <4>2. g[k] = f[k]
        BY <3>1, <3>4
      <4> QED BY <2>3, <3>2, <4>1, <4>2 DEF Computed
    <3> QED BY <3>3, <3>4
  <2>9. Computed(g, x, s0, before, step)
    BY <2>7, <2>8 DEF Computed
  <2> QED BY <1>3, <2>6, <2>9
<1> QED BY <1>3, <1>4, <1>5

(* Induction over 0..last. *)
LEMMA Upwards ==
    ASSUME NEW last \in Nat, NEW K, 0 \in K, \A k \in 1..last : k - 1 \in K => k \in K
    PROVE  \A k \in 0..last : k \in K
<1> DEFINE T == (0..last) \ K
<1>1. SUFFICES ASSUME T # {} PROVE FALSE
  BY <1>1
<1>2. T \in SUBSET Nat
  OBVIOUS
<1> HIDE DEF T
<1>3. PICK x \in T : \A y \in T : x <= y
  BY <1>1, <1>2, LeastOf
<1>4. x \in 0..last /\ x \notin K /\ x # 0
  BY DEF T
<1>5. x \in 1..last /\ x - 1 \in 0..last /\ ~(x <= x - 1)
  BY <1>4
<1>6. x - 1 \in K
  BY <1>3, <1>5 DEF T
<1> QED BY <1>4, <1>5, <1>6

(* What is cut out of a sequence.                                          *)
LEMMA PartOf ==
    ASSUME NEW S, NEW nm \in Seq(S)
    PROVE  \A a \in 1..(Len(nm) + 1), b \in 0..Len(nm) :
             /\ SubSeq(nm, a, b) \in Seq(S)
             /\ Len(SubSeq(nm, a, b)) = IF a <= b THEN b - a + 1 ELSE 0
             /\ \A k \in 1..(b - a + 1) : SubSeq(nm, a, b)[k] = nm[a + k - 1]
<1> TAKE a \in 1..(Len(nm) + 1), b \in 0..Len(nm)
<1>1. Len(nm) \in Nat /\ \A k \in 1..Len(nm) : nm[k] \in S
  BY ElementOfSeq, LenProperties
<1>2. \A k \in a..b : nm[k] \in S
  BY <1>1
<1>3. a \in Int /\ b \in Int
  BY <1>1
<1> QED BY <1>2, <1>3, SubSeqProperties

-----------------------------------------------------------------------------
(* checksum() and the frames. *)

Words == 0..(Raw!W - 1)

(* Two words. *)
Long(a, b) == Raw!W * a + b

LEMMA WordWidth == Raw!W \in Nat /\ Raw!W > 1 /\ \A x : x \in Words <=> x \in Nat /\ x < Raw!W
<1>1. Raw!W \in Nat /\ Raw!W > 1
  BY SMT DEF Raw!W
<1> QED BY <1>1 DEF Words

LEMMA Halves ==
    ASSUME NEW s \in Nat
    PROVE  s \div Raw!W \in Nat /\ s % Raw!W \in Words /\ s = Long(s \div Raw!W, s % Raw!W)
<1>1. s \div Raw!W \in Nat /\ s % Raw!W \in Nat /\ s % Raw!W < Raw!W
  BY SMT DEF Raw!W
<1>2. s = Raw!W * (s \div Raw!W) + (s % Raw!W)
  BY SMT DEF Raw!W
<1>3. s % Raw!W \in Words
  BY <1>1, WordWidth
<1> QED BY <1>1, <1>2, <1>3 DEF Long

LEMMA OneWay ==
    ASSUME NEW a \in Nat, NEW b \in Words, NEW q \in Nat, NEW r \in Words, Long(q, r) = Long(a, b)
    PROVE  q = a /\ r = b
<1>1. b \in Nat /\ b < Raw!W /\ r \in Nat /\ r < Raw!W
  BY WordWidth
<1> QED BY <1>1, SMT DEF Long, Raw!W

LEMMA Unique ==
    ASSUME NEW a \in Nat, NEW b \in Words
    PROVE  Long(a, b) \in Nat /\ Long(a, b) \div Raw!W = a /\ Long(a, b) % Raw!W = b
<1> DEFINE s == Long(a, b)
           q == s \div Raw!W
           r == s % Raw!W
<1>1. s \in Nat
  <2>1. b \in Nat
    BY WordWidth
  <2> QED BY <2>1, SMT DEF Long, Raw!W
<1> HIDE DEF s
<1>2. q \in Nat /\ r \in Words /\ s = Long(q, r)
  BY <1>1, Halves
<1> HIDE DEF q, r
<1>3. Long(q, r) = Long(a, b)
  BY <1>2 DEF s
<1>4. q = a /\ r = b
  BY <1>2, <1>3, OneWay
<1> QED BY <1>1, <1>4 DEF q, r, s

LEMMA Carry ==
    ASSUME NEW d \in Nat, d < 2 * Raw!W
    PROVE  /\ d < Raw!W => d \div Raw!W = 0 /\ d % Raw!W = d
           /\ d >= Raw!W => d \div Raw!W = 1 /\ d % Raw!W = d - Raw!W
<1> DEFINE w == Raw!W
<1>1. w \in Nat /\ w > 1 /\ d < 2 * w
  BY WordWidth
<1> HIDE DEF w
<1>2. d < w => d \div w = 0 /\ d % w = d
  BY <1>1, SMT
<1>3. d >= w => d \div w = 1
  BY <1>1, SMT
<1>4. d >= w => d % w = d - w
  BY <1>1, SMT
<1> QED BY <1>2, <1>3, <1>4 DEF w

(* The carries are added back in, and the sum is complemented.             *)
LEMMA FoldedValue ==
    ASSUME NEW a \in Words, NEW b \in Words
    PROVE  Raw!Folded(Long(a, b)) = IF a + b < Raw!W THEN Raw!W - 1 - (a + b) ELSE 2 * (Raw!W - 1) - (a + b)
<1>1. Raw!W \in Nat /\ Raw!W > 1 /\ a \in Nat /\ a < Raw!W /\ b \in Nat /\ b < Raw!W
  BY WordWidth
<1>2. Long(a, b) \div Raw!W = a /\ Long(a, b) % Raw!W = b
  BY <1>1, Unique
<1>3. Raw!Folded(Long(a, b)) = Raw!W - 1 - ((a + b + (a + b) \div Raw!W) % Raw!W)
  BY <1>2 DEF Raw!Folded
<1>4. CASE a + b < Raw!W
  <2>1. (a + b) \div Raw!W = 0 /\ (a + b) % Raw!W = a + b
    BY <1>1, <1>4, Carry
  <2>2. a + b + 0 = a + b
    BY <1>1
  <2> QED BY <1>3, <1>4, <2>1, <2>2
<1>5. CASE a + b >= Raw!W
  <2>1. a + b \in Nat /\ a + b < 2 * Raw!W /\ a + b + 1 \in Nat /\ a + b + 1 < 2 * Raw!W /\ a + b + 1 >= Raw!W
    BY <1>1, <1>5
  <2>2. (a + b) \div Raw!W = 1
    BY <1>5, <2>1, Carry
  <2>3. (a + b + 1) % Raw!W = (a + b + 1) - Raw!W
    <3> DEFINE d == a + b + 1
    <3>1. d \in Nat /\ d < 2 * Raw!W /\ d >= Raw!W
      BY <2>1
    <3> HIDE DEF d
    <3>2. d % Raw!W = d - Raw!W
      BY <3>1, Carry
    <3> QED BY <3>2, Zenon DEF d
  <2>4. Raw!Folded(Long(a, b)) = Raw!W - 1 - ((a + b + 1) - Raw!W)
    BY <1>3, <2>2, <2>3
  <2>5. ~(a + b < Raw!W) /\ Raw!W - 1 - ((a + b + 1) - Raw!W) = 2 * (Raw!W - 1) - (a + b)
    BY <1>1, <1>5
  <2> QED BY <2>4, <2>5
<1> QED BY <1>1, <1>4, <1>5

(* What has been summed up and its checksum together come to 0, with no    *)
(* carry, with one and with two.                                           *)
LEMMA AddsUp ==
    ASSUME NEW s \in Nat, s < Raw!W * Raw!W
    PROVE  Raw!Folded(s) \in Words /\ Raw!Folded(s + Raw!Folded(s)) = 0
<1> DEFINE w == Raw!W
           a == s \div w
           b == s % w
           c == Raw!Folded(s)
<1>1. a \in Nat /\ b \in Words /\ s = Long(a, b)
  BY Halves
<1> HIDE DEF a, b
<1>2. w \in Nat /\ w > 1 /\ b \in Nat /\ b < w
  BY <1>1, WordWidth
<1>3. a < w
  <2>1. w * a <= s
    BY <1>1, <1>2, SMT DEF Long, w, Raw!W
  <2>2. ~(a >= w)
    BY <1>1, <1>2, <2>1, SMT DEF w, Raw!W
  <2> QED BY <1>1, <1>2, <2>2
<1>4. a \in Words
  BY <1>1, <1>3, WordWidth
<1>5. c = IF a + b < w THEN w - 1 - (a + b) ELSE 2 * (w - 1) - (a + b)
  BY <1>1, <1>4, FoldedValue
<1>6. s = w * a + b
  BY <1>1 DEF Long
<1>7. \A q, r \in Words : q + r = w - 1 \/ q + r = 2 * (w - 1) => Raw!Folded(w * q + r) = 0
  <2> TAKE q, r \in Words
  <2> HAVE q + r = w - 1 \/ q + r = 2 * (w - 1)
  <2>1. q \in Nat /\ r \in Nat
    BY WordWidth
  <2>2. Raw!Folded(w * q + r) = IF q + r < w THEN w - 1 - (q + r) ELSE 2 * (w - 1) - (q + r)
    BY FoldedValue DEF Long
  <2> HIDE DEF w
  <2> QED BY <1>2, <2>1, <2>2
<1>8. \A x \in Nat : x < w => x \in Words
  BY WordWidth
<1> HIDE DEF w, c
<1>9. c \in Nat /\ c < w
  BY <1>1, <1>2, <1>3, <1>5
<1>10. CASE a + b < w
  <2>1. c = w - 1 - (a + b) /\ s + c = w * a + (w - 1 - a)
    <3>1. c = w - 1 - (a + b)
      BY <1>5, <1>10
    <3> DEFINE p == w * a
    <3>2. p \in Nat /\ s = p + b
      BY <1>1, <1>2, <1>6
    <3> HIDE DEF p
    <3>3. s + c = p + (w - 1 - a)
      BY <1>1, <1>2, <3>1, <3>2
    <3> QED BY <3>1, <3>3 DEF p
  <2>2. w - 1 - a \in Words /\ a + (w - 1 - a) = w - 1
    BY <1>1, <1>2, <1>3, <1>8
  <2>3. Raw!Folded(w * a + (w - 1 - a)) = 0
    BY <1>4, <1>7, <2>2
  <2> QED BY <1>8, <1>9, <2>1, <2>3 DEF c
<1>11. CASE a + b >= w /\ a < w - 1
  <2>1. c = 2 * (w - 1) - (a + b) /\ s + c = w * (a + 1) + (w - 2 - a)
    <3>1. c = 2 * (w - 1) - (a + b)
      BY <1>1, <1>2, <1>5, <1>11
    <3> DEFINE p == w * a
    <3>2. p \in Nat /\ s = p + b /\ w * (a + 1) = p + w
      BY <1>1, <1>2, <1>6
    <3> HIDE DEF p
    <3>3. s + c = p + w + (w - 2 - a)
      BY <1>1, <1>2, <3>1, <3>2
    <3> QED BY <3>1, <3>2, <3>3
  <2>2. w - 2 - a \in Words /\ a + 1 \in Words /\ a + 1 + (w - 2 - a) = w - 1
    BY <1>1, <1>2, <1>8, <1>11
  <2>3. Raw!Folded(w * (a + 1) + (w - 2 - a)) = 0
    BY <1>7, <2>2
  <2> QED BY <1>8, <1>9, <2>1, <2>3 DEF c
<1>12. CASE a + b >= w /\ a = w - 1
  <2>1. c = w - 1 - b /\ s + c = w * a + a
    <3>1. c = w - 1 - b
      BY <1>1, <1>2, <1>5, <1>12
    <3> DEFINE p == w * a
    <3>2. p \in Nat /\ s = p + b
      BY <1>1, <1>2, <1>6
    <3> HIDE DEF p
    <3>3. s + c = p + a
      BY <1>1, <1>2, <1>12, <3>1, <3>2
    <3> QED BY <3>1, <3>3 DEF p
  <2>2. a + a = 2 * (w - 1)
    BY <1>1, <1>2, <1>12
  <2>3. Raw!Folded(w * a + a) = 0
    BY <1>4, <1>7, <2>2
  <2> QED BY <1>8, <1>9, <2>1, <2>3 DEF c
<1> QED BY <1>1, <1>2, <1>3, <1>10, <1>11, <1>12

(* checksum() from word to word.                                           *)
Sums(b, sum) == sum = [k \in 0..Len(b) |-> IF k = 0 THEN 0 ELSE sum[k - 1] + b[k]]

LEMMA SumSteps ==
    ASSUME NEW b \in Seq(Words)
    PROVE  \E sum : Sums(b, sum) /\ Raw!WordSum(b) = sum[Len(b)]
<1> DEFINE L == Len(b)
           before == [k \in 1..L |-> k - 1]
           step == [q \in (1..L) \X Nat |-> q[2] + b[q[1]]]
<1>1. L \in Nat /\ \A k \in 1..L : b[k] \in Nat
  <2>1. L \in Nat /\ \A k \in 1..L : b[k] \in Words
    BY ElementOfSeq, LenProperties
  <2> HIDE DEF L
  <2> QED BY <2>1, WordWidth
<1> HIDE DEF L
<1>2. before \in [1..L -> Nat] /\ \A k \in 1..L : before[k] < k
  BY <1>1
<1>3. step \in [(1..L) \X Nat -> Nat]
  <2>1. \A q \in (1..L) \X Nat : q[1] \in 1..L /\ q[2] \in Nat
    OBVIOUS
  <2>2. \A q \in (1..L) \X Nat : q[2] + b[q[1]] \in Nat
    BY <1>1, <2>1
  <2> QED BY <2>2
<1>4. PICK f \in [0..L -> Nat] : Computed(f, L, 0, before, step)
  <2> HIDE DEF before, step
  <2> QED BY <1>1, <1>2, <1>3, Recursion
<1>5. \A k \in 1..L : f[k] = f[k - 1] + b[k]
  <2> TAKE k \in 1..L
  <2>1. k - 1 \in 0..L /\ f[k - 1] \in Nat
    BY <1>1, <1>4
  <2>2. f[k] = step[<<k, f[before[k]]>>] /\ before[k] = k - 1
    BY <1>4 DEF Computed
  <2>3. <<k, f[k - 1]>> \in (1..L) \X Nat
    BY <2>1
  <2>4. step[<<k, f[k - 1]>>] = f[k - 1] + b[k]
    BY <2>3
  <2> HIDE DEF step, before
  <2> QED BY <2>2, <2>4
<1>6. f[0] = 0
  BY <1>4 DEF Computed
<1>7. f = [k \in 0..L |-> IF k = 0 THEN 0 ELSE f[k - 1] + b[k]]
  <2>1. \A k \in 0..L : k = 0 \/ k \in 1..L
    BY <1>1
  <2> HIDE DEF step, before
  <2> QED BY <1>4, <1>5, <1>6, <2>1
<1>8. Sums(b, f)
  BY <1>7 DEF Sums, L
<1> QED BY <1>8 DEF Sums, Raw!WordSum

(* No 32 bits overflow. *)
LEMMA SumBounded ==
    ASSUME NEW b \in Seq(Words), Len(b) <= Raw!W
    PROVE  Raw!WordSum(b) \in Nat /\ Raw!WordSum(b) < Raw!W * Raw!W
<1> DEFINE L == Len(b)
           w == Raw!W
<1>1. PICK sum : Sums(b, sum) /\ Raw!WordSum(b) = sum[L]
  BY SumSteps
<1>2. L \in Nat /\ L <= w /\ w \in Nat /\ w > 1 /\ \A k \in 1..L : b[k] \in Nat /\ b[k] <= w - 1
  <2>1. L \in Nat /\ \A k \in 1..L : b[k] \in Words
    BY ElementOfSeq, LenProperties
  <2>2. L <= w
    OBVIOUS
  <2>3. \A x \in Words : x \in Nat /\ x <= Raw!W - 1
    BY WordWidth
  <2> HIDE DEF L, w
  <2> QED BY <2>1, <2>2, <2>3, WordWidth DEF w
<1>3. sum[0] = 0 /\ \A k \in 1..L : sum[k] = sum[k - 1] + b[k]
  <2>1. sum = [k \in 0..L |-> IF k = 0 THEN 0 ELSE sum[k - 1] + b[k]]
    BY <1>1 DEF Sums
  <2> HIDE DEF L
  <2> QED BY <1>2, <2>1
<1> HIDE DEF L, w
<1> DEFINE K == {k \in 0..L : sum[k] \in Nat /\ sum[k] <= k * (w - 1)}
<1>4. 0 \in K
  BY <1>2, <1>3
<1>5. \A k \in 1..L : k - 1 \in K => k \in K
  <2> TAKE k \in 1..L
  <2> HAVE k - 1 \in K
  <2> DEFINE u == w - 1
             p == (k - 1) * u
  <2>1. sum[k - 1] \in Nat /\ sum[k - 1] <= p
    OBVIOUS
  <2>2. u \in Nat /\ b[k] \in Nat /\ b[k] <= u /\ k \in 1..L
    BY <1>2
  <2> HIDE DEF u
  <2>3. p \in Nat /\ k * u = p + u
    BY <1>2, <2>2
  <2> HIDE DEF p
  <2>4. sum[k] \in Nat /\ sum[k] <= k * u
    BY <1>3, <2>1, <2>2, <2>3
  <2>5. k \in 0..L
    BY <1>2
  <2> QED BY <2>4, <2>5 DEF u
<1>6. L \in K
  <2>1. L \in 0..L
    BY <1>2
  <2> HIDE DEF K
  <2> QED BY <1>2, <1>4, <1>5, <2>1, Upwards
<1>7. L * (w - 1) < w * w
  <2>1. w * w = w * (w - 1) + w /\ L * (w - 1) <= w * (w - 1)
    BY <1>2
  <2> QED BY <1>2, <2>1
<1>8. sum[L] \in Nat /\ sum[L] <= L * (w - 1)
  BY <1>6
<1>9. L * (w - 1) \in Nat /\ w * w \in Nat
  BY <1>2
<1> QED BY <1>1, <1>7, <1>8, <1>9 DEF w, L

(* The checksum is added where a 0 was counted. *)
LEMMA SumChanged ==
    ASSUME NEW b \in Seq(Words), NEW d \in Seq(Words), NEW j \in 1..Len(b),
           Len(d) = Len(b), b[j] = 0, \A k \in 1..Len(b) : k # j => d[k] = b[k]
    PROVE  Raw!WordSum(d) = Raw!WordSum(b) + d[j]
<1> DEFINE L == Len(b)
<1>1. PICK sum : Sums(b, sum) /\ Raw!WordSum(b) = sum[L]
  BY SumSteps
<1>2. PICK tot : Sums(d, tot) /\ Raw!WordSum(d) = tot[L]
  BY SumSteps
<1>3. L \in Nat /\ j \in 1..L /\ (\A k \in 1..L : b[k] \in Nat /\ d[k] \in Nat)
  <2>1. L \in Nat /\ (\A k \in 1..L : b[k] \in Words) /\ \A k \in 1..L : d[k] \in Words
    BY ElementOfSeq, LenProperties
  <2>2. \A x \in Words : x \in Nat
    BY WordWidth
  <2> QED BY <2>1, <2>2
<1>4. sum[0] = 0 /\ \A k \in 1..L : sum[k] = sum[k - 1] + b[k]
  <2>1. sum = [k \in 0..L |-> IF k = 0 THEN 0 ELSE sum[k - 1] + b[k]]
    BY <1>1 DEF Sums
  <2> HIDE DEF L
  <2> QED BY <1>3, <2>1
<1>5. tot[0] = 0 /\ \A k \in 1..L : tot[k] = tot[k - 1] + d[k]
  <2>1. tot = [k \in 0..L |-> IF k = 0 THEN 0 ELSE tot[k - 1] + d[k]]
    BY <1>2 DEF Sums
  <2> HIDE DEF L
  <2> QED BY <1>3, <2>1
<1>6. b[j] = 0 /\ \A k \in 1..L : k # j => d[k] = b[k]
  OBVIOUS
<1> HIDE DEF L
<1> DEFINE K == {k \in 0..L : /\ sum[k] \in Nat
                              /\ tot[k] = IF k < j THEN sum[k] ELSE sum[k] + d[j]}
<1>7. 0 \in K
  BY <1>3, <1>4, <1>5
<1>8. \A k \in 1..L : k - 1 \in K => k \in K
  <2> TAKE k \in 1..L
  <2> HAVE k - 1 \in K
  <2>1. sum[k - 1] \in Nat /\ tot[k - 1] = IF k - 1 < j THEN sum[k - 1] ELSE sum[k - 1] + d[j]
    OBVIOUS
  <2> HIDE DEF K
  <2>2. sum[k] = sum[k - 1] + b[k] /\ tot[k] = tot[k - 1] + d[k] /\ b[k] \in Nat /\ d[j] \in Nat
    BY <1>3, <1>4, <1>5
  <2>3. sum[k] \in Nat /\ k \in 0..L
    BY <1>3, <2>1, <2>2
  <2>4. tot[k] = IF k < j THEN sum[k] ELSE sum[k] + d[j]
    <3>1. CASE k < j
      <4>1. k # j /\ k - 1 < j /\ d[k] = b[k]
        BY <1>3, <1>6, <3>1
      <4> QED BY <2>1, <2>2, <3>1, <4>1
    <3>2. CASE k = j
      <4>1. k - 1 < j /\ ~(k < j) /\ b[k] = 0 /\ d[k] = d[j]
        BY <1>3, <1>6, <3>2
      <4> QED BY <2>1, <2>2, <4>1
    <3>3. CASE k > j
      <4>1. k # j /\ ~(k - 1 < j) /\ ~(k < j) /\ d[k] = b[k]
        BY <1>3, <1>6, <3>3
      <4> QED BY <2>1, <2>2, <4>1
    <3> QED BY <1>3, <3>1, <3>2, <3>3
  <2> QED BY <2>3, <2>4 DEF K
<1>9. L \in K
  <2>1. L \in 0..L
    BY <1>3
  <2> HIDE DEF K
  <2> QED BY <1>3, <1>7, <1>8, <2>1, Upwards
<1>10. ~(L < j)
  BY <1>3
<1> QED BY <1>1, <1>2, <1>9, <1>10

(* Words with a hole, and the same with their checksum in it.              *)
LEMMA ChecksumFits ==
    ASSUME NEW b \in Seq(Words), NEW d \in Seq(Words), NEW j \in 1..Len(b),
           Len(b) <= Raw!W, Len(d) = Len(b), b[j] = 0, d[j] = Raw!Checksum(b),
           \A k \in 1..Len(b) : k # j => d[k] = b[k]
    PROVE  Raw!Checksum(d) = 0
<1>1. Raw!WordSum(b) \in Nat /\ Raw!WordSum(b) < Raw!W * Raw!W
  BY SumBounded
<1>2. Raw!WordSum(d) = Raw!WordSum(b) + d[j]
  BY SumChanged
<1>3. Raw!Folded(Raw!WordSum(b) + Raw!Folded(Raw!WordSum(b))) = 0
  BY <1>1, AddsUp
<1> QED BY <1>2, <1>3 DEF Raw!Checksum

(* t behind s. *)
JoinedFrom(s, t, r) ==
    /\ r \in Seq(Words) /\ Len(r) = Len(s) + Len(t)
    /\ \A k \in 1..Len(s) : r[k] = s[k]
    /\ \A k \in 1..Len(t) : r[Len(s) + k] = t[k]

LEMMA Glued == \A s, t \in Seq(Words) : JoinedFrom(s, t, s \o t)
<1> TAKE s, t \in Seq(Words)
<1> DEFINE r == s \o t
           a == Len(s)
           b == Len(t)
<1>1. /\ r \in Seq(Words) /\ Len(r) = a + b
      /\ \A k \in 1..(a + b) : r[k] = IF k <= a THEN s[k] ELSE t[k - a]
  BY ConcatProperties
<1>2. a \in Nat /\ b \in Nat
  BY LenProperties
<1> HIDE DEF r, a, b
<1>3. \A k \in 1..a : r[k] = s[k]
  BY <1>1, <1>2
<1>4. \A k \in 1..b : r[a + k] = t[k]
  <2> TAKE k \in 1..b
  <2>1. a + k \in 1..(a + b) /\ ~(a + k <= a) /\ (a + k) - a = k
    BY <1>2
  <2> QED BY <1>1, <2>1
<1> QED BY <1>1, <1>3, <1>4 DEF JoinedFrom, r, a, b

LEMMA Addresses ==
    /\ Src \in Seq(Words) /\ Len(Src) = 2 /\ Dst \in Seq(Words) /\ Len(Dst) = 2
    /\ \A h \in {1, 2} : Mac[h] \in Seq(Words) /\ Len(Mac[h]) = 3
    /\ Port \in Words
    /\ \A data \in Payloads : data \in Seq(Words) /\ Len(data) \in 0..64
<1>1. Src \in Words \X Words /\ Dst \in Words \X Words /\ Port \in Words
  BY RawAssumption DEF Words
<1>2. Mac \in (Words \X Words \X Words) \X (Words \X Words \X Words)
  BY RawAssumption DEF Words
<1>3. \A data \in Payloads : data \in Seq(Words) /\ Len(data) <= 64
  BY RawAssumption DEF Words
<1>4. \A p \in Words \X Words : p \in Seq(Words) /\ Len(p) = 2
  BY SMTT(40)
<1>5. \A p \in Words \X Words \X Words : p \in Seq(Words) /\ Len(p) = 3
  <2> TAKE p \in Words \X Words \X Words
  <2>1. p = <<p[1], p[2], p[3]>> /\ p[1] \in Words /\ p[2] \in Words /\ p[3] \in Words
    OBVIOUS
  <2>2. <<p[1], p[2], p[3]>> \in Seq(Words) /\ Len(<<p[1], p[2], p[3]>>) = 3
    BY <2>1
  <2> QED BY <2>1, <2>2
<1>6. Mac[1] \in Words \X Words \X Words /\ Mac[2] \in Words \X Words \X Words
  BY <1>2
<1>7. \A h \in {1, 2} : Mac[h] \in Seq(Words) /\ Len(Mac[h]) = 3
  BY <1>5, <1>6
<1>8. \A data \in Payloads : data \in Seq(Words) /\ Len(data) \in 0..64
  <2> TAKE data \in Payloads
  <2>1. data \in Seq(Words) /\ Len(data) <= 64
    BY <1>3
  <2>2. Len(data) \in Nat
    BY <2>1, LenProperties
  <2>3. \A l \in Nat : l <= 64 => l \in 0..64
    OBVIOUS
  <2> QED BY <2>1, <2>2, <2>3, Zenon
<1> QED BY <1>1, <1>4, <1>7, <1>8

(* A frame with an IP header h, another header u and data. *)
Packet(h, u, d) == ((((Mac[2] \o Mac[1]) \o <<Raw!EtherIP>>) \o h) \o u) \o d

LaidOut(f, h, u, d) ==
    /\ f \in Seq(Words) /\ Len(f) = 17 + Len(u) + Len(d)
    /\ f[7] = Raw!EtherIP
    /\ \A k \in 1..10 : f[7 + k] = h[k]
    /\ \A k \in 1..Len(u) : f[17 + k] = u[k]
    /\ \A k \in 1..Len(d) : f[17 + Len(u) + k] = d[k]

LEMMA PacketParts ==
    ASSUME NEW h \in Seq(Words), Len(h) = 10, NEW u \in Seq(Words), NEW d \in Seq(Words)
    PROVE  LaidOut(Packet(h, u, d), h, u, d)
<1> DEFINE a1 == Mac[2] \o Mac[1]
           e == <<Raw!EtherIP>>
           a2 == a1 \o e
           a3 == a2 \o h
           a4 == a3 \o u
           f == a4 \o d
           i1 == Len(u)
           i2 == Len(d)
<1>1. a1 \in Seq(Words) /\ Len(a1) = 6
  <2>1. JoinedFrom(Mac[2], Mac[1], a1)
    BY Addresses, Glued, Zenon
  <2>2. Len(Mac[2]) = 3 /\ Len(Mac[1]) = 3
    BY Addresses
  <2> HIDE DEF a1
  <2> QED BY <2>1, <2>2 DEF JoinedFrom
<1>2. e \in Seq(Words) /\ Len(e) = 1 /\ e[1] = Raw!EtherIP
  <2>1. Raw!EtherIP \in Words
    <3>1. Raw!EtherIP \in Nat /\ Raw!EtherIP < Raw!W
      BY SMT DEF Raw!W, Raw!EtherIP
    <3> QED BY <3>1, WordWidth
  <2> QED BY <2>1
<1> HIDE DEF a1, e
<1>3. a2 \in Seq(Words) /\ Len(a2) = 7 /\ a2[7] = Raw!EtherIP
  <2>1. JoinedFrom(a1, e, a2)
    BY <1>1, <1>2, Glued, Zenon
  <2> HIDE DEF a2
  <2>2. a2[6 + 1] = e[1]
    BY <1>1, <1>2, <2>1 DEF JoinedFrom
  <2> QED BY <1>1, <1>2, <2>1, <2>2 DEF JoinedFrom
<1> HIDE DEF a2
<1>4. a3 \in Seq(Words) /\ Len(a3) = 17 /\ a3[7] = Raw!EtherIP /\ \A k \in 1..10 : a3[7 + k] = h[k]
  <2>1. JoinedFrom(a2, h, a3)
    BY <1>3, Glued, Zenon
  <2> HIDE DEF a3
  <2>2. a3[7] = a2[7]
    BY <1>3, <2>1 DEF JoinedFrom
  <2> QED BY <1>3, <2>1, <2>2 DEF JoinedFrom
<1> HIDE DEF a3
<1>5. i1 \in Nat /\ i2 \in Nat
  BY LenProperties
<1>6. /\ a4 \in Seq(Words) /\ Len(a4) = 17 + i1 /\ \A k \in 1..17 : a4[k] = a3[k]
      /\ \A k \in 1..i1 : a4[17 + k] = u[k]
  <2>1. JoinedFrom(a3, u, a4)
    BY <1>4, Glued, Zenon
  <2> HIDE DEF a4
  <2> QED BY <1>4, <2>1 DEF JoinedFrom
<1> HIDE DEF a4
<1>7. /\ f \in Seq(Words) /\ Len(f) = 17 + i1 + i2 /\ \A k \in 1..(17 + i1) : f[k] = a4[k]
      /\ \A k \in 1..i2 : f[17 + i1 + k] = d[k]
  <2>1. JoinedFrom(a4, d, f)
    BY <1>6, Glued, Zenon
  <2> HIDE DEF f
  <2> QED BY <1>6, <2>1 DEF JoinedFrom
<1>8. f = Packet(h, u, d)
  BY DEF Packet, f, a4, a3, a2, a1, e
<1> HIDE DEF f, i1, i2
<1>9. f[7] = Raw!EtherIP
  <2>1. 7 \in 1..17 /\ 7 \in 1..(17 + i1)
    BY <1>5
  <2>2. f[7] = a4[7]
    BY <1>7, <2>1
  <2>3. a4[7] = a3[7]
    BY <1>6, <2>1
  <2> QED BY <1>4, <2>2, <2>3
<1>10. \A k \in 1..10 : f[7 + k] = h[k]
  <2> TAKE k \in 1..10
  <2>1. 7 + k \in 1..17 /\ 7 + k \in 1..(17 + i1)
    BY <1>5
  <2> QED BY <1>4, <1>6, <1>7, <2>1
<1>11. \A k \in 1..i1 : f[17 + k] = u[k]
  <2> TAKE k \in 1..i1
  <2>1. 17 + k \in 1..(17 + i1)
    BY <1>5
  <2> QED BY <1>6, <1>7, <2>1
<1> QED BY <1>7, <1>8, <1>9, <1>10, <1>11 DEF LaidOut, i1, i2

IpOf(data, c) == Raw!IpHeader(Raw!UDP, 8 + 2 * Len(data), c)
UdpOf(data, c) == Raw!UdpHeader(2 * Len(data), c)
Summed(data, c) == (Raw!Pseudo(2 * Len(data)) \o UdpOf(data, c)) \o data

(* The words of an IP header that hold two fields, as in IpHeader; lengths *)
(* the frames here have.                                                   *)
Version == 17664
Lives(proto) == 128 * 256 + proto
Protocols == {Raw!UDP, Raw!TCP}
Lengths == 0..200

LEMMA IpParts ==
    ASSUME NEW proto \in Protocols, NEW len \in Lengths, NEW c \in Words
    PROVE  LET h == Raw!IpHeader(proto, len, c)
           IN  /\ h \in Seq(Words) /\ Len(h) = 10
               /\ h[1] = Version /\ h[2] = 20 + len /\ h[3] = 0 /\ h[4] = 0
               /\ h[5] = Lives(proto) /\ h[6] = c
               /\ h[7] = Src[1] /\ h[8] = Src[2] /\ h[9] = Dst[1] /\ h[10] = Dst[2]
<1> DEFINE a == <<17664, 20 + len, 0, 0, 128 * 256 + proto, c>>
           b == a \o Src
           h == b \o Dst
<1>1. h = Raw!IpHeader(proto, len, c)
  BY DEF Raw!IpHeader
<1>2. /\ a \in Seq(Words) /\ Len(a) = 6
      /\ a[1] = Version /\ a[2] = 20 + len /\ a[3] = 0 /\ a[4] = 0 /\ a[5] = Lives(proto) /\ a[6] = c
  <2> DEFINE x == 20 + len
  <2>1. Version \in Words /\ 0 \in Words
    <3>1. Version \in Nat /\ Version < Raw!W
      BY SMT DEF Version, Raw!W
    <3>2. 0 < Raw!W
      BY WordWidth
    <3> QED BY <3>1, <3>2, WordWidth
  <2>2. x \in Words
    <3>1. len \in Nat /\ 20 + len \in Nat /\ 20 + len < Raw!W
      BY SMT DEF Raw!W, Lengths
    <3> QED BY <3>1, WordWidth
  <2>3. Lives(proto) \in Words
    <3>1. Lives(proto) \in Nat /\ Lives(proto) < Raw!W
      BY SMT DEF Raw!W, Lives, Protocols, Raw!UDP, Raw!TCP
    <3> QED BY <3>1, WordWidth
  <2>5. a = <<Version, x, 0, 0, Lives(proto), c>>
    BY DEF Version, Lives
  <2> HIDE DEF x, a
  <2>6. <<Version, x, 0, 0, Lives(proto), c>> \in Seq(Words) /\ Len(<<Version, x, 0, 0, Lives(proto), c>>) = 6
    BY <2>1, <2>2, <2>3
  <2>7. a[1] = Version /\ a[2] = x /\ a[3] = 0 /\ a[4] = 0 /\ a[5] = Lives(proto) /\ a[6] = c
    BY <2>5
  <2> QED BY <2>5, <2>6, <2>7 DEF x
<1> HIDE DEF a
<1>3. JoinedFrom(a, Src, b)
  BY <1>2, Addresses, Glued, Zenon
<1> HIDE DEF b
<1>4. /\ b \in Seq(Words) /\ Len(b) = 8 /\ \A k \in 1..6 : b[k] = a[k]
      /\ b[7] = Src[1] /\ b[8] = Src[2]
  <2>1. Len(Src) = 2
    BY Addresses
  <2>2. b \in Seq(Words) /\ Len(b) = 8 /\ \A k \in 1..6 : b[k] = a[k]
    BY <1>2, <1>3, <2>1 DEF JoinedFrom
  <2>3. \A k \in 1..2 : b[6 + k] = Src[k]
    BY <1>2, <1>3, <2>1 DEF JoinedFrom
  <2>4. b[6 + 1] = Src[1] /\ b[6 + 2] = Src[2]
    BY <2>3
  <2> QED BY <2>2, <2>4
<1>5. JoinedFrom(b, Dst, h)
  BY <1>4, Addresses, Glued, Zenon
<1> HIDE DEF h
<1>6. /\ h \in Seq(Words) /\ Len(h) = 10 /\ \A k \in 1..8 : h[k] = b[k]
      /\ h[9] = Dst[1] /\ h[10] = Dst[2]
  <2>1. Len(Dst) = 2
    BY Addresses
  <2>2. h \in Seq(Words) /\ Len(h) = 10 /\ \A k \in 1..8 : h[k] = b[k]
    BY <1>4, <1>5, <2>1 DEF JoinedFrom
  <2>3. \A k \in 1..2 : h[8 + k] = Dst[k]
    BY <1>4, <1>5, <2>1 DEF JoinedFrom
  <2>4. h[8 + 1] = Dst[1] /\ h[8 + 2] = Dst[2]
    BY <2>3
  <2> QED BY <2>2, <2>4
<1>7. \A k \in 1..6 : h[k] = a[k]
  BY <1>4, <1>6
<1>8. h[7] = Src[1] /\ h[8] = Src[2]
  BY <1>4, <1>6
<1>9. h[1] = a[1] /\ h[2] = a[2] /\ h[3] = a[3] /\ h[4] = a[4] /\ h[5] = a[5] /\ h[6] = a[6]
  BY <1>7
<1> QED BY <1>1, <1>2, <1>6, <1>8, <1>9

LEMMA Checked ==
    ASSUME NEW b \in Seq(Words), Len(b) <= Raw!W
    PROVE  Raw!Checksum(b) \in Words
<1>1. Raw!WordSum(b) \in Nat /\ Raw!WordSum(b) < Raw!W * Raw!W
  BY SumBounded
<1> QED BY <1>1, AddsUp DEF Raw!Checksum

(* The receiver adds up the IP header ...                                  *)
LEMMA IpChecked ==
    ASSUME NEW len \in Lengths
    PROVE  LET c == Raw!Checksum(Raw!IpHeader(Raw!UDP, len, 0))
           IN  c \in Words /\ Raw!Checksum(Raw!IpHeader(Raw!UDP, len, c)) = 0
<1> DEFINE b == Raw!IpHeader(Raw!UDP, len, 0)
           c == Raw!Checksum(b)
           d == Raw!IpHeader(Raw!UDP, len, c)
<1>1. 0 \in Words /\ Raw!UDP \in Protocols /\ 10 <= Raw!W
  <2>1. 0 \in Nat /\ 0 < Raw!W /\ 10 <= Raw!W
    BY SMT DEF Raw!W
  <2> QED BY <2>1, WordWidth DEF Raw!UDP, Protocols
<1>2. /\ b \in Seq(Words) /\ Len(b) = 10
      /\ b[1] = Version /\ b[2] = 20 + len /\ b[3] = 0 /\ b[4] = 0 /\ b[5] = Lives(Raw!UDP) /\ b[6] = 0
      /\ b[7] = Src[1] /\ b[8] = Src[2] /\ b[9] = Dst[1] /\ b[10] = Dst[2]
  BY <1>1, IpParts
<1> HIDE DEF b
<1>3. c \in Words
  BY <1>1, <1>2, Checked
<1> HIDE DEF c
<1>4. /\ d \in Seq(Words) /\ Len(d) = 10
      /\ d[1] = Version /\ d[2] = 20 + len /\ d[3] = 0 /\ d[4] = 0 /\ d[5] = Lives(Raw!UDP) /\ d[6] = c
      /\ d[7] = Src[1] /\ d[8] = Src[2] /\ d[9] = Dst[1] /\ d[10] = Dst[2]
  BY <1>1, <1>3, IpParts
<1> HIDE DEF d
<1>5. /\ d[1] = b[1] /\ d[2] = b[2] /\ d[3] = b[3] /\ d[4] = b[4] /\ d[5] = b[5]
      /\ d[7] = b[7] /\ d[8] = b[8] /\ d[9] = b[9] /\ d[10] = b[10]
  BY <1>2, <1>4
<1>6. \A k \in 1..10 : k # 6 => d[k] = b[k]
  <2>1. \A k \in 1..10 : k \in {1, 2, 3, 4, 5, 7, 8, 9, 10} \/ k = 6
    OBVIOUS
  <2> QED BY <1>5, <2>1
<1>7. 6 \in 1..10 /\ d[6] = Raw!Checksum(b)
  BY <1>4 DEF c
<1>8. 6 \in 1..Len(b) /\ Len(b) <= Raw!W /\ Len(d) = Len(b) /\ \A k \in 1..Len(b) : k # 6 => d[k] = b[k]
  BY <1>1, <1>2, <1>4, <1>6, <1>7
<1>9. Raw!Checksum(d) = 0
  BY <1>2, <1>4, <1>7, <1>8, ChecksumFits
<1> QED BY <1>3, <1>9 DEF b, c, d

LEMMA WordAt ==
    ASSUME NEW f
    PROVE  /\ Raw!At(f, 0) = f[1] /\ Raw!At(f, 2) = f[2] /\ Raw!At(f, 8) = f[5] /\ Raw!At(f, 12) = f[7]
           /\ Raw!At(f, 20) = f[11]
           /\ Raw!From(f, 8) = SubSeq(f, 5, Len(f)) /\ Raw!From(f, 14) = SubSeq(f, 8, Len(f))
           /\ Raw!From(f, 20) = SubSeq(f, 11, Len(f))
<1>1. /\ (0 \div 2) + 1 = 1 /\ (2 \div 2) + 1 = 2 /\ (8 \div 2) + 1 = 5 /\ (12 \div 2) + 1 = 7
      /\ (20 \div 2) + 1 = 11 /\ (14 \div 2) + 1 = 8
  BY SMT
<1>2. Raw!At(f, 0) = f[1] /\ Raw!At(f, 2) = f[2] /\ Raw!At(f, 8) = f[5] /\ Raw!At(f, 12) = f[7] /\ Raw!At(f, 20) = f[11]
  BY <1>1, Zenon DEF Raw!At
<1>3. /\ Raw!From(f, 8) = SubSeq(f, 5, Len(f)) /\ Raw!From(f, 14) = SubSeq(f, 8, Len(f))
      /\ Raw!From(f, 20) = SubSeq(f, 11, Len(f))
  BY <1>1, Zenon DEF Raw!From
<1> QED BY <1>2, <1>3

LEMMA UdpParts ==
    ASSUME NEW data \in Seq(Words), Len(data) \in 0..64, NEW c \in Words
    PROVE  LET u == UdpOf(data, c)
           IN  /\ u \in Seq(Words) /\ Len(u) = 4
               /\ u[1] = Port /\ u[2] = Port /\ u[3] = 8 + 2 * Len(data) /\ u[4] = c
<1> DEFINE x == 8 + 2 * Len(data)
           u == <<Port, Port, x, c>>
<1>1. u = UdpOf(data, c)
  BY DEF UdpOf, Raw!UdpHeader
<1>2. x \in Words
  <2>1. x \in Nat /\ x < Raw!W
    <3>1. \A l \in 0..64 : 8 + 2 * l \in Nat /\ 8 + 2 * l < Raw!W
      BY SMT DEF Raw!W
    <3> QED BY <3>1, Zenon
  <2> QED BY <2>1, WordWidth
<1> HIDE DEF x
<1>3. u \in Seq(Words) /\ Len(u) = 4
  BY <1>2, Addresses
<1>4. u[1] = Port /\ u[2] = Port /\ u[3] = x /\ u[4] = c
  OBVIOUS
<1> QED BY <1>1, <1>3, <1>4 DEF x

LEMMA PseudoSeq ==
    ASSUME NEW data \in Seq(Words), Len(data) \in 0..64
    PROVE  Raw!Pseudo(2 * Len(data)) \in Seq(Words) /\ Len(Raw!Pseudo(2 * Len(data))) = 6
<1> DEFINE x == 8 + 2 * Len(data)
           a == Src \o Dst
           b == <<Raw!UDP, x>>
           p == a \o b
<1>1. p = Raw!Pseudo(2 * Len(data))
  BY DEF Raw!Pseudo
<1>2. x \in Words /\ Raw!UDP \in Words
  <2>1. x \in Nat /\ x < Raw!W
    <3>1. \A l \in 0..64 : 8 + 2 * l \in Nat /\ 8 + 2 * l < Raw!W
      BY SMT DEF Raw!W
    <3> QED BY <3>1, Zenon
  <2>2. Raw!UDP \in Nat /\ Raw!UDP < Raw!W
    BY SMT DEF Raw!W, Raw!UDP
  <2> QED BY <2>1, <2>2, WordWidth
<1> HIDE DEF x
<1>3. b \in Seq(Words) /\ Len(b) = 2
  BY <1>2
<1> HIDE DEF b
<1>4. JoinedFrom(Src, Dst, a)
  BY Addresses, Glued, Zenon
<1> HIDE DEF a
<1>5. a \in Seq(Words) /\ Len(a) = 4
  BY <1>4, Addresses DEF JoinedFrom
<1>6. JoinedFrom(a, b, p)
  BY <1>3, <1>5, Glued, Zenon
<1> HIDE DEF p
<1> QED BY <1>1, <1>3, <1>5, <1>6 DEF JoinedFrom

LEMMA SummedParts ==
    ASSUME NEW data \in Seq(Words), Len(data) \in 0..64, NEW c \in Words
    PROVE  LET t == Summed(data, c)
           IN  /\ t \in Seq(Words) /\ Len(t) = 10 + Len(data)
               /\ \A k \in 1..6 : t[k] = Raw!Pseudo(2 * Len(data))[k]
               /\ \A k \in 1..4 : t[6 + k] = UdpOf(data, c)[k]
               /\ \A k \in 1..Len(data) : t[10 + k] = data[k]
<1> DEFINE p == Raw!Pseudo(2 * Len(data))
           u == UdpOf(data, c)
           a == p \o u
           t == a \o data
           l == Len(data)
<1>1. t = Summed(data, c)
  BY DEF Summed
<1>2. p \in Seq(Words) /\ Len(p) = 6 /\ u \in Seq(Words) /\ Len(u) = 4 /\ l \in Nat
  BY PseudoSeq, UdpParts, LenProperties
<1> HIDE DEF p, u
<1>3. JoinedFrom(p, u, a)
  BY <1>2, Glued, Zenon
<1> HIDE DEF a
<1>4. a \in Seq(Words) /\ Len(a) = 10 /\ (\A k \in 1..6 : a[k] = p[k]) /\ \A k \in 1..4 : a[6 + k] = u[k]
  BY <1>2, <1>3 DEF JoinedFrom
<1>5. JoinedFrom(a, data, t)
  BY <1>4, Glued, Zenon
<1> HIDE DEF t
<1>6. t \in Seq(Words) /\ Len(t) = 10 + l /\ (\A k \in 1..10 : t[k] = a[k]) /\ \A k \in 1..l : t[10 + k] = data[k]
  BY <1>4, <1>5 DEF JoinedFrom
<1> HIDE DEF l
<1>7. \A k \in 1..6 : t[k] = p[k]
  BY <1>4, <1>6
<1>8. \A k \in 1..4 : t[6 + k] = u[k]
  <2> TAKE k \in 1..4
  <2>1. 6 + k \in 1..10
    OBVIOUS
  <2> QED BY <1>4, <1>6, <2>1
<1> QED BY <1>1, <1>6, <1>7, <1>8 DEF p, u, l

(* ... and pseudo header, header and data.                                 *)
LEMMA UdpChecked ==
    ASSUME NEW data \in Seq(Words), Len(data) \in 0..64
    PROVE  LET c == Raw!Checksum(Summed(data, 0))
           IN  c \in Words /\ Raw!Checksum(Summed(data, c)) = 0
<1> DEFINE l == Len(data)
           b == Summed(data, 0)
           c == Raw!Checksum(b)
           d == Summed(data, c)
           u == UdpOf(data, 0)
           v == UdpOf(data, c)
           p == Raw!Pseudo(2 * Len(data))
<1>1. 0 \in Words /\ l \in Nat /\ 10 + l <= Raw!W
  <2>1. \A x \in 0..64 : 0 \in Nat /\ 0 < Raw!W /\ 10 + x <= Raw!W
    BY SMT DEF Raw!W
  <2>2. 0 \in Nat /\ 0 < Raw!W /\ 10 + l <= Raw!W
    BY <2>1, Zenon
  <2> QED BY <2>2, WordWidth, LenProperties
<1>2. /\ b \in Seq(Words) /\ Len(b) = 10 + l
      /\ \A k \in 1..6 : b[k] = p[k]
      /\ \A k \in 1..4 : b[6 + k] = u[k]
      /\ \A k \in 1..l : b[10 + k] = data[k]
  BY <1>1, SummedParts
<1>3. u[1] = Port /\ u[2] = Port /\ u[3] = 8 + 2 * l /\ u[4] = 0
  BY <1>1, UdpParts
<1> HIDE DEF b
<1>4. c \in Words
  BY <1>1, <1>2, Checked
<1>5. /\ d \in Seq(Words) /\ Len(d) = 10 + l
      /\ \A k \in 1..6 : d[k] = p[k]
      /\ \A k \in 1..4 : d[6 + k] = v[k]
      /\ \A k \in 1..l : d[10 + k] = data[k]
  <2> HIDE DEF c
  <2> QED BY <1>4, SummedParts
<1>6. v[1] = Port /\ v[2] = Port /\ v[3] = 8 + 2 * l /\ v[4] = c
  <2> HIDE DEF c
  <2> QED BY <1>4, UdpParts
<1> HIDE DEF c, d, u, v, p, l
<1>7. b[6 + 4] = 0 /\ d[6 + 4] = c /\ \A k \in 1..3 : d[6 + k] = b[6 + k]
  <2>1. \A k \in 1..3 : k \in 1..4 /\ k \in {1, 2, 3}
    OBVIOUS
  <2>2. \A k \in {1, 2, 3} : u[k] = v[k]
    BY <1>3, <1>6
  <2> QED BY <1>2, <1>3, <1>5, <1>6, <2>1, <2>2
<1>8. \A k \in 1..(10 + l) : k # 10 => d[k] = b[k]
  <2> TAKE k \in 1..(10 + l)
  <2> HAVE k # 10
  <2>1. CASE k \in 1..6
    BY <1>2, <1>5, <2>1
  <2>2. CASE k \in 7..9
    <3>1. k - 6 \in 1..3 /\ 6 + (k - 6) = k
      BY <2>2
    <3> QED BY <1>7, <3>1
  <2>3. CASE k \in 11..(10 + l)
    <3>1. k - 10 \in 1..l /\ 10 + (k - 10) = k
      BY <1>1, <2>3
    <3> QED BY <1>2, <1>5, <3>1
  <2> QED BY <1>1, <2>1, <2>2, <2>3
<1>9. 10 \in 1..Len(b) /\ Len(b) <= Raw!W /\ Len(d) = Len(b) /\ \A k \in 1..Len(b) : k # 10 => d[k] = b[k]
  BY <1>1, <1>2, <1>5, <1>8
<1>10. b[10] = 0 /\ d[10] = Raw!Checksum(b)
  BY <1>7 DEF c
<1>11. Raw!Checksum(d) = 0
  BY <1>2, <1>5, <1>9, <1>10, ChecksumFits
<1> QED BY <1>4, <1>11 DEF b, c, d

Viewed(f, h, u, d) ==
    /\ Raw!At(f, 12) = Raw!EtherIP /\ Len(f) = 17 + Len(u) + Len(d)
    /\ Raw!Ip(f) \in Seq(Words) /\ Len(Raw!Ip(f)) = 10 + Len(u) + Len(d)
    /\ \A k \in 1..10 : Raw!Ip(f)[k] = h[k]
    /\ \A k \in 1..Len(u) : Raw!Ip(f)[10 + k] = u[k]
    /\ \A k \in 1..Len(d) : Raw!Ip(f)[10 + Len(u) + k] = d[k]

LEMMA PacketViews ==
    ASSUME NEW h \in Seq(Words), Len(h) = 10, NEW u \in Seq(Words), NEW d \in Seq(Words)
    PROVE  Viewed(Packet(h, u, d), h, u, d)
<1> DEFINE f == Packet(h, u, d)
           p == Raw!Ip(f)
           i1 == Len(u)
           i2 == Len(d)
<1>1. i1 \in Nat /\ i2 \in Nat
  BY LenProperties
<1>2. /\ f \in Seq(Words) /\ Len(f) = 17 + i1 + i2
      /\ f[7] = Raw!EtherIP
      /\ \A k \in 1..10 : f[7 + k] = h[k]
      /\ \A k \in 1..i1 : f[17 + k] = u[k]
      /\ \A k \in 1..i2 : f[17 + i1 + k] = d[k]
  <2>1. LaidOut(f, h, u, d)
    BY PacketParts, Zenon
  <2> HIDE DEF f
  <2> QED BY <2>1 DEF LaidOut
<1>3. p = SubSeq(f, 8, Len(f)) /\ Raw!At(f, 12) = f[7]
  BY WordAt, Zenon DEF Raw!Ip
<1> HIDE DEF f, p, i1, i2
<1>4. 8 \in 1..(Len(f) + 1) /\ Len(f) \in 0..Len(f)
  BY <1>1, <1>2, SMTT(30)
<1>5. /\ p \in Seq(Words) /\ Len(p) = IF 8 <= Len(f) THEN Len(f) - 8 + 1 ELSE 0
      /\ \A k \in 1..(Len(f) - 8 + 1) : p[k] = f[8 + k - 1]
  BY <1>2, <1>3, <1>4, PartOf, SMTT(40)
<1>6. p \in Seq(Words) /\ Len(p) = 10 + i1 + i2 /\ \A k \in 1..(10 + i1 + i2) : p[k] = f[7 + k]
  <2>1. Len(f) - 8 + 1 = 10 + i1 + i2 /\ 8 <= Len(f) /\ \A k \in Int : 8 + k - 1 = 7 + k
    BY <1>1, <1>2
  <2> QED BY <1>5, <2>1
<1>7. \A k \in 1..10 : p[k] = h[k]
  <2> TAKE k \in 1..10
  <2>1. k \in 1..(10 + i1 + i2)
    BY <1>1
  <2> QED BY <1>2, <1>6, <2>1
<1>8. \A k \in 1..i1 : p[10 + k] = u[k]
  <2> TAKE k \in 1..i1
  <2>1. 10 + k \in 1..(10 + i1 + i2) /\ 7 + (10 + k) = 17 + k
    BY <1>1
  <2>2. p[10 + k] = f[17 + k]
    BY <1>6, <2>1
  <2> QED BY <1>2, <2>2
<1>9. \A k \in 1..i2 : p[10 + i1 + k] = d[k]
  <2> TAKE k \in 1..i2
  <2>1. 10 + i1 + k \in 1..(10 + i1 + i2) /\ 7 + (10 + i1 + k) = 17 + i1 + k
    BY <1>1
  <2>2. p[10 + i1 + k] = f[17 + i1 + k]
    BY <1>6, <2>1
  <2> QED BY <1>2, <2>2
<1> QED BY <1>2, <1>3, <1>6, <1>7, <1>8, <1>9 DEF Viewed, f, p, i1, i2

LEMMA UdpSeen == Lives(Raw!UDP) % 256 = Raw!UDP
BY SMT DEF Lives, Raw!UDP

LEMMA TcpSeen == Lives(Raw!TCP) % 256 # Raw!UDP
BY SMT DEF Lives, Raw!UDP, Raw!TCP

LEMMA HeaderLength == ((Version \div 256) % 16) * 4 = 20
BY SMT DEF Version

LEMMA KindsDiffer == Raw!EtherARP # Raw!EtherIP /\ Raw!EtherARP \in Words
<1>1. Raw!EtherARP # Raw!EtherIP /\ Raw!EtherARP \in Nat /\ Raw!EtherARP < Raw!W
  BY SMT DEF Raw!EtherARP, Raw!EtherIP, Raw!W
<1> QED BY <1>1, WordWidth

LEMMA Regroup == \A s, t, u \in Seq(Words) : (s \o t) \o u = s \o (t \o u)
<1> TAKE s, t, u \in Seq(Words)
<1> QED BY ConcatAssociative

(* What is seen of a datagram. *)
SeenRight(f, data) ==
    LET udp == Raw!From(Raw!Ip(f), 20)
        view == Raw!Analyze(f)
    IN  /\ Raw!At(f, 12) = Raw!EtherIP /\ Raw!At(Raw!Ip(f), 8) % 256 = Raw!UDP
        /\ Len(f) = 21 + Len(data)
        /\ Raw!Checksum(SubSeq(Raw!Ip(f), 1, 10)) = 0
        /\ Raw!Checksum(Raw!Pseudo(2 * Len(udp) - 8) \o udp) = 0
        /\ view.data = data /\ view.sport = Port /\ view.src = Src /\ view.dst = Dst

LEMMA FrameSeen ==
    ASSUME NEW data \in Payloads
    PROVE  SeenRight(Raw!Frame(data), data)
<1> DEFINE l == Len(data)
           h == Raw!IpHeader(Raw!UDP, 8 + 2 * l, Raw!Checksum(Raw!IpHeader(Raw!UDP, 8 + 2 * l, 0)))
           c == Raw!Checksum(Summed(data, 0))
           u == UdpOf(data, c)
           f == Raw!Frame(data)
           p == Raw!Ip(f)
           udp == Raw!From(p, 20)
<1>1. data \in Seq(Words) /\ l \in 0..64
  BY Addresses
<1>2. f = Packet(h, u, data)
  BY DEF Raw!Frame, Packet, UdpOf, Summed
<1>3. /\ h \in Seq(Words) /\ Len(h) = 10 /\ h[1] = Version /\ h[5] = Lives(Raw!UDP)
      /\ h[7] = Src[1] /\ h[8] = Src[2] /\ h[9] = Dst[1] /\ h[10] = Dst[2]
      /\ Raw!Checksum(h) = 0
  <2> DEFINE len == 8 + 2 * l
             d == Raw!Checksum(Raw!IpHeader(Raw!UDP, len, 0))
  <2>1. len \in Lengths /\ Raw!UDP \in Protocols
    <3>1. \A x \in 0..64 : 8 + 2 * x \in Lengths
      BY DEF Lengths
    <3> QED BY <1>1, <3>1, Zenon DEF Protocols
  <2> HIDE DEF len
  <2>2. d \in Words /\ Raw!Checksum(Raw!IpHeader(Raw!UDP, len, d)) = 0
    BY <2>1, IpChecked
  <2> HIDE DEF d
  <2> DEFINE g == Raw!IpHeader(Raw!UDP, len, d)
  <2>3. /\ g \in Seq(Words) /\ Len(g) = 10 /\ g[1] = Version /\ g[5] = Lives(Raw!UDP)
        /\ g[7] = Src[1] /\ g[8] = Src[2] /\ g[9] = Dst[1] /\ g[10] = Dst[2]
    BY <2>1, <2>2, IpParts
  <2>4. g = h
    BY DEF d, len
  <2> HIDE DEF g, h
  <2>5. Raw!Checksum(g) = 0
    BY <2>2 DEF g
  <2> QED BY <2>3, <2>4, <2>5
<1>4. c \in Words /\ Raw!Checksum(Summed(data, c)) = 0
  BY <1>1, UdpChecked
<1> HIDE DEF c
<1>5. u \in Seq(Words) /\ Len(u) = 4 /\ u[1] = Port
  BY <1>1, <1>4, UdpParts
<1>a. Summed(data, c) = (Raw!Pseudo(2 * l) \o u) \o data
  BY DEF Summed
<1> HIDE DEF h, u, f
<1>6. /\ Raw!At(f, 12) = Raw!EtherIP /\ Len(f) = 21 + l
      /\ p \in Seq(Words) /\ Len(p) = 14 + l
      /\ \A k \in 1..10 : p[k] = h[k]
      /\ \A k \in 1..4 : p[10 + k] = u[k]
      /\ \A k \in 1..l : p[14 + k] = data[k]
  <2> HIDE DEF l
  <2>0. h \in Seq(Words) /\ Len(h) = 10 /\ u \in Seq(Words) /\ data \in Seq(Words) /\ l = Len(data)
    BY <1>1, <1>3, <1>5 DEF l
  <2> DEFINE g == Packet(h, u, data)
  <2>a. /\ Raw!At(g, 12) = Raw!EtherIP /\ Len(g) = 17 + Len(u) + Len(data)
        /\ Raw!Ip(g) \in Seq(Words) /\ Len(Raw!Ip(g)) = 10 + Len(u) + Len(data)
        /\ \A k \in 1..10 : Raw!Ip(g)[k] = h[k]
        /\ \A k \in 1..Len(u) : Raw!Ip(g)[10 + k] = u[k]
        /\ \A k \in 1..Len(data) : Raw!Ip(g)[10 + Len(u) + k] = data[k]
    <3>1. Viewed(g, h, u, data)
      BY <2>0, PacketViews, Zenon
    <3> HIDE DEF g
    <3> QED BY <3>1, Zenon DEF Viewed
  <2> HIDE DEF g
  <2>1. /\ Raw!At(g, 12) = Raw!EtherIP /\ Len(g) = 17 + Len(u) + l
        /\ Raw!Ip(g) \in Seq(Words) /\ Len(Raw!Ip(g)) = 10 + Len(u) + l
        /\ \A k \in 1..10 : Raw!Ip(g)[k] = h[k]
        /\ \A k \in 1..Len(u) : Raw!Ip(g)[10 + k] = u[k]
        /\ \A k \in 1..l : Raw!Ip(g)[10 + Len(u) + k] = data[k]
    BY <2>a DEF l
  <2>2. g = f
    BY <1>2 DEF g
  <2>3. /\ Raw!At(f, 12) = Raw!EtherIP /\ Len(f) = 17 + Len(u) + l
        /\ p \in Seq(Words) /\ Len(p) = 10 + Len(u) + l
        /\ \A k \in 1..10 : p[k] = h[k]
        /\ \A k \in 1..Len(u) : p[10 + k] = u[k]
        /\ \A k \in 1..l : p[10 + Len(u) + k] = data[k]
    BY <2>1, <2>2, Zenon
  <2>4. Len(u) = 4 /\ 17 + 4 = 21 /\ 10 + 4 = 14
    BY <1>5
  <2> HIDE DEF p
  <2> QED BY <2>3, <2>4
<1> HIDE DEF p, l
<1>7. Raw!At(p, 8) = Lives(Raw!UDP) /\ Raw!At(p, 0) = Version
  <2>1. p[1] = h[1] /\ p[5] = h[5]
    BY <1>6
  <2>2. Raw!At(p, 8) = p[5] /\ Raw!At(p, 0) = p[1]
    BY WordAt
  <2> QED BY <1>3, <2>1, <2>2
<1>8. udp \in Seq(Words) /\ Len(udp) = 4 + l /\ \A k \in 1..(4 + l) : udp[k] = p[10 + k]
  <2>1. udp = SubSeq(p, 11, Len(p))
    BY WordAt
  <2> HIDE DEF udp
  <2>2. 11 \in 1..(Len(p) + 1) /\ Len(p) \in 0..Len(p)
    BY <1>1, <1>6
  <2>3. /\ udp \in Seq(Words) /\ Len(udp) = IF 11 <= Len(p) THEN Len(p) - 11 + 1 ELSE 0
        /\ \A k \in 1..(Len(p) - 11 + 1) : udp[k] = p[11 + k - 1]
    BY <1>6, <2>1, <2>2, PartOf, SMTT(40)
  <2>4. \A m \in Nat : (14 + m) - 11 + 1 = 4 + m /\ 11 <= 14 + m
    OBVIOUS
  <2>5. l \in Nat
    BY <1>1
  <2>6. Len(p) - 11 + 1 = 4 + l /\ 11 <= Len(p)
    BY <1>6, <2>4, <2>5, Zenon
  <2>7. \A k \in Int : 11 + k - 1 = 10 + k
    OBVIOUS
  <2> QED BY <2>3, <2>6, <2>7
<1>9. udp = u \o data
  <2> HIDE DEF udp
  <2> DEFINE v == u \o data
  <2>1. JoinedFrom(u, data, v)
    BY <1>1, <1>5, Glued, Zenon
  <2> HIDE DEF v
  <2>2. /\ v \in Seq(Words) /\ Len(v) = 4 + l /\ (\A k \in 1..4 : v[k] = u[k])
        /\ \A k \in 1..l : v[4 + k] = data[k]
    BY <1>5, <2>1 DEF JoinedFrom, l
  <2>3. \A k \in 1..(4 + l) : udp[k] = v[k]
    <3> TAKE k \in 1..(4 + l)
    <3>1. CASE k \in 1..4
      BY <1>6, <1>8, <2>2, <3>1
    <3>2. CASE k \in 5..(4 + l)
      <4>1. k - 4 \in 1..l /\ 14 + (k - 4) = 10 + k /\ 4 + (k - 4) = k
        BY <1>1, <3>2
      <4>2. udp[k] = p[10 + k]
        BY <1>8
      <4>3. p[10 + k] = data[k - 4]
        BY <1>6, <4>1
      <4>4. v[k] = data[k - 4]
        BY <2>2, <4>1
      <4> QED BY <4>2, <4>3, <4>4
    <3> QED BY <1>1, <3>1, <3>2
  <2>4. udp = v
    BY <1>8, <2>2, <2>3, SeqEqual
  <2> QED BY <2>4 DEF v
<1>10. Raw!Checksum(Raw!Pseudo(2 * Len(udp) - 8) \o udp) = 0
  <2>1. 2 * Len(udp) - 8 = 2 * l
    BY <1>1, <1>8
  <2> DEFINE q == Raw!Pseudo(2 * l)
  <2>2. q \in Seq(Words)
    BY <1>1, PseudoSeq DEF l
  <2> HIDE DEF q, udp
  <2>3. q \o (u \o data) = (q \o u) \o data
    BY <1>1, <1>5, <2>2, Regroup
  <2>4. Raw!Checksum((q \o u) \o data) = 0
    BY <1>4, <1>a DEF q
  <2>5. Raw!Pseudo(2 * Len(udp) - 8) = q
    BY <2>1 DEF q
  <2> QED BY <1>9, <2>3, <2>4, <2>5
<1> HIDE DEF udp
<1>11. SubSeq(p, 1, 10) = h
  <2> DEFINE v == SubSeq(p, 1, 10)
  <2>1. 1 \in 1..(Len(p) + 1) /\ 10 \in 0..Len(p)
    BY <1>1, <1>6
  <2>2. /\ v \in Seq(Words) /\ Len(v) = IF 1 <= 10 THEN 10 - 1 + 1 ELSE 0
        /\ \A k \in 1..(10 - 1 + 1) : v[k] = p[1 + k - 1]
    BY <1>6, <2>1, PartOf
  <2> HIDE DEF v
  <2>3. Len(v) = 10 /\ \A k \in 1..10 : v[k] = p[k]
    BY <2>2
  <2>4. \A k \in 1..10 : v[k] = h[k]
    BY <1>6, <2>3
  <2>5. v = h
    BY <1>3, <2>2, <2>3, <2>4, SeqEqual
  <2> QED BY <2>5 DEF v
<1>12. SubSeq(p, 7, 8) = Src /\ SubSeq(p, 9, 10) = Dst
  <2>1. \A k \in {7, 9} : /\ SubSeq(p, k, k + 1) \in Seq(Words) /\ Len(SubSeq(p, k, k + 1)) = 2
                          /\ SubSeq(p, k, k + 1)[1] = p[k] /\ SubSeq(p, k, k + 1)[2] = p[k + 1]
    <3> TAKE k \in {7, 9}
    <3> DEFINE v == SubSeq(p, k, k + 1)
    <3>1. k \in 1..(Len(p) + 1) /\ k + 1 \in 0..Len(p) /\ k <= k + 1 /\ (k + 1) - k + 1 = 2 /\ k + 1 - k + 1 = 2
      BY <1>1, <1>6
    <3>2. /\ v \in Seq(Words) /\ Len(v) = IF k <= k + 1 THEN (k + 1) - k + 1 ELSE 0
          /\ \A j \in 1..((k + 1) - k + 1) : v[j] = p[k + j - 1]
      BY <1>6, <3>1, PartOf, SMTT(40)
    <3> HIDE DEF v
    <3>3. v \in Seq(Words) /\ Len(v) = 2 /\ \A j \in 1..2 : v[j] = p[k + j - 1]
      BY <3>1, <3>2
    <3>4. v[1] = p[k + 1 - 1] /\ v[2] = p[k + 2 - 1] /\ k + 1 - 1 = k /\ k + 2 - 1 = k + 1
      BY <3>3
    <3> QED BY <3>3, <3>4 DEF v
  <2>2. p[7] = Src[1] /\ p[8] = Src[2] /\ p[9] = Dst[1] /\ p[10] = Dst[2]
    <3>1. p[7] = h[7] /\ p[8] = h[8] /\ p[9] = h[9] /\ p[10] = h[10]
      BY <1>6
    <3> QED BY <1>3, <3>1
  <2>3. \A s, t \in Seq(Words) : Len(s) = 2 /\ Len(t) = 2 /\ s[1] = t[1] /\ s[2] = t[2] => s = t
    <3> TAKE s, t \in Seq(Words)
    <3> HAVE Len(s) = 2 /\ Len(t) = 2 /\ s[1] = t[1] /\ s[2] = t[2]
    <3>1. \A k \in 1..Len(s) : s[k] = t[k]
      OBVIOUS
    <3> QED BY <3>1, SeqEqual
  <2>4. 7 + 1 = 8 /\ 9 + 1 = 10
    OBVIOUS
  <2>5. /\ SubSeq(p, 7, 8) \in Seq(Words) /\ Len(SubSeq(p, 7, 8)) = 2
        /\ SubSeq(p, 7, 8)[1] = Src[1] /\ SubSeq(p, 7, 8)[2] = Src[2]
    BY <2>1, <2>2, <2>4
  <2>6. /\ SubSeq(p, 9, 10) \in Seq(Words) /\ Len(SubSeq(p, 9, 10)) = 2
        /\ SubSeq(p, 9, 10)[1] = Dst[1] /\ SubSeq(p, 9, 10)[2] = Dst[2]
    BY <2>1, <2>2, <2>4
  <2> QED BY <2>3, <2>5, <2>6, Addresses, Zenon
<1>13. Raw!Above(f) = udp
  BY <1>7, HeaderLength, Zenon DEF Raw!Above, p, udp
<1>14. Raw!At(udp, 0) = Port
  <2>1. Raw!At(udp, 0) = udp[1]
    BY WordAt
  <2>2. 1 \in 1..(4 + l)
    BY <1>1
  <2>3. udp[1] = p[10 + 1]
    BY <1>8, <2>2
  <2>4. p[10 + 1] = u[1]
    BY <1>6
  <2> QED BY <1>5, <2>1, <2>3, <2>4
<1>15. Raw!From(udp, 8) = data
  <2> DEFINE v == SubSeq(udp, 5, Len(udp))
  <2>1. Raw!From(udp, 8) = v
    BY WordAt
  <2>2. 5 \in 1..(Len(udp) + 1) /\ Len(udp) \in 0..Len(udp)
    <3>1. \A m \in 0..64 : 5 \in 1..((4 + m) + 1) /\ 4 + m \in 0..(4 + m)
      OBVIOUS
    <3>2. l \in 0..64 /\ Len(udp) = 4 + l
      BY <1>1, <1>8
    <3> QED BY <3>1, <3>2, Zenon
  <2>3. /\ v \in Seq(Words) /\ Len(v) = IF 5 <= Len(udp) THEN Len(udp) - 5 + 1 ELSE 0
        /\ \A k \in 1..(Len(udp) - 5 + 1) : v[k] = udp[5 + k - 1]
    BY <1>8, <2>2, PartOf
  <2> HIDE DEF v
  <2>4. Len(v) = l /\ \A k \in 1..l : v[k] = udp[4 + k]
    <3>1. \A m \in Nat : (4 + m) - 5 + 1 = m /\ (4 + m) + 1 = 5 + m
      OBVIOUS
    <3>2. l \in Nat
      BY <1>1
    <3>3. Len(udp) - 5 + 1 = l
      BY <1>8, <3>1, <3>2, Zenon
    <3>4. \A k \in Int : 5 + k - 1 = 4 + k
      OBVIOUS
    <3>5. Len(v) = l
      BY <1>8, <2>3, <3>2, <3>3
    <3> QED BY <2>3, <3>3, <3>4, <3>5
  <2>5. \A k \in 1..l : v[k] = data[k]
    <3> TAKE k \in 1..l
    <3>1. 4 + k \in 1..(4 + l) /\ 10 + (4 + k) = 14 + k
      BY <1>1
    <3>2. udp[4 + k] = p[14 + k]
      BY <1>8, <3>1
    <3> QED BY <1>6, <2>4, <3>2
  <2>6. v = data
    BY <1>1, <2>3, <2>4, <2>5, SeqEqual DEF l
  <2> QED BY <2>1, <2>6
<1>16. ~(Raw!At(p, 8) % 256 = Raw!TCP) /\ Raw!At(p, 8) % 256 = Raw!UDP
  <2>1. Raw!UDP # Raw!TCP
    BY DEF Raw!UDP, Raw!TCP
  <2> QED BY <1>7, <2>1, UdpSeen
<1>17. /\ Raw!Analyze(f).data = Raw!From(udp, 8) /\ Raw!Analyze(f).sport = Raw!At(udp, 0)
       /\ Raw!Analyze(f).src = SubSeq(p, 7, 8) /\ Raw!Analyze(f).dst = SubSeq(p, 9, 10)
  <2> DEFINE t == Raw!At(Raw!Ip(f), 8) % 256 = Raw!TCP
             header == IF t THEN (Raw!At(Raw!Above(f), 12) \div 4096) * 4 ELSE 8
             r == [above |-> IF t THEN "tcp" ELSE "udp",
                   src |-> SubSeq(Raw!Ip(f), 7, 8), dst |-> SubSeq(Raw!Ip(f), 9, 10),
                   sport |-> Raw!At(Raw!Above(f), 0), dport |-> Raw!DstPort(Raw!At(Raw!Above(f), 0)),
                   data |-> Raw!From(Raw!Above(f), header)]
  <2>1. Raw!Analyze(f) = IF Raw!At(f, 12) # Raw!EtherIP
                           THEN [above |-> IF Raw!At(f, 12) = Raw!EtherARP THEN "arp" ELSE "other"] ELSE r
    BY DEF Raw!Analyze
  <2>2. Raw!Analyze(f) = r
    <3> HIDE DEF r
    <3> QED BY <1>6, <2>1, Zenon
  <2>3. ~t
    BY <1>16 DEF p
  <2> HIDE DEF t
  <2>4. header = 8
    BY <2>3
  <2> HIDE DEF header
  <2>5. /\ r.data = Raw!From(Raw!Above(f), header) /\ r.sport = Raw!At(Raw!Above(f), 0)
        /\ r.src = SubSeq(Raw!Ip(f), 7, 8) /\ r.dst = SubSeq(Raw!Ip(f), 9, 10)
    OBVIOUS
  <2> HIDE DEF r
  <2>6. p = Raw!Ip(f)
    BY DEF p
  <2> QED BY <1>13, <2>2, <2>4, <2>5, <2>6
<1>18. /\ Raw!Analyze(f).data = data /\ Raw!Analyze(f).sport = Port
       /\ Raw!Analyze(f).src = Src /\ Raw!Analyze(f).dst = Dst
  BY <1>12, <1>14, <1>15, <1>17
<1>19. Raw!Checksum(SubSeq(p, 1, 10)) = 0
  BY <1>3, <1>11
<1> QED BY <1>6, <1>10, <1>16, <1>18, <1>19, Zenon DEF SeenRight, f, p, l, udp

(* No other frame is taken for a datagram. *)
OtherKind(f) == ~(Raw!At(f, 12) = Raw!EtherIP /\ Raw!At(Raw!Ip(f), 8) % 256 = Raw!UDP)

LEMMA TcpPassed ==
    ASSUME NEW data \in Payloads
    PROVE  OtherKind(Raw!TcpFrame(data))
<1> DEFINE l == Len(data)
           h == Raw!IpHeader(Raw!TCP, 20 + 2 * l, 0)
           u == <<Port, Port, 0, 0, 0, 0, 5 * 4096, 0, 0, 0>>
           f == Packet(h, u, data)
<1>1. data \in Seq(Words) /\ l \in 0..64 /\ 0 \in Words
  <2>1. 0 \in Nat /\ 0 < Raw!W
    BY SMT DEF Raw!W
  <2> QED BY <2>1, Addresses, WordWidth
<1>2. f = Raw!TcpFrame(data)
  BY DEF Raw!TcpFrame, Packet
<1>3. h \in Seq(Words) /\ Len(h) = 10 /\ h[5] = Lives(Raw!TCP)
  <2> DEFINE len == 20 + 2 * l
  <2>1. len \in Lengths /\ Raw!TCP \in Protocols
    <3>1. \A x \in 0..64 : 20 + 2 * x \in Lengths
      BY DEF Lengths
    <3> QED BY <1>1, <3>1, Zenon DEF Protocols
  <2> HIDE DEF len
  <2> DEFINE g == Raw!IpHeader(Raw!TCP, len, 0)
  <2>2. g \in Seq(Words) /\ Len(g) = 10 /\ g[5] = Lives(Raw!TCP)
    BY <1>1, <2>1, IpParts
  <2>3. g = h
    BY DEF len
  <2> HIDE DEF g, h
  <2> QED BY <2>2, <2>3
<1>4. u \in Seq(Words)
  <2> DEFINE w == 5 * 4096
  <2>1. w \in Words
    <3>1. w \in Nat /\ w < Raw!W
      BY SMT DEF Raw!W
    <3> QED BY <3>1, WordWidth
  <2> HIDE DEF w
  <2>2. <<Port, Port, 0, 0, 0, 0, w, 0, 0, 0>> \in Seq(Words)
    BY <1>1, <2>1, Addresses
  <2>3. <<Port, Port, 0, 0, 0, 0, w, 0, 0, 0>> = u
    BY DEF w
  <2> HIDE DEF u
  <2> QED BY <2>2, <2>3
<1> HIDE DEF h, u, l
<1>5. Raw!Ip(f)[5] = h[5]
  <2>1. Viewed(f, h, u, data)
    BY <1>1, <1>3, <1>4, PacketViews, Zenon
  <2> HIDE DEF f
  <2>2. \A k \in 1..10 : Raw!Ip(f)[k] = h[k]
    BY <2>1 DEF Viewed
  <2> QED BY <2>2
<1>6. Raw!At(Raw!Ip(f), 8) = Raw!Ip(f)[5]
  BY WordAt, Zenon
<1> HIDE DEF f
<1> QED BY <1>2, <1>3, <1>5, <1>6, TcpSeen DEF OtherKind

LEMMA ArpPassed ==
    ASSUME NEW dst \in Seq(Words), Len(dst) = 3, NEW src \in Seq(Words), Len(src) = 3, NEW op \in Words
    PROVE  OtherKind(Raw!ArpFrame(dst, src, op))
<1> DEFINE a == dst \o src
           e == <<Raw!EtherARP, 1, Raw!EtherIP, 6 * 256 + 4, op>>
           b == a \o e
           f == b \o src
<1>1. f = Raw!ArpFrame(dst, src, op)
  BY DEF Raw!ArpFrame
<1>2. e \in Seq(Words) /\ Len(e) = 5 /\ e[1] = Raw!EtherARP
  <2> DEFINE w == 6 * 256 + 4
  <2>1. w \in Words /\ 1 \in Words /\ Raw!EtherIP \in Words
    <3>1. w \in Nat /\ w < Raw!W /\ 1 < Raw!W
      BY SMT DEF Raw!W
    <3>2. Raw!EtherIP \in Nat /\ Raw!EtherIP < Raw!W
      BY SMT DEF Raw!W, Raw!EtherIP
    <3> QED BY <3>1, <3>2, WordWidth
  <2> HIDE DEF w
  <2> DEFINE d == <<Raw!EtherARP, 1, Raw!EtherIP, w, op>>
  <2>2. d \in Seq(Words) /\ Len(d) = 5 /\ d[1] = Raw!EtherARP
    BY <2>1, KindsDiffer
  <2>3. d = e
    BY DEF w
  <2> HIDE DEF d, e
  <2> QED BY <2>2, <2>3
<1> HIDE DEF e
<1>3. JoinedFrom(dst, src, a)
  BY Glued, Zenon
<1> HIDE DEF a
<1>4. a \in Seq(Words) /\ Len(a) = 6
  BY <1>3 DEF JoinedFrom
<1>5. JoinedFrom(a, e, b)
  BY <1>2, <1>4, Glued, Zenon
<1> HIDE DEF b
<1>6. b \in Seq(Words) /\ Len(b) = 11 /\ b[7] = e[1]
  <2>1. b[6 + 1] = e[1]
    BY <1>2, <1>4, <1>5 DEF JoinedFrom
  <2> QED BY <1>2, <1>4, <1>5, <2>1 DEF JoinedFrom
<1>7. JoinedFrom(b, src, f)
  BY <1>6, Glued, Zenon
<1> HIDE DEF f
<1>8. f[7] = b[7]
  BY <1>6, <1>7 DEF JoinedFrom
<1>9. Raw!At(f, 12) = f[7]
  BY WordAt, Zenon
<1>10. Raw!At(f, 12) = Raw!EtherARP
  BY <1>2, <1>6, <1>8, <1>9
<1> QED BY <1>1, <1>10, KindsDiffer DEF OtherKind

(* What a tool puts on the wire. *)
Datagrams == {Raw!Frame(data) : data \in Payloads}
ArpFrames ==
    {Raw!ArpFrame(dst, Mac[h], op) : dst \in {Raw!Broadcast, Mac[1]}, h \in {1, 2}, op \in {1, 2}}
OtherFrames == ArpFrames \cup {Raw!TcpFrame(data) : data \in Payloads}

LEMMA OthersPassed == \A f \in OtherFrames : OtherKind(f)
<1>1. Raw!Broadcast \in Seq(Words) /\ Len(Raw!Broadcast) = 3
  <2>1. Raw!W - 1 \in Words
    <3>1. Raw!W - 1 \in Nat /\ Raw!W - 1 < Raw!W
      BY WordWidth
    <3> QED BY <3>1, WordWidth
  <2> QED BY <2>1 DEF Raw!Broadcast
<1>2. 1 \in Words /\ 2 \in Words
  <2>1. 1 \in Nat /\ 1 < Raw!W /\ 2 \in Nat /\ 2 < Raw!W
    BY SMT DEF Raw!W
  <2> QED BY <2>1, WordWidth
<1>3. \A h \in {1, 2} : Mac[h] \in Seq(Words) /\ Len(Mac[h]) = 3
  BY Addresses
<1>4. \A dst \in {Raw!Broadcast, Mac[1]}, h \in {1, 2}, op \in {1, 2} : OtherKind(Raw!ArpFrame(dst, Mac[h], op))
  <2> TAKE dst \in {Raw!Broadcast, Mac[1]}, h \in {1, 2}, op \in {1, 2}
  <2>1. dst \in Seq(Words) /\ Len(dst) = 3
    BY <1>1, <1>3
  <2>2. op \in Words
    BY <1>2
  <2> QED BY <1>3, <2>1, <2>2, ArpPassed
<1>5. \A data \in Payloads : OtherKind(Raw!TcpFrame(data))
  BY TcpPassed
<1>6. \A f \in ArpFrames : OtherKind(f)
  <2> TAKE f \in ArpFrames
  <2>1. PICK dst \in {Raw!Broadcast, Mac[1]}, h \in {1, 2}, op \in {1, 2} : f = Raw!ArpFrame(dst, Mac[h], op)
    BY DEF ArpFrames
  <2> QED BY <1>4, <2>1, Zenon
<1> QED BY <1>5, <1>6, Zenon DEF OtherFrames

RawInv ==
    /\ wire \in Seq(Datagrams \cup OtherFrames)
    /\ captured \in Seq({42 + 2 * Len(data) : data \in Payloads})

LEMMA RawInit == Raw!Init => RawInv
BY DEF Raw!Init, RawInv

LEMMA Lengthen ==
    ASSUME NEW data \in Payloads
    PROVE  2 * Len(Raw!Frame(data)) = 42 + 2 * Len(data)
<1>1. Len(Raw!Frame(data)) = 21 + Len(data)
  BY FrameSeen, Zenon DEF SeenRight
<1>2. Len(data) \in Nat
  BY Addresses, LenProperties
<1> QED BY <1>1, <1>2

LEMMA RawStep == RawInv /\ (Raw!Next \/ UNCHANGED rawVars) => RawInv'
<1> DEFINE K == Datagrams \cup OtherFrames
           L == {42 + 2 * Len(data) : data \in Payloads}
<1> SUFFICES ASSUME RawInv, Raw!Next \/ UNCHANGED rawVars PROVE RawInv'
  OBVIOUS
<1>1. wire \in Seq(K) /\ captured \in Seq(L)
  BY DEF RawInv
<1>2. ASSUME NEW f \in K, Raw!Put(f)
      PROVE  RawInv'
  <2>1. wire' = Append(wire, f) /\ captured' = captured
    BY <1>2 DEF Raw!Put
  <2> HIDE DEF K, L
  <2>2. wire' \in Seq(K) /\ captured' \in Seq(L)
    BY <1>1, <2>1
  <2> QED BY <2>2 DEF RawInv, K, L
<1>3. CASE \E data \in Payloads : Raw!SendUdp(data) \/ Raw!LibnetSend(data)
  <2>1. PICK data \in Payloads : Raw!SendUdp(data) \/ Raw!LibnetSend(data)
    BY <1>3
  <2>2. Raw!Put(Raw!Frame(data))
    BY <2>1 DEF Raw!SendUdp, Raw!LibnetSend
  <2>3. Raw!Frame(data) \in K
    BY DEF Datagrams
  <2> HIDE DEF K
  <2> QED BY <1>2, <2>2, <2>3
<1>4. CASE Raw!AskMac
  <2>1. Raw!Put(Raw!ArpFrame(Raw!Broadcast, Mac[1], 1))
    BY <1>4 DEF Raw!AskMac
  <2>2. Raw!ArpFrame(Raw!Broadcast, Mac[1], 1) \in K
    BY DEF OtherFrames, ArpFrames
  <2> HIDE DEF K
  <2> QED BY <1>2, <2>1, <2>2
<1>5. CASE Raw!Others
  <2>1. PICK f \in {Raw!ArpFrame(Raw!Broadcast, Mac[2], 1), Raw!ArpFrame(Mac[1], Mac[2], 2)}
                    \cup {Raw!TcpFrame(data) : data \in Payloads} : Raw!Put(f)
    BY <1>5 DEF Raw!Others
  <2>2. f \in K
    BY DEF OtherFrames, ArpFrames
  <2> HIDE DEF K
  <2> QED BY <1>2, <2>1, <2>2
<1>6. CASE Raw!Receive
  <2> DEFINE f == Head(wire)
  <2>1. wire # <<>> /\ wire' = Tail(wire)
        /\ captured' = IF Raw!Caught(f) THEN Append(captured, 2 * Len(f)) ELSE captured
    BY <1>6 DEF Raw!Receive
  <2>2. f \in K /\ wire' \in Seq(K)
    <3> HIDE DEF K, f
    <3>1. Head(wire) \in K /\ Tail(wire) \in Seq(K)
      BY <1>1, <2>1
    <3> QED BY <2>1, <3>1 DEF f
  <2> HIDE DEF f
  <2>3. Raw!Caught(f) => 2 * Len(f) \in L
    <3> HAVE Raw!Caught(f)
    <3>1. ~OtherKind(f)
      BY DEF Raw!Caught, OtherKind
    <3>2. f \in Datagrams
      BY <2>2, <3>1, OthersPassed, Zenon
    <3>3. PICK data \in Payloads : f = Raw!Frame(data)
      BY <3>2, Zenon DEF Datagrams
    <3>4. 2 * Len(f) = 42 + 2 * Len(data)
      BY <3>3, Lengthen, Zenon
    <3> QED BY <3>4
  <2> HIDE DEF K, L
  <2>4. captured' \in Seq(L)
    BY <1>1, <2>1, <2>3
  <2> QED BY <2>2, <2>4 DEF RawInv, K, L
<1>7. CASE UNCHANGED rawVars
  BY <1>1, <1>7 DEF RawInv, rawVars
<1> QED BY <1>3, <1>4, <1>5, <1>6, <1>7 DEF Raw!Next

LEMMA RawRight == RawInv => Raw!FrameRight
<1> DEFINE K == Datagrams \cup OtherFrames
           L == {42 + 2 * Len(data) : data \in Payloads}
<1> SUFFICES ASSUME RawInv PROVE Raw!FrameRight
  OBVIOUS
<1>1. wire \in Seq(K) /\ captured \in Seq(L)
  BY DEF RawInv
<1>2. \A k \in DOMAIN captured : \E data \in Payloads : captured[k] = 42 + 2 * Len(data)
  <2> TAKE k \in DOMAIN captured
  <2>1. captured[k] \in L
    <3> HIDE DEF L
    <3> QED BY <1>1
  <2> QED BY <2>1
<1>3. ASSUME NEW f \in K, Raw!At(f, 12) = Raw!EtherIP, Raw!At(Raw!Ip(f), 8) % 256 = Raw!UDP
      PROVE  LET udp == Raw!From(Raw!Ip(f), 20)
                 view == Raw!Analyze(f)
             IN  /\ Raw!Checksum(SubSeq(Raw!Ip(f), 1, 10)) = 0
                 /\ Raw!Checksum(Raw!Pseudo(2 * Len(udp) - 8) \o udp) = 0
                 /\ view.data \in Payloads /\ view.sport = Port
                 /\ view.src = Src /\ view.dst = Dst
  <2>1. ~OtherKind(f)
    BY <1>3 DEF OtherKind
  <2>2. f \in Datagrams
    BY <2>1, OthersPassed, Zenon
  <2>3. PICK data \in Payloads : f = Raw!Frame(data)
    BY <2>2, Zenon DEF Datagrams
  <2>4. SeenRight(f, data)
    BY <2>3, FrameSeen
  <2> QED BY <2>4, Zenon DEF SeenRight
<1>4. \A k \in DOMAIN wire : wire[k] \in K
  <2> HIDE DEF K
  <2> QED BY <1>1
<1> HIDE DEF K
<1> QED BY <1>2, <1>3, <1>4, Zenon DEF Raw!FrameRight

-----------------------------------------------------------------------------
(* strencode() and strdecode(). *)

Chars == 0..255

LEMMA LinkRoom == 37 \notin Safe /\ ToSize \in Nat \ {0}
BY PubAssumption

(* Two hexadecimal digits are the code they were made of. *)
LEMMA EscapeBack ==
    ASSUME NEW ch \in Chars
    PROVE  /\ Pub!HexDigit(ch \div 16) \in Chars /\ Pub!IsXDigit(Pub!HexDigit(ch \div 16))
           /\ Pub!HexDigit(ch % 16) \in Chars /\ Pub!IsXDigit(Pub!HexDigit(ch % 16))
           /\ Pub!Hexit(Pub!HexDigit(ch \div 16)) * 16 + Pub!Hexit(Pub!HexDigit(ch % 16)) = ch
<1>1. \A d \in 0..15 : /\ Pub!HexDigit(d) \in Chars /\ Pub!IsXDigit(Pub!HexDigit(d))
                       /\ Pub!Hexit(Pub!HexDigit(d)) = d
  <2> TAKE d \in 0..15
  <2>1. CASE d < 10
    <3>1. Pub!HexDigit(d) = 48 + d
      BY <2>1 DEF Pub!HexDigit
    <3>2. Pub!Hexit(48 + d) = d
      BY <2>1 DEF Pub!Hexit
    <3> QED BY <2>1, <3>1, <3>2 DEF Pub!IsXDigit, Chars
  <2>2. CASE d >= 10
    <3>1. Pub!HexDigit(d) = 87 + d
      BY <2>2 DEF Pub!HexDigit
    <3>2. Pub!Hexit(87 + d) = d
      BY <2>2 DEF Pub!Hexit
    <3> QED BY <2>2, <3>1, <3>2 DEF Pub!IsXDigit, Chars
  <2> QED BY <2>1, <2>2
<1>2. ch \div 16 \in 0..15 /\ ch % 16 \in 0..15 /\ (ch \div 16) * 16 + (ch % 16) = ch
  BY DEF Chars
<1>3. /\ Pub!HexDigit(ch \div 16) \in Chars /\ Pub!IsXDigit(Pub!HexDigit(ch \div 16))
      /\ Pub!Hexit(Pub!HexDigit(ch \div 16)) = ch \div 16
  BY <1>1, <1>2
<1>4. /\ Pub!HexDigit(ch % 16) \in Chars /\ Pub!IsXDigit(Pub!HexDigit(ch % 16))
      /\ Pub!Hexit(Pub!HexDigit(ch % 16)) = ch % 16
  BY <1>1, <1>2
<1> QED BY <1>2, <1>3, <1>4

LEMMA EscapeSeq ==
    ASSUME NEW ch \in Chars
    PROVE  /\ Pub!Escape(ch) \in Seq(Chars)
           /\ ch \in Safe => Len(Pub!Escape(ch)) = 1 /\ Pub!Escape(ch)[1] = ch
           /\ ch \notin Safe =>
                /\ Len(Pub!Escape(ch)) = 3 /\ Pub!Escape(ch)[1] = 37
                /\ Pub!Escape(ch)[2] = Pub!HexDigit(ch \div 16)
                /\ Pub!Escape(ch)[3] = Pub!HexDigit(ch % 16)
<1>1. CASE ch \in Safe
  <2>1. Pub!Escape(ch) = <<ch>>
    BY <1>1 DEF Pub!Escape
  <2> QED BY <1>1, <2>1
<1>2. CASE ch \notin Safe
  <2> DEFINE a == Pub!HexDigit(ch \div 16)
             b == Pub!HexDigit(ch % 16)
  <2>1. Pub!Escape(ch) = <<37, a, b>>
    BY <1>2 DEF Pub!Escape
  <2>2. a \in Chars /\ b \in Chars /\ 37 \in Chars
    <3>1. a \in Chars /\ b \in Chars
      BY EscapeBack
    <3> QED BY <3>1 DEF Chars
  <2> HIDE DEF a, b
  <2>3. <<37, a, b>> \in Seq(Chars) /\ Len(<<37, a, b>>) = 3
    BY <2>2
  <2>4. Pub!Escape(ch)[1] = 37 /\ Pub!Escape(ch)[2] = a /\ Pub!Escape(ch)[3] = b
    BY <2>1
  <2> QED BY <1>2, <2>1, <2>3, <2>4 DEF a, b
<1> QED BY <1>1, <1>2

(* strencode() from character to character.                                *)
Links(nm, to) ==
    to = [k \in 0..Len(nm) |->
            IF k = 0 THEN <<>>
            ELSE IF Len(to[k - 1]) + 4 < ToSize THEN to[k - 1] \o Pub!Escape(nm[k]) ELSE to[k - 1]]

LEMMA LinkSteps ==
    ASSUME NEW nm \in Seq(Chars)
    PROVE  \E to : /\ Links(nm, to) /\ Pub!Strencode(nm) = to[Len(nm)]
<1> DEFINE L == Len(nm)
           S == Seq(Chars)
           before == [k \in 1..L |-> k - 1]
           step == [q \in (1..L) \X S |->
                      IF Len(q[2]) + 4 < ToSize THEN q[2] \o Pub!Escape(nm[q[1]]) ELSE q[2]]
<1>1. L \in Nat /\ \A k \in 1..L : nm[k] \in Chars
  BY ElementOfSeq, LenProperties
<1> HIDE DEF L
<1>2. before \in [1..L -> Nat] /\ \A k \in 1..L : before[k] < k
  BY <1>1
<1>3. step \in [(1..L) \X S -> S]
  <2>1. \A k \in 1..L, s \in S : s \o Pub!Escape(nm[k]) \in S
    <3> TAKE k \in 1..L, s \in S
    <3>1. Pub!Escape(nm[k]) \in Seq(Chars)
      BY <1>1, EscapeSeq
    <3> QED BY <3>1, ConcatProperties
  <2> HIDE DEF S
  <2>2. \A q \in (1..L) \X S : q[1] \in 1..L /\ q[2] \in S
    OBVIOUS
  <2> QED BY <2>1, <2>2
<1>4. <<>> \in S
  OBVIOUS
<1> HIDE DEF S
<1>5. PICK f \in [0..L -> S] : Computed(f, L, <<>>, before, step)
  <2> HIDE DEF before, step
  <2> QED BY <1>1, <1>2, <1>3, <1>4, Recursion
<1>6. \A k \in 1..L : f[k] = IF Len(f[k - 1]) + 4 < ToSize THEN f[k - 1] \o Pub!Escape(nm[k]) ELSE f[k - 1]
  <2> TAKE k \in 1..L
  <2>1. k - 1 \in 0..L /\ f[k - 1] \in S
    BY <1>1, <1>5
  <2>2. f[k] = step[<<k, f[before[k]]>>] /\ before[k] = k - 1
    BY <1>5 DEF Computed
  <2>3. <<k, f[k - 1]>> \in (1..L) \X S
    BY <2>1
  <2>4. step[<<k, f[k - 1]>>] = IF Len(f[k - 1]) + 4 < ToSize THEN f[k - 1] \o Pub!Escape(nm[k]) ELSE f[k - 1]
    BY <2>3
  <2> HIDE DEF step, before
  <2> QED BY <2>2, <2>4
<1> HIDE DEF step, before
<1>7. f[0] = <<>>
  BY <1>5 DEF Computed
<1>8. f = [k \in 0..L |->
            IF k = 0 THEN <<>>
            ELSE IF Len(f[k - 1]) + 4 < ToSize THEN f[k - 1] \o Pub!Escape(nm[k]) ELSE f[k - 1]]
  <2>1. \A k \in 0..L : k = 0 \/ k \in 1..L
    BY <1>1
  <2> QED BY <1>5, <1>6, <1>7, <2>1
<1>9. Links(nm, f)
  BY <1>8 DEF Links, L
<1> QED BY <1>9 DEF Links, Pub!Strencode

(* The character ch stands encoded behind the first a characters of s, up  *)
(* to the b-th.                                                            *)
Placed(s, ch, a, b) ==
    IF ch \in Safe THEN b = a + 1 /\ s[a + 1] = ch
    ELSE /\ b = a + 3 /\ s[a + 1] = 37
         /\ s[a + 2] = Pub!HexDigit(ch \div 16) /\ s[a + 3] = Pub!HexDigit(ch % 16)

(* s is what the first m characters of nm are encoded to, the k-th of them *)
(* up to p[k].                                                             *)
Cut(s, nm, m, p) ==
    /\ p \in [0..m -> Nat] /\ p[0] = 0 /\ p[m] = Len(s)
    /\ \A k \in 0..m : p[k] <= Len(s)
    /\ \A k \in 1..m : Placed(s, nm[k], p[k - 1], p[k])

(* What holds after k characters. *)
LinkUpTo(to, nm, k) ==
    /\ to[k] \in Seq(Chars) /\ Len(to[k]) < ToSize
    /\ \E m \in 0..k :
         /\ \E p : Cut(to[k], nm, m, p)
         /\ Len(to[k]) <= 3 * m
         /\ m < k => Len(to[k]) + 4 >= ToSize

LEMMA CutOn ==
    ASSUME NEW s \in Seq(Chars), NEW nm, NEW m \in Nat, NEW p, Cut(s, nm, m, p), nm[m + 1] \in Chars
    PROVE  LET t == s \o Pub!Escape(nm[m + 1])
           IN  /\ t \in Seq(Chars) /\ Len(t) <= Len(s) + 3
               /\ \E r : Cut(t, nm, m + 1, r)
<1> DEFINE e == Pub!Escape(nm[m + 1])
           t == s \o e
           l == Len(s)
           r == [k \in 0..(m + 1) |-> IF k = m + 1 THEN Len(t) ELSE p[k]]
<1>1. e \in Seq(Chars) /\ Len(e) \in {1, 3} /\ l \in Nat
  BY EscapeSeq, LenProperties
<1>2. /\ t \in Seq(Chars) /\ Len(t) = l + Len(e)
      /\ \A k \in 1..(l + Len(e)) : t[k] = IF k <= l THEN s[k] ELSE e[k - l]
  <2> HIDE DEF e
  <2>1. /\ s \o e \in Seq(Chars) /\ Len(s \o e) = Len(s) + Len(e)
        /\ \A k \in 1..(Len(s) + Len(e)) : (s \o e)[k] = IF k <= Len(s) THEN s[k] ELSE e[k - Len(s)]
    BY <1>1, ConcatProperties
  <2> QED BY <2>1
<1>3. /\ p \in [0..m -> Nat] /\ p[0] = 0 /\ p[m] = l
      /\ \A k \in 0..m : p[k] <= l
      /\ \A k \in 1..m : Placed(s, nm[k], p[k - 1], p[k])
  BY DEF Cut
<1> HIDE DEF l
<1>4. t[l + 1] = e[1] /\ (Len(e) = 3 => t[l + 2] = e[2] /\ t[l + 3] = e[3])
  <2> HIDE DEF e, t
  <2> QED BY <1>1, <1>2
<1>5. Placed(t, nm[m + 1], l, l + Len(e))
  <2>1. nm[m + 1] \in Safe => Len(e) = 1 /\ e[1] = nm[m + 1]
    BY EscapeSeq
  <2>2. nm[m + 1] \notin Safe => /\ Len(e) = 3 /\ e[1] = 37
                                 /\ e[2] = Pub!HexDigit(nm[m + 1] \div 16)
                                 /\ e[3] = Pub!HexDigit(nm[m + 1] % 16)
    BY EscapeSeq
  <2> HIDE DEF e, t
  <2> QED BY <1>4, <2>1, <2>2 DEF Placed
<1> HIDE DEF e, t
<1>6. /\ r \in [0..(m + 1) -> Nat] /\ r[m + 1] = l + Len(e) /\ \A k \in 0..m : r[k] = p[k]
  BY <1>1, <1>2, <1>3
<1>7. \A k \in 0..(m + 1) : r[k] <= Len(t)
  <2> TAKE k \in 0..(m + 1)
  <2>1. k = m + 1 \/ k \in 0..m
    OBVIOUS
  <2> HIDE DEF r
  <2> QED BY <1>1, <1>2, <1>3, <1>6, <2>1, SMTT(40)
<1>8. \A k \in 1..(m + 1) : Placed(t, nm[k], r[k - 1], r[k])
  <2> TAKE k \in 1..(m + 1)
  <2> HIDE DEF r
  <2>1. CASE k = m + 1
    <3>1. r[k - 1] = l /\ r[k] = l + Len(e)
      BY <1>3, <1>6, <2>1
    <3> QED BY <1>5, <2>1, <3>1
  <2>2. CASE k \in 1..m
    <3>1. r[k - 1] = p[k - 1] /\ r[k] = p[k] /\ p[k - 1] \in Nat /\ p[k] \in Nat /\ p[k] <= l
      BY <1>3, <1>6, <2>2
    <3>2. Placed(s, nm[k], p[k - 1], p[k])
      BY <1>3, <2>2
    <3>3. \A j \in 1..l : t[j] = s[j]
      BY <1>1, <1>2
    <3>4. CASE nm[k] \in Safe
      <4>1. p[k] = p[k - 1] + 1 /\ s[p[k - 1] + 1] = nm[k]
        BY <3>2, <3>4 DEF Placed
      <4>2. p[k - 1] + 1 \in 1..l
        BY <1>1, <3>1, <4>1
      <4>3. t[p[k - 1] + 1] = s[p[k - 1] + 1]
        BY <3>3, <4>2
      <4> QED BY <3>1, <3>4, <4>1, <4>3 DEF Placed
    <3>5. CASE nm[k] \notin Safe
      <4>1. p[k] = p[k - 1] + 3
        BY <3>2, <3>5 DEF Placed
      <4>2. \A j \in 1..3 : p[k - 1] + j \in 1..l
        BY <1>1, <3>1, <4>1, SMTT(40)
      <4>3. \A j \in 1..3 : t[p[k - 1] + j] = s[p[k - 1] + j]
        BY <3>3, <4>2
      <4>4. t[p[k - 1] + 1] = s[p[k - 1] + 1] /\ t[p[k - 1] + 2] = s[p[k - 1] + 2] /\ t[p[k - 1] + 3] = s[p[k - 1] + 3]
        BY <4>3
      <4> QED BY <3>1, <3>2, <3>5, <4>1, <4>4 DEF Placed
    <3> QED BY <3>4, <3>5
  <2> QED BY <2>1, <2>2
<1>9. Cut(t, nm, m + 1, r)
  <2>1. r[0] = 0
    BY <1>3, <1>6
  <2> HIDE DEF r
  <2> QED BY <1>1, <1>2, <1>6, <1>7, <1>8, <2>1 DEF Cut
<1> HIDE DEF r
<1>10. Len(t) <= l + 3
  <2>1. \A a \in Nat, d \in {1, 3} : a + d <= a + 3
    OBVIOUS
  <2>2. Len(t) = l + Len(e)
    BY <1>2
  <2> QED BY <1>1, <2>1, <2>2, Zenon
<1>11. t \in Seq(Chars) /\ Len(t) <= l + 3 /\ \E q : Cut(t, nm, m + 1, q)
  BY <1>2, <1>9, <1>10
<1> QED BY <1>11 DEF t, e, l

LEMMA LinkAll ==
    ASSUME NEW nm \in Seq(Chars), NEW to, Links(nm, to)
    PROVE  \A k \in 0..Len(nm) : LinkUpTo(to, nm, k)
<1> DEFINE L == Len(nm)
           T == {k \in 0..L : ~LinkUpTo(to, nm, k)}
<1>1. L \in Nat /\ (\A k \in 1..L : nm[k] \in Chars) /\ ToSize \in Nat \ {0}
  BY ElementOfSeq, LenProperties, LinkRoom
<1>2. to[0] = <<>>
  BY <1>1 DEF Links
<1>3. \A k \in 1..L : to[k] = IF Len(to[k - 1]) + 4 < ToSize THEN to[k - 1] \o Pub!Escape(nm[k]) ELSE to[k - 1]
  BY <1>1 DEF Links
<1> HIDE DEF L
<1>4. SUFFICES ASSUME T # {} PROVE FALSE
  BY <1>4 DEF L
<1>5. PICK x \in T : \A y \in T : x <= y
  <2>1. T \in SUBSET Nat
    BY <1>1
  <2> HIDE DEF T
  <2> QED BY <1>4, <2>1, LeastOf
<1>6. x \in 0..L /\ ~LinkUpTo(to, nm, x)
  OBVIOUS
<1>7. CASE x = 0
  <2> DEFINE p == [k \in 0..0 |-> 0]
  <2>1. p \in [0..0 -> Nat] /\ p[0] = 0 /\ Len(to[0]) = 0 /\ to[0] \in Seq(Chars)
    BY <1>2
  <2>2. Cut(to[0], nm, 0, p)
    BY <2>1 DEF Cut
  <2>3. \E m \in 0..0 : (\E q : Cut(to[0], nm, m, q)) /\ Len(to[0]) <= 3 * m /\ (m < 0 => Len(to[0]) + 4 >= ToSize)
    BY <2>1, <2>2
  <2>4. LinkUpTo(to, nm, 0)
    BY <1>1, <2>1, <2>3 DEF LinkUpTo
  <2> QED BY <1>6, <1>7, <2>4
<1>8. CASE x # 0
  <2>1. x \in 1..L /\ x - 1 \in 0..L /\ ~(x <= x - 1)
    BY <1>1, <1>6, <1>8
  <2>2. LinkUpTo(to, nm, x - 1)
    BY <1>5, <2>1
  <2> DEFINE s == to[x - 1]
  <2>3. /\ s \in Seq(Chars) /\ Len(s) \in Nat /\ Len(s) < ToSize
    BY <2>2, LenProperties DEF LinkUpTo
  <2>4. PICK m \in 0..(x - 1) : /\ \E p : Cut(s, nm, m, p)
                                /\ Len(s) <= 3 * m
                                /\ m < x - 1 => Len(s) + 4 >= ToSize
    BY <2>2 DEF LinkUpTo
  <2> HIDE DEF s
  <2>5. CASE Len(s) + 4 < ToSize
    <3>1. m = x - 1 /\ m + 1 = x /\ m \in Nat
      BY <1>1, <2>1, <2>3, <2>4, <2>5
    <3>2. PICK p : Cut(s, nm, m, p)
      BY <2>4
    <3> DEFINE t == s \o Pub!Escape(nm[m + 1])
    <3>3. nm[m + 1] \in Chars
      BY <1>1, <2>1, <3>1
    <3>4. t \in Seq(Chars) /\ Len(t) <= Len(s) + 3 /\ \E r : Cut(t, nm, m + 1, r)
      BY <2>3, <3>1, <3>2, <3>3, CutOn
    <3>5. to[x] = t
      BY <1>3, <2>1, <2>5, <3>1 DEF s
    <3> HIDE DEF t
    <3>6. Len(t) \in Nat /\ Len(t) < ToSize /\ Len(t) <= 3 * (m + 1)
      BY <1>1, <2>3, <2>4, <2>5, <3>1, <3>4, LenProperties
    <3>7. \E i1 \in 0..x : (\E q : Cut(t, nm, i1, q)) /\ Len(t) <= 3 * i1 /\ (i1 < x => Len(t) + 4 >= ToSize)
      <4>1. x \in 0..x /\ ~(x < x)
        BY <2>1
      <4> QED BY <3>1, <3>4, <3>6, <4>1
    <3>8. LinkUpTo(to, nm, x)
      BY <3>4, <3>5, <3>6, <3>7 DEF LinkUpTo
    <3> QED BY <1>6, <3>8
  <2>6. CASE ~(Len(s) + 4 < ToSize)
    <3>1. to[x] = s
      BY <1>3, <2>1, <2>6 DEF s
    <3>2. Len(s) + 4 >= ToSize /\ m \in 0..x
      BY <1>1, <2>1, <2>3, <2>6
    <3>3. LinkUpTo(to, nm, x)
      BY <2>3, <2>4, <3>1, <3>2 DEF LinkUpTo
    <3> QED BY <1>6, <3>3
  <2> QED BY <2>5, <2>6
<1> QED BY <1>7, <1>8

(* strdecode() from character to character.                                *)
Coded(s, k) == s[k] = 37 /\ k + 2 <= Len(s) /\ Pub!IsXDigit(s[k + 1]) /\ Pub!IsXDigit(s[k + 2])

CharOf(s, k) == Pub!Hexit(s[k + 1]) * 16 + Pub!Hexit(s[k + 2])

Reads(s, from) ==
    from = [k \in 1..(Len(s) + 1) |->
              IF k > Len(s) THEN <<>>
              ELSE IF s[k] = 37 /\ k + 2 <= Len(s) /\ Pub!IsXDigit(s[k + 1]) /\ Pub!IsXDigit(s[k + 2])
                   THEN <<Pub!Hexit(s[k + 1]) * 16 + Pub!Hexit(s[k + 2])>> \o from[k + 3]
                   ELSE <<s[k]>> \o from[k + 1]]

LEMMA HexitNat == \A ch : Pub!Hexit(ch) \in Nat
<1> TAKE ch
<1>1. CASE ch \in 48..57
  BY <1>1 DEF Pub!Hexit
<1>2. CASE ch \in 97..102
  BY <1>2 DEF Pub!Hexit
<1>3. CASE ch \in 65..70
  BY <1>3 DEF Pub!Hexit
<1>4. CASE ch \notin 48..57 /\ ch \notin 97..102 /\ ch \notin 65..70
  BY <1>4 DEF Pub!Hexit
<1> QED BY <1>1, <1>2, <1>3, <1>4

LEMMA ReadSteps ==
    ASSUME NEW s \in Seq(Chars)
    PROVE  \E from : /\ Reads(s, from) /\ Pub!Strdecode(s) = from[1]
<1> DEFINE L == Len(s)
           S == Seq(Nat)
           At(j) == L + 1 - j
           before == [j \in 1..L |-> IF Coded(s, At(j)) THEN j - 3 ELSE j - 1]
           step == [q \in (1..L) \X S |->
                      IF Coded(s, At(q[1])) THEN <<CharOf(s, At(q[1]))>> \o q[2] ELSE <<s[At(q[1])]>> \o q[2]]
<1>1. L \in Nat /\ (\A k \in 1..L : s[k] \in Nat) /\ \A k \in 1..L : Coded(s, k) => k + 2 <= L
  <2>1. \A k \in 1..L : s[k] \in Chars
    BY ElementOfSeq
  <2>2. \A k \in 1..L : s[k] \in Nat
    <3>1. \A ch \in Chars : ch \in Nat
      BY DEF Chars
    <3> QED BY <2>1, <3>1, Zenon
  <2>3. L \in Nat
    BY LenProperties
  <2> QED BY <2>2, <2>3 DEF Coded
<1> HIDE DEF L
<1>2. before \in [1..L -> Nat] /\ \A j \in 1..L : before[j] < j
  <2>1. \A j \in 1..L : At(j) \in 1..L /\ (Coded(s, At(j)) => j - 3 \in Nat) /\ j - 1 \in Nat /\ j - 3 < j /\ j - 1 < j
    <3> TAKE j \in 1..L
    <3>1. At(j) \in 1..L
      BY <1>1
    <3>2. Coded(s, At(j)) => At(j) + 2 <= L
      BY <1>1, <3>1
    <3> QED BY <1>1, <3>1, <3>2
  <2> HIDE DEF At
  <2> QED BY <2>1
<1>3. \A ch : Pub!Hexit(ch) \in Nat
  BY HexitNat
<1>4. step \in [(1..L) \X S -> S]
  <2>1. \A ch \in Nat, t \in S : <<ch>> \o t \in S
    <3> TAKE ch \in Nat, t \in S
    <3>1. <<ch>> \in Seq(Nat)
      OBVIOUS
    <3> QED BY <3>1, ConcatProperties
  <2>2. \A k : CharOf(s, k) \in Nat
    <3>1. \A a, b \in Nat : a * 16 + b \in Nat
      OBVIOUS
    <3> QED BY <1>3, <3>1, Zenon DEF CharOf
  <2>3. \A j \in 1..L : s[At(j)] \in Nat
    <3>1. \A j \in 1..L : At(j) \in 1..L
      BY <1>1
    <3> QED BY <1>1, <3>1
  <2> HIDE DEF S, At
  <2>4. \A j \in 1..L, t \in S : (IF Coded(s, At(j)) THEN <<CharOf(s, At(j))>> \o t ELSE <<s[At(j)]>> \o t) \in S
    BY <2>1, <2>2, <2>3
  <2>5. \A q \in (1..L) \X S : q[1] \in 1..L /\ q[2] \in S
    OBVIOUS
  <2> QED BY <2>4, <2>5
<1>5. <<>> \in S
  OBVIOUS
<1> HIDE DEF S
<1>6. PICK f \in [0..L -> S] : Computed(f, L, <<>>, before, step)
  <2> HIDE DEF before, step
  <2> QED BY <1>1, <1>2, <1>4, <1>5, Recursion
<1> DEFINE from == [k \in 1..(L + 1) |-> f[L + 1 - k]]
<1>7. from[L + 1] = <<>>
  <2>1. L + 1 \in 1..(L + 1) /\ L + 1 - (L + 1) = 0
    BY <1>1
  <2>2. from[L + 1] = f[0]
    BY <2>1
  <2> QED BY <1>6, <2>2 DEF Computed
<1>8. \A k \in 1..L : from[k] = IF Coded(s, k) THEN <<CharOf(s, k)>> \o from[k + 3] ELSE <<s[k]>> \o from[k + 1]
  <2> TAKE k \in 1..L
  <2> DEFINE j == L + 1 - k
  <2>1. j \in 1..L /\ At(j) = k /\ k \in 1..(L + 1) /\ k + 1 \in 1..(L + 1) /\ L + 1 - (k + 1) = j - 1 /\ L + 1 - (k + 3) = j - 3
    BY <1>1
  <2>2. Coded(s, k) => k + 3 \in 1..(L + 1)
    BY <1>1, <2>1
  <2>3. from[k] = f[j] /\ from[k + 1] = f[j - 1] /\ (Coded(s, k) => from[k + 3] = f[j - 3])
    BY <2>1, <2>2
  <2>4. f[j] = step[<<j, f[before[j]]>>]
    BY <1>6, <2>1 DEF Computed
  <2>5. before[j] = IF Coded(s, k) THEN j - 3 ELSE j - 1
    BY <2>1
  <2>6. f[before[j]] \in S
    <3>1. before[j] \in 0..L
      BY <1>1, <1>2, <2>1
    <3> QED BY <1>6, <3>1
  <2>7. step[<<j, f[before[j]]>>] = IF Coded(s, k) THEN <<CharOf(s, k)>> \o f[before[j]] ELSE <<s[k]>> \o f[before[j]]
    <3> DEFINE w == f[before[j]]
    <3>1. <<j, w>> \in (1..L) \X S
      BY <2>1, <2>6
    <3> HIDE DEF w
    <3>2. step[<<j, w>>] = IF Coded(s, At(j)) THEN <<CharOf(s, At(j))>> \o w ELSE <<s[At(j)]>> \o w
      BY <3>1
    <3> HIDE DEF step, At
    <3> QED BY <2>1, <3>2 DEF w
  <2> HIDE DEF step, before, from, j
  <2> QED BY <2>3, <2>4, <2>5, <2>7
<1> HIDE DEF step, before, At
<1>9. Reads(s, from)
  <2>1. \A k \in 1..(L + 1) : from[k] = IF k > L THEN <<>>
                                        ELSE IF Coded(s, k) THEN <<CharOf(s, k)>> \o from[k + 3] ELSE <<s[k]>> \o from[k + 1]
    <3> TAKE k \in 1..(L + 1)
    <3>1. (k = L + 1 /\ k > L) \/ (k \in 1..L /\ ~(k > L))
      BY <1>1
    <3> HIDE DEF from
    <3> QED BY <1>7, <1>8, <3>1
  <2>2. from = [k \in 1..(L + 1) |-> from[k]]
    OBVIOUS
  <2> HIDE DEF from
  <2>3. from = [k \in 1..(L + 1) |-> IF k > L THEN <<>>
                                     ELSE IF Coded(s, k) THEN <<CharOf(s, k)>> \o from[k + 3] ELSE <<s[k]>> \o from[k + 1]]
    BY <2>1, <2>2
  <2> QED BY <2>3 DEF Reads, Coded, CharOf, L
<1> HIDE DEF from
<1>10. \E g : Reads(s, g)
  BY <1>9
<1> QED BY <1>10 DEF Reads, Pub!Strdecode

LEMMA OneMore ==
    ASSUME NEW nm \in Seq(Chars), NEW m \in 0..Len(nm), NEW j \in 1..m
    PROVE  <<nm[j]>> \o SubSeq(nm, j + 1, m) = SubSeq(nm, j, m)
<1> DEFINE o == <<nm[j]>>
           t == SubSeq(nm, j + 1, m)
           u == SubSeq(nm, j, m)
<1>1. Len(nm) \in Nat /\ nm[j] \in Chars
  BY ElementOfSeq, LenProperties
<1>2. o \in Seq(Chars) /\ Len(o) = 1 /\ o[1] = nm[j]
  BY <1>1
<1>3. j + 1 \in 1..(Len(nm) + 1) /\ j \in 1..(Len(nm) + 1) /\ m - (j + 1) + 1 = m - j
  BY <1>1
<1>4. /\ t \in Seq(Chars) /\ Len(t) = m - j
      /\ \A k \in 1..(m - j) : t[k] = nm[j + 1 + k - 1]
  <2>1. /\ t \in Seq(Chars) /\ Len(t) = IF j + 1 <= m THEN m - (j + 1) + 1 ELSE 0
        /\ \A k \in 1..(m - (j + 1) + 1) : t[k] = nm[j + 1 + k - 1]
    BY <1>3, PartOf
  <2> HIDE DEF t
  <2> QED BY <1>3, <2>1
<1>5. /\ u \in Seq(Chars) /\ Len(u) = m - j + 1
      /\ \A k \in 1..(m - j + 1) : u[k] = nm[j + k - 1]
  <2>1. /\ u \in Seq(Chars) /\ Len(u) = IF j <= m THEN m - j + 1 ELSE 0
        /\ \A k \in 1..(m - j + 1) : u[k] = nm[j + k - 1]
    BY <1>3, PartOf
  <2> HIDE DEF u
  <2> QED BY <1>3, <2>1
<1> HIDE DEF o, t, u
<1>6. /\ o \o t \in Seq(Chars) /\ Len(o \o t) = m - j + 1
      /\ \A k \in 1..(m - j + 1) : (o \o t)[k] = IF k <= 1 THEN o[k] ELSE t[k - 1]
  <2>1. /\ o \o t \in Seq(Chars) /\ Len(o \o t) = Len(o) + Len(t)
        /\ \A k \in 1..(Len(o) + Len(t)) : (o \o t)[k] = IF k <= Len(o) THEN o[k] ELSE t[k - Len(o)]
    BY <1>2, <1>4, ConcatProperties
  <2>2. Len(o) + Len(t) = m - j + 1 /\ Len(o) = 1
    BY <1>2, <1>4
  <2> QED BY <2>1, <2>2
<1>7. \A k \in 1..(m - j + 1) : (o \o t)[k] = u[k]
  <2> TAKE k \in 1..(m - j + 1)
  <2>1. CASE k = 1
    BY <1>2, <1>5, <1>6, <2>1, SMTT(40)
  <2>2. CASE k # 1
    <3>1. k - 1 \in 1..(m - j) /\ j + 1 + (k - 1) - 1 = j + k - 1
      BY <2>2
    <3>2. t[k - 1] = nm[j + 1 + (k - 1) - 1]
      BY <1>4, <3>1
    <3> QED BY <1>5, <1>6, <2>2, <3>1, <3>2, SMTT(40)
  <2> QED BY <2>1, <2>2
<1>8. o \o t = u
  BY <1>5, <1>6, <1>7, SeqEqual
<1> QED BY <1>8 DEF o, t, u

(* Decoding from the end on: each character comes back. *)
LEMMA CutBack ==
    ASSUME NEW nm \in Seq(Chars), NEW s \in Seq(Chars), NEW m \in 0..Len(nm),
           NEW p, Cut(s, nm, m, p), NEW from, Reads(s, from)
    PROVE  from[1] = SubSeq(nm, 1, m)
<1> DEFINE T == {d \in 0..m : from[p[m - d] + 1] # SubSeq(nm, m - d + 1, m)}
           l == Len(s)
<1>1. m \in Nat /\ l \in Nat /\ Len(nm) \in Nat /\ \A k \in 1..m : nm[k] \in Chars
  <2>1. Len(nm) \in Nat /\ \A k \in 1..Len(nm) : nm[k] \in Chars
    BY ElementOfSeq, LenProperties
  <2>2. l \in Nat
    BY LenProperties
  <2> QED BY <2>1, <2>2
<1>2. /\ p \in [0..m -> Nat] /\ p[0] = 0 /\ p[m] = l
      /\ \A k \in 0..m : p[k] <= l
      /\ \A k \in 1..m : Placed(s, nm[k], p[k - 1], p[k])
  BY DEF Cut
<1>3. /\ from[l + 1] = <<>>
      /\ \A k \in 1..l : from[k] = IF Coded(s, k) THEN <<CharOf(s, k)>> \o from[k + 3] ELSE <<s[k]>> \o from[k + 1]
  <2>1. from = [k \in 1..(l + 1) |->
              IF k > l THEN <<>>
              ELSE IF Coded(s, k) THEN <<CharOf(s, k)>> \o from[k + 3] ELSE <<s[k]>> \o from[k + 1]]
    BY DEF Reads, Coded, CharOf
  <2> HIDE DEF l
  <2>2. l + 1 \in 1..(l + 1) /\ l + 1 > l /\ \A k \in 1..l : k \in 1..(l + 1) /\ ~(k > l)
    BY <1>1
  <2> QED BY <2>1, <2>2
<1>4. T = {}
  <2> SUFFICES ASSUME T # {} PROVE FALSE
    OBVIOUS
  <2>1. PICK x \in T : \A y \in T : x <= y
    <3>1. T \in SUBSET Nat
      BY <1>1
    <3> HIDE DEF T
    <3> QED BY <3>1, LeastOf
  <2>2. x \in 0..m /\ from[p[m - x] + 1] # SubSeq(nm, m - x + 1, m)
    OBVIOUS
  <2>3. CASE x = 0
    <3>1. from[p[m - x] + 1] = <<>>
      BY <1>1, <1>2, <1>3, <2>3
    <3>2. SubSeq(nm, m - x + 1, m) = <<>>
      <4> DEFINE t == SubSeq(nm, m + 1, m)
      <4>1. m + 1 \in 1..(Len(nm) + 1) /\ ~(m + 1 <= m) /\ m - 0 + 1 = m + 1
        BY <1>1
      <4>2. t \in Seq(Chars) /\ Len(t) = 0
        BY <4>1, PartOf
      <4> HIDE DEF t
      <4>3. t = <<>>
        BY <4>2, EmptySeq
      <4> QED BY <2>3, <4>1, <4>3 DEF t
    <3> QED BY <2>2, <3>1, <3>2
  <2>4. CASE x # 0
    <3> DEFINE j == m - x + 1
               a == p[j - 1]
               ch == nm[j]
    <3>1. j \in 1..m /\ m - x = j - 1 /\ x - 1 \in 0..m /\ m - (x - 1) = j /\ m - (x - 1) + 1 = j + 1 /\ ~(x <= x - 1)
      BY <1>1, <2>2, <2>4
    <3>2. from[p[j] + 1] = SubSeq(nm, j + 1, m)
      <4>1. x - 1 \notin T
        BY <2>1, <3>1
      <4> HIDE DEF j
      <4> QED BY <3>1, <4>1
    <3>3. Placed(s, ch, a, p[j]) /\ a \in Nat /\ p[j] \in Nat /\ p[j] <= l /\ ch \in Chars
      <4> HIDE DEF j
      <4>1. j - 1 \in 0..m /\ j \in 0..m
        BY <1>1, <3>1
      <4>2. Placed(s, ch, a, p[j]) /\ ch \in Chars
        BY <1>1, <1>2, <3>1
      <4>3. a \in Nat /\ p[j] \in Nat /\ p[j] <= l
        BY <1>2, <4>1
      <4> QED BY <4>2, <4>3
    <3>4. from[a + 1] = <<ch>> \o from[p[j] + 1]
      <4> HIDE DEF j, a, ch
      <4>1. CASE ch \in Safe
        <5>1. p[j] = a + 1 /\ s[a + 1] = ch
          BY <3>3, <4>1 DEF Placed
        <5>2. ~Coded(s, a + 1) /\ a + 1 \in 1..l /\ a + 1 + 1 = p[j] + 1
          BY <1>1, <3>3, <4>1, <5>1, LinkRoom DEF Coded
        <5> QED BY <1>3, <5>1, <5>2
      <4>2. CASE ch \notin Safe
        <5>1. /\ p[j] = a + 3 /\ s[a + 1] = 37
              /\ s[a + 2] = Pub!HexDigit(ch \div 16) /\ s[a + 3] = Pub!HexDigit(ch % 16)
          BY <3>3, <4>2 DEF Placed
        <5>2. a + 1 \in 1..l /\ a + 1 + 2 <= l /\ a + 1 + 3 = p[j] + 1 /\ a + 1 + 1 = a + 2 /\ a + 1 + 2 = a + 3
          BY <1>1, <3>3, <5>1
        <5>3. /\ Pub!IsXDigit(s[a + 2]) /\ Pub!IsXDigit(s[a + 3])
              /\ Pub!Hexit(s[a + 2]) * 16 + Pub!Hexit(s[a + 3]) = ch
          BY <3>3, <5>1, EscapeBack
        <5>4. Coded(s, a + 1) /\ CharOf(s, a + 1) = ch
          BY <5>1, <5>2, <5>3 DEF Coded, CharOf
        <5> QED BY <1>3, <5>2, <5>4
      <4> QED BY <4>1, <4>2
    <3>5. <<ch>> \o SubSeq(nm, j + 1, m) = SubSeq(nm, j, m)
      BY <3>1, OneMore
    <3>6. p[m - x] = a /\ m - x + 1 = j
      BY <3>1
    <3> HIDE DEF a, j, ch
    <3> QED BY <2>2, <3>2, <3>4, <3>5, <3>6
  <2> QED BY <2>3, <2>4
<1>5. m \in 0..m /\ m - m = 0 /\ 0 + 1 = 1
  BY <1>1
<1>6. from[p[m - m] + 1] = SubSeq(nm, m - m + 1, m)
  BY <1>4, <1>5
<1> QED BY <1>2, <1>5, <1>6

(* A link decodes to the name, or to its first characters.                 *)
LEMMA LinkBack ==
    ASSUME NEW nm \in Seq(Chars)
    PROVE  /\ Len(Pub!Strencode(nm)) < ToSize
           /\ \E m \in 0..Len(nm) :
                /\ Pub!Strdecode(Pub!Strencode(nm)) = SubSeq(nm, 1, m)
                /\ 3 * Len(nm) + 1 < ToSize => m = Len(nm)
<1> DEFINE L == Len(nm)
           s == Pub!Strencode(nm)
<1>1. L \in Nat /\ ToSize \in Nat \ {0}
  BY LenProperties, LinkRoom
<1>2. PICK to : Links(nm, to) /\ s = to[L]
  BY LinkSteps
<1>3. LinkUpTo(to, nm, L)
  BY <1>1, <1>2, LinkAll
<1> HIDE DEF s
<1>4. s \in Seq(Chars) /\ Len(s) < ToSize
  BY <1>2, <1>3 DEF LinkUpTo
<1>5. PICK m \in 0..L : /\ \E p : Cut(s, nm, m, p)
                        /\ Len(s) <= 3 * m
                        /\ m < L => Len(s) + 4 >= ToSize
  BY <1>2, <1>3 DEF LinkUpTo
<1>6. PICK p : Cut(s, nm, m, p)
  BY <1>5
<1>7. PICK from : Reads(s, from) /\ Pub!Strdecode(s) = from[1]
  BY <1>4, ReadSteps
<1>8. Pub!Strdecode(s) = SubSeq(nm, 1, m)
  BY <1>4, <1>6, <1>7, CutBack
<1>9. 3 * L + 1 < ToSize => m = L
  <2>1. Len(s) \in Nat
    BY <1>4, LenProperties
  <2> HIDE DEF L
  <2> QED BY <1>1, <1>5, <2>1
<1> QED BY <1>4, <1>8, <1>9 DEF s

LinkInv ==
    /\ name \in Seq(Chars)
    /\ entryLink = Pub!Strencode(name)
    /\ opened = <<>> \/ (opened = Pub!Strdecode(entryLink) /\ type = Pub!MimeType(opened))

LEMMA LinkInit == Pub!Init => LinkInv
<1> SUFFICES ASSUME Pub!Init PROVE LinkInv
  OBVIOUS
<1>1. name = <<>> /\ entryLink = <<>> /\ opened = <<>>
  BY DEF Pub!Init
<1>2. <<>> \in Seq(Chars) /\ Len(<<>>) = 0
  OBVIOUS
<1>3. PICK to : Links(<<>>, to) /\ Pub!Strencode(<<>>) = to[Len(<<>>)]
  BY <1>2, LinkSteps
<1>4. Pub!Strencode(<<>>) = <<>>
  <2>1. to[0] = <<>>
    BY <1>2, <1>3 DEF Links
  <2> QED BY <1>2, <1>3, <2>1
<1> QED BY <1>1, <1>2, <1>4, Zenon DEF LinkInv

LEMMA LinkStep == LinkInv /\ (Pub!Next \/ UNCHANGED pubVars) => LinkInv'
<1> SUFFICES ASSUME LinkInv, Pub!Next \/ UNCHANGED pubVars PROVE LinkInv'
  OBVIOUS
<1>1. CASE \E nm \in Names : Pub!List(nm)
  <2>1. PICK nm \in Names : Pub!List(nm)
    BY <1>1
  <2>2. name' = nm /\ entryLink' = Pub!Strencode(nm) /\ opened' = <<>>
    BY <2>1 DEF Pub!List
  <2>3. nm \in Seq(Chars)
    BY PubAssumption DEF Chars
  <2> QED BY <2>2, <2>3, Zenon DEF LinkInv
<1>2. CASE Pub!Follow
  <2>1. /\ opened' = Pub!Strdecode(entryLink) /\ type' = Pub!MimeType(opened')
        /\ name' = name /\ entryLink' = entryLink
    BY <1>2 DEF Pub!Follow
  <2> QED BY <2>1, Zenon DEF LinkInv
<1>3. CASE UNCHANGED <<name, entryLink, opened, type>>
  BY <1>3 DEF LinkInv
<1>4. Pub!Arrive \/ Pub!GetLine \/ Pub!RecvChar \/ Pub!RecvEnd \/ Pub!PeekCr \/ UNCHANGED pubVars
        => UNCHANGED <<name, entryLink, opened, type>>
  BY DEF Pub!Arrive, Pub!GetLine, Pub!RecvChar, Pub!RecvEnd, Pub!PeekCr, pubVars
<1> QED BY <1>1, <1>2, <1>3, <1>4 DEF Pub!Next

LEMMA LinkRight == LinkInv => Pub!LinkLeadsBack
<1> SUFFICES ASSUME LinkInv PROVE Pub!LinkLeadsBack
  OBVIOUS
<1>1. name \in Seq(Chars) /\ entryLink = Pub!Strencode(name)
  BY DEF LinkInv
<1>2. /\ Len(entryLink) < ToSize
      /\ \E m \in 0..Len(name) : /\ Pub!Strdecode(entryLink) = SubSeq(name, 1, m)
                                 /\ 3 * Len(name) + 1 < ToSize => m = Len(name)
  BY <1>1, LinkBack
<1>3. PICK m \in 0..Len(name) : /\ Pub!Strdecode(entryLink) = SubSeq(name, 1, m)
                                /\ 3 * Len(name) + 1 < ToSize => m = Len(name)
  BY <1>2
<1>4. SubSeq(name, 1, Len(name)) = name
  BY <1>1
<1>5. 3 * Len(name) + 1 < ToSize => Pub!Strdecode(entryLink) = name
  BY <1>3, <1>4, Zenon
<1>6. Len(SubSeq(name, 1, m)) = m
  BY <1>1
<1>7. ASSUME opened # <<>>
      PROVE  opened = SubSeq(name, 1, Len(opened)) /\ (opened = name => type = Pub!MimeType(name))
  <2>1. opened = Pub!Strdecode(entryLink) /\ type = Pub!MimeType(opened)
    BY <1>7 DEF LinkInv
  <2> QED BY <1>3, <1>6, <2>1, Zenon
<1> QED BY <1>2, <1>5, <1>7, Zenon DEF Pub!LinkLeadsBack

-----------------------------------------------------------------------------
(* Every datagram is taken by its receiver's kernel, whatever the payload, *)
(* and taken apart again by the sniffers, which take no other frame for    *)
(* one; every link decodes to its entry, or to the part of its name that   *)
(* fitted (udpMessage.c:40-53, 109, 134, pub.c:109-154).                   *)
THEOREM DataIsExact == MCSpec => []DataExact
<1> DEFINE DataInv == RawInv /\ LinkInv
<1>1. MCInit => DataInv
  BY RawInit, LinkInit DEF MCInit
<1>2. DataInv /\ [MCNext]_allVars => DataInv'
  <2> SUFFICES ASSUME DataInv, [MCNext]_allVars PROVE DataInv'
    OBVIOUS
  <2>1. (Raw!Next \/ UNCHANGED rawVars) /\ (Pub!Next \/ UNCHANGED pubVars)
    BY Apart
  <2> QED BY <2>1, RawStep, LinkStep
<1>3. DataInv => DataExact
  BY RawRight, LinkRight DEF DataExact
<1> QED BY <1>1, <1>2, <1>3, PTL DEF MCSpec
=============================================================================
