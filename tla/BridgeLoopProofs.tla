-------------------------- MODULE BridgeLoopProofs --------------------------
(***************************************************************************)
(* Proofs about BridgeLoop for every schedule, period, burst and ring      *)
(* size: the types of its variables, the order of what goes to the FPGA,   *)
(* the distance of two UL control packets, and what the packets say.       *)
(***************************************************************************)
EXTENDS BridgeLoop, TLAPS, SequenceTheorems, FiniteSetTheorems,
        WellFoundedInduction

-----------------------------------------------------------------------------
(* The inductive invariant.  Its parts are stated of a sequence p of       *)
(* packets, a of sent packets, c of counted ticks, n the slot that comes   *)
(* next, and r: 0, or how far the handler is with the first packet of p.   *)

IsTick(p, i) == i \in 1 .. Len(p) /\ p[i].kind = "tick"

\* Packets wait in the order of their ticks.
TicksOrdered(p, n) ==
  /\ \A i, j \in 1 .. Len(p) :
       i < j /\ IsTick(p, i) /\ IsTick(p, j) => p[i].slot < p[j].slot
  /\ \A i \in 1 .. Len(p) :
       IsTick(p, i) => FirstTick <= p[i].slot /\ p[i].slot < n

\* What was sent is for an earlier tick than those that wait, or an earlier
\* packet for the tick being handled.
AirBehind(p, a, r, n) ==
  /\ r > 0 => IsTick(p, 1)
  /\ \A k \in 1 .. Len(a) :
       /\ a[k].tick < n
       /\ \A i \in 1 .. Len(p) : IsTick(p, i) =>
            \/ a[k].tick < p[i].slot
            \/ i = 1 /\ r > 0 /\ a[k].tick = p[i].slot /\ Rank(a[k].kind) < r
  /\ \A j, k \in 1 .. Len(a) : j < k => Before(a[j], a[k])

\* A tick that was not counted yet is more slots after each UL control packet
\* than were counted since.
UlControlAgo(p, a, c, r, n) ==
  \A k \in 1 .. Len(a) : a[k].kind = "ul_control" =>
    /\ n > a[k].tick + c
    /\ \A i \in 1 .. Len(p) : IsTick(p, i) =>
         p[i].slot >= a[k].tick + c + (IF i = 1 /\ r > 0 THEN 0 ELSE 1)

\* Where the handler is about to send UL control, the period is over.
PeriodOver(p, a, c, r) ==
  /\ r = 1 => /\ c = 0
              /\ \A k \in 1 .. Len(a) : a[k].kind = "ul_control" =>
                   p[1].slot >= a[k].tick + UlControlPeriod
  /\ \A j, k \in 1 .. Len(a) :
       j < k /\ a[j].kind = "ul_control" /\ a[k].kind = "ul_control"
         => a[k].tick >= a[j].tick + UlControlPeriod

OrderInv(p, a, c, r, n) ==
  /\ TicksOrdered(p, n)
  /\ AirBehind(p, a, r, n)
  /\ UlControlAgo(p, a, c, r, n)
  /\ PeriodOver(p, a, c, r)

\* Once the bridge runs, a slot with both counters zero lies before all ticks.
ZeroSeen(p, n) ==
  \E z \in FirstTick .. LastSlot :
    /\ z % Cycle = 0 /\ z < n
    /\ \A i \in 1 .. Len(p) : IsTick(p, i) => z <= p[i].slot

\* The packets that wait, in the burst and behind it in the receive ring.
Pending == rx_pkts \o nic

\* How far the handler is.
RankOf(pc) == IF pc = "ul_control" THEN 1
              ELSE IF pc = "dl_control" THEN 2
              ELSE IF pc = "dl_data" THEN 3 ELSE 0

LoopInv ==
  /\ LoopTypeOK
  /\ FirstSlot <= now
  /\ OrderInv(Pending, air, ul_control_tick_counter, RankOf(bridge_pc), now)
  /\ init_state = 2 => ZeroSeen(Pending, now)
  /\ \A k \in 1 .. Len(air) : AfterSfnZero(air[k].tick)

-----------------------------------------------------------------------------
(* Lemmas about the parts: what a step may do to the sequences.            *)

\* The packets of the receive ring, and those for the FPGA.
LEMMA PacketType ==
  /\ \A p \in Packets : /\ p.kind \in {"tick", "ul"} /\ p.slot \in Nat
                        /\ p.kind = "tick" => p.slot \in 0 .. LastSlot
  /\ \A s \in 0 .. LastSlot :
       /\ TickOf(s) \in Packets /\ TickOf(s).kind = "tick" /\ TickOf(s).slot = s
  /\ \A f \in BOOLEAN : UlData(f) \in Packets /\ UlData(f).kind = "ul"
<1>1. ASSUME NEW p \in Packets
      PROVE  /\ p.kind \in {"tick", "ul"} /\ p.slot \in Nat
             /\ p.kind = "tick" => p.slot \in 0 .. LastSlot
  <2>1. \/ \E s \in 0 .. LastSlot : p = TickOf(s)
        \/ \E f \in BOOLEAN : p = UlData(f)
    BY DEF Packets
  <2>. QED  BY <2>1, BridgeAssumption DEF TickOf, UlData
<1>2. ASSUME NEW s \in 0 .. LastSlot
      PROVE  TickOf(s) \in Packets /\ TickOf(s).kind = "tick" /\ TickOf(s).slot = s
  BY DEF Packets, TickOf
<1>3. ASSUME NEW f \in BOOLEAN
      PROVE  UlData(f) \in Packets /\ UlData(f).kind = "ul"
  BY DEF Packets, UlData
<1>. QED  BY <1>1, <1>2, <1>3

\* The fields of a packet that is sent, those of the SFN by another name.
LEMMA AirFields ==
  \E sfns : /\ sfns = 0 .. 2^16 - 1
            /\ AirPackets = [kind : {"ul_control", "dl_control", "dl_data"},
                             tick : 0 .. LastSlot, sfn : sfns,
                             slot : 0 .. NumSlotsPerSfn - 1, ddr : SUBSET {"ul", "dl"}]
BY Zenon DEF AirPackets

\* The packets of a handler have a place in its order.
LEMMA RankType ==
  \A q \in AirPackets : Rank(q.kind) \in 1 .. 3 /\ q.tick \in Nat
<1>. SUFFICES ASSUME NEW q \in AirPackets
     PROVE  Rank(q.kind) \in 1 .. 3 /\ q.tick \in Nat
  OBVIOUS
<1>1. q.kind \in {"ul_control", "dl_control", "dl_data"} /\ q.tick \in 0 .. LastSlot
  <2>1. PICK sfns : AirPackets = [kind : {"ul_control", "dl_control", "dl_data"},
                                tick : 0 .. LastSlot, sfn : sfns,
                                slot : 0 .. NumSlotsPerSfn - 1, ddr : SUBSET {"ul", "dl"}]
    BY AirFields, Zenon
  <2>. QED  BY <2>1
<1>2. q.tick \in Nat
  BY <1>1, BridgeAssumption
<1>3. Rank(q.kind) \in 1 .. 3
  BY <1>1 DEF Rank
<1>. QED  BY <1>2, <1>3

\* q is p without its first d packets.
IsRestOf(q, p, d) ==
  Len(p) = Len(q) + d /\ \A i \in 1 .. Len(q) : q[i] = p[i + d]

\* Packets taken from the front leave the order of the rest, and the handler of
\* the first one is done with it.
LEMMA DropsFront ==
  ASSUME NEW p \in Seq(Packets), NEW q \in Seq(Packets),
         NEW a \in Seq(AirPackets), NEW c \in Nat, NEW r \in Nat, NEW n \in Nat,
         NEW d \in Nat, IsRestOf(q, p, d),
         r = 0 \/ d > 0,
         OrderInv(p, a, c, r, n)
  PROVE  /\ OrderInv(q, a, c, 0, n)
         /\ ZeroSeen(p, n) => ZeroSeen(q, n)
<1>1. \A i \in 1 .. Len(q) : /\ i + d \in 1 .. Len(p) /\ q[i] = p[i + d]
                             /\ IsTick(q, i) => IsTick(p, i + d)
                             /\ i + d = 1 => r = 0
  BY DEF IsTick, IsRestOf
<1>2. \A i \in 1 .. Len(p) : p[i] \in Packets /\ p[i].slot \in Nat
  BY PacketType
<1>3. \A k \in 1 .. Len(a) : a[k].tick \in Nat
  BY RankType
<1>4. TicksOrdered(q, n)
  <2>1. ASSUME NEW i \in 1 .. Len(q), NEW j \in 1 .. Len(q), i < j,
               IsTick(q, i), IsTick(q, j)
        PROVE  q[i].slot < q[j].slot
    <3>1. i + d \in 1 .. Len(p) /\ j + d \in 1 .. Len(p) /\ i + d < j + d
          /\ IsTick(p, i + d) /\ IsTick(p, j + d)
      BY <1>1, <2>1
    <3>2. p[i + d].slot < p[j + d].slot
      BY <3>1 DEF OrderInv, TicksOrdered
    <3>. QED  BY <1>1, <3>2
  <2>2. ASSUME NEW i \in 1 .. Len(q), IsTick(q, i)
        PROVE  FirstTick <= q[i].slot /\ q[i].slot < n
    BY <1>1, <2>2 DEF OrderInv, TicksOrdered
  <2>. QED  BY <2>1, <2>2 DEF TicksOrdered
<1>5. AirBehind(q, a, 0, n)
  <2>1. ASSUME NEW k \in 1 .. Len(a), NEW i \in 1 .. Len(q), IsTick(q, i)
        PROVE  a[k].tick < q[i].slot
    <3>1. i + d \in 1 .. Len(p) /\ IsTick(p, i + d) /\ (i + d = 1 => ~(r > 0))
      BY <1>1, <2>1
    <3>2. a[k].tick < p[i + d].slot
      BY <3>1 DEF OrderInv, AirBehind
    <3>. QED  BY <1>1, <3>2
  <2>. QED  BY <2>1 DEF OrderInv, AirBehind
<1>6. UlControlAgo(q, a, c, 0, n)
  <2>1. ASSUME NEW k \in 1 .. Len(a), a[k].kind = "ul_control",
               NEW i \in 1 .. Len(q), IsTick(q, i)
        PROVE  q[i].slot >= a[k].tick + c + 1
    <3>1. i + d \in 1 .. Len(p) /\ IsTick(p, i + d) /\ ~(i + d = 1 /\ r > 0)
      BY <1>1, <2>1
    <3>2. p[i + d].slot >= a[k].tick + c + (IF i + d = 1 /\ r > 0 THEN 0 ELSE 1)
      BY <2>1, <3>1 DEF OrderInv, UlControlAgo
    <3>. QED  BY <1>1, <3>1, <3>2
  <2>. QED  BY <2>1 DEF OrderInv, UlControlAgo
<1>7. PeriodOver(q, a, c, 0)
  BY DEF OrderInv, PeriodOver
<1>8. ZeroSeen(p, n) => ZeroSeen(q, n)
  BY <1>1 DEF ZeroSeen
<1>. QED  BY <1>4, <1>5, <1>6, <1>7, <1>8 DEF OrderInv

\* A packet that comes in behind is for a later tick than all that wait.
LEMMA ComesBehind ==
  ASSUME NEW p \in Seq(Packets), NEW q \in Seq(Packets), NEW m \in Packets,
         NEW a \in Seq(AirPackets), NEW c \in Nat, NEW r \in Nat,
         NEW n \in Nat, NEW l \in Nat,
         q = Append(p, m),
         \/ m.kind = "ul" /\ l = n
         \/ m.kind = "tick" /\ m.slot = n /\ l = n + 1 /\ FirstSlot <= n,
         OrderInv(p, a, c, r, n)
  PROVE  /\ OrderInv(q, a, c, r, l)
         /\ ZeroSeen(p, n) => ZeroSeen(q, l)
<1>1. /\ Len(q) = Len(p) + 1 /\ Len(p) \in Nat /\ q[Len(p) + 1] = m
      /\ \A i \in 1 .. Len(p) : q[i] = p[i]
  BY AppendProperties
<1>2. \A i \in 1 .. Len(p) : p[i] \in Packets /\ p[i].slot \in Nat
  BY PacketType
<1>3. \A k \in 1 .. Len(a) : a[k].tick \in Nat
  BY RankType
<1>4. \A i \in 1 .. Len(q) : IsTick(q, i) =>
        \/ i \in 1 .. Len(p) /\ IsTick(p, i) /\ q[i] = p[i]
        \/ i = Len(p) + 1 /\ q[i].slot = n /\ l = n + 1 /\ FirstSlot <= n
  BY <1>1 DEF IsTick
<1>5. FirstSlot \in Nat /\ FirstTick \in Nat /\ FirstTick <= FirstSlot
      /\ l >= n
  BY BridgeAssumption, SMTT(40)
<1>6. TicksOrdered(q, l)
  <2>1. ASSUME NEW i \in 1 .. Len(q), NEW j \in 1 .. Len(q), i < j,
               IsTick(q, i), IsTick(q, j)
        PROVE  q[i].slot < q[j].slot
    <3>1. i \in 1 .. Len(p) /\ IsTick(p, i) /\ q[i] = p[i]
      BY <1>1, <1>4, <2>1
    <3>. QED  BY <1>4, <2>1, <3>1 DEF OrderInv, TicksOrdered
  <2>2. ASSUME NEW i \in 1 .. Len(q), IsTick(q, i)
        PROVE  FirstTick <= q[i].slot /\ q[i].slot < l
    BY <1>2, <1>4, <1>5, <2>2 DEF OrderInv, TicksOrdered
  <2>. QED  BY <2>1, <2>2 DEF TicksOrdered
<1>7. AirBehind(q, a, r, l)
  <2>1. r > 0 => IsTick(q, 1)
    BY <1>1 DEF OrderInv, AirBehind, IsTick
  <2>2. ASSUME NEW k \in 1 .. Len(a)
        PROVE  /\ a[k].tick < l
               /\ \A i \in 1 .. Len(q) : IsTick(q, i) =>
                    \/ a[k].tick < q[i].slot
                    \/ i = 1 /\ r > 0 /\ a[k].tick = q[i].slot
                         /\ Rank(a[k].kind) < r
    <3>1. a[k].tick < n
      BY DEF OrderInv, AirBehind
    <3>. QED  BY <1>3, <1>4, <1>5, <3>1 DEF OrderInv, AirBehind
  <2>. QED  BY <2>1, <2>2 DEF OrderInv, AirBehind
<1>8. UlControlAgo(q, a, c, r, l)
  <2>. SUFFICES ASSUME NEW k \in 1 .. Len(a), a[k].kind = "ul_control"
       PROVE  /\ l > a[k].tick + c
              /\ \A i \in 1 .. Len(q) : IsTick(q, i) =>
                   q[i].slot >= a[k].tick + c + (IF i = 1 /\ r > 0 THEN 0 ELSE 1)
    BY DEF UlControlAgo
  <2>1. n > a[k].tick + c
    BY DEF OrderInv, UlControlAgo
  <2>. QED  BY <1>3, <1>4, <1>5, <2>1 DEF OrderInv, UlControlAgo
<1>9. PeriodOver(q, a, c, r)
  BY <1>1 DEF OrderInv, PeriodOver, AirBehind, IsTick
<1>10. ZeroSeen(p, n) => ZeroSeen(q, l)
  <2>. SUFFICES ASSUME ZeroSeen(p, n)  PROVE ZeroSeen(q, l)
    OBVIOUS
  <2>1. PICK z \in FirstTick .. LastSlot :
          /\ z % Cycle = 0 /\ z < n
          /\ \A i \in 1 .. Len(p) : IsTick(p, i) => z <= p[i].slot
    BY DEF ZeroSeen
  <2>2. z \in Nat
    BY <2>1, BridgeAssumption
  <2>3. z < l /\ \A i \in 1 .. Len(q) : IsTick(q, i) => z <= q[i].slot
    BY <1>4, <1>5, <2>1, <2>2
  <2>. QED  BY <2>1, <2>3 DEF ZeroSeen
<1>. QED  BY <1>6, <1>7, <1>8, <1>9, <1>10 DEF OrderInv

\* Time that passes leaves the order.
LEMMA TimePasses ==
  ASSUME NEW p \in Seq(Packets), NEW a \in Seq(AirPackets), NEW c \in Nat,
         NEW r \in Nat, NEW n \in Nat, OrderInv(p, a, c, r, n)
  PROVE  /\ OrderInv(p, a, c, r, n + 1)
         /\ ZeroSeen(p, n) => ZeroSeen(p, n + 1)
<1>1. \A i \in 1 .. Len(p) : p[i].slot \in Nat
  BY PacketType
<1>2. \A k \in 1 .. Len(a) : a[k].tick \in Nat
  BY RankType
<1>3. TicksOrdered(p, n + 1)
  <2>1. TicksOrdered(p, n)
    BY DEF OrderInv
  <2>2. ASSUME NEW i \in 1 .. Len(p), IsTick(p, i)
        PROVE  FirstTick <= p[i].slot /\ p[i].slot < n + 1
    <3>1. FirstTick <= p[i].slot /\ p[i].slot < n
      BY <2>1, <2>2 DEF TicksOrdered
    <3>. QED  BY <1>1, <3>1
  <2>. QED  BY <2>1, <2>2 DEF TicksOrdered
<1>4. AirBehind(p, a, r, n + 1)
  BY <1>2 DEF OrderInv, AirBehind
<1>5. UlControlAgo(p, a, c, r, n + 1)
  BY <1>2 DEF OrderInv, UlControlAgo
<1>6. ZeroSeen(p, n) => ZeroSeen(p, n + 1)
  <2>. SUFFICES ASSUME ZeroSeen(p, n)  PROVE ZeroSeen(p, n + 1)
    OBVIOUS
  <2>1. PICK z \in FirstTick .. LastSlot :
          /\ z % Cycle = 0 /\ z < n
          /\ \A i \in 1 .. Len(p) : IsTick(p, i) => z <= p[i].slot
    BY DEF ZeroSeen
  <2>2. z < n + 1
    BY <2>1, BridgeAssumption
  <2>. QED  BY <2>1, <2>2 DEF ZeroSeen
<1>. QED  BY <1>3, <1>4, <1>5, <1>6 DEF OrderInv

\* A handler that goes on is further with the same tick.
LEMMA HandlerAdvances ==
  ASSUME NEW p \in Seq(Packets), NEW a \in Seq(AirPackets), NEW c \in Nat,
         NEW r \in Nat, NEW t \in Nat, NEW n \in Nat, OrderInv(p, a, c, r, n),
         0 < r, r < t
  PROVE  OrderInv(p, a, c, t, n)
<1>1. \A k \in 1 .. Len(a) : Rank(a[k].kind) \in 1 .. 3
  BY RankType
<1>2. AirBehind(p, a, t, n)
  <2>1. ASSUME NEW k \in 1 .. Len(a), NEW i \in 1 .. Len(p), IsTick(p, i)
        PROVE  \/ a[k].tick < p[i].slot
               \/ i = 1 /\ t > 0 /\ a[k].tick = p[i].slot /\ Rank(a[k].kind) < t
    BY <1>1, <2>1 DEF OrderInv, AirBehind
  <2>. QED  BY <2>1 DEF OrderInv, AirBehind
<1>3. UlControlAgo(p, a, c, t, n)
  BY DEF OrderInv, UlControlAgo
<1>4. PeriodOver(p, a, c, t)
  BY DEF OrderInv, PeriodOver
<1>. QED  BY <1>2, <1>3, <1>4 DEF OrderInv

\* A packet that is sent comes after all that were sent: they are for earlier
\* ticks, or for this one and of an earlier kind.
LEMMA Sends ==
  ASSUME NEW p \in Seq(Packets), NEW a \in Seq(AirPackets), NEW b \in Seq(AirPackets),
         NEW m \in AirPackets, NEW c \in Nat, NEW r \in Nat, NEW n \in Nat,
         b = Append(a, m),
         OrderInv(p, a, c, r, n),
         r > 0, m.tick = p[1].slot, Rank(m.kind) = r
  PROVE  OrderInv(p, b, c, r + 1, n)
<1>1. /\ Len(b) = Len(a) + 1 /\ Len(a) \in Nat /\ b[Len(a) + 1] = m
      /\ \A k \in 1 .. Len(a) : b[k] = a[k]
  BY AppendProperties
<1>2. /\ \A i \in 1 .. Len(p) : p[i].slot \in Nat
      /\ \A k \in 1 .. Len(b) : b[k].tick \in Nat /\ Rank(b[k].kind) \in 1 .. 3
      /\ m.tick \in Nat
  BY PacketType, RankType
<1>3. IsTick(p, 1) /\ 1 \in 1 .. Len(p)
  BY DEF OrderInv, AirBehind, IsTick
<1>4. /\ m.tick < n
      /\ \A i \in 1 .. Len(p) : IsTick(p, i) /\ i # 1 => m.tick < p[i].slot
  <2>1. m.tick < n
    BY <1>3 DEF OrderInv, TicksOrdered
  <2>2. ASSUME NEW i \in 1 .. Len(p), IsTick(p, i), i # 1
        PROVE  m.tick < p[i].slot
    BY <1>3, <2>2 DEF OrderInv, TicksOrdered
  <2>. QED  BY <2>1, <2>2
<1>5. m.kind = "ul_control" => r = 1
  BY DEF Rank
<1>6. AirBehind(p, b, r + 1, n)
  <2>1. ASSUME NEW k \in 1 .. Len(b)
        PROVE  b[k].tick < n
    <3>1. k \in 1 .. Len(a) \/ k = Len(a) + 1
      BY <1>1
    <3>. QED  BY <1>1, <1>4, <3>1 DEF OrderInv, AirBehind
  <2>2. ASSUME NEW k \in 1 .. Len(b), NEW i \in 1 .. Len(p), IsTick(p, i)
        PROVE  \/ b[k].tick < p[i].slot
               \/ i = 1 /\ b[k].tick = p[i].slot /\ Rank(b[k].kind) < r + 1
    <3>1. CASE k \in 1 .. Len(a)
      <4>1. \/ a[k].tick < p[i].slot
            \/ i = 1 /\ a[k].tick = p[i].slot /\ Rank(a[k].kind) < r
        BY <2>2, <3>1 DEF OrderInv, AirBehind
      <4>2. b[k] = a[k] /\ Rank(b[k].kind) \in 1 .. 3
        BY <1>1, <1>2, <3>1
      <4>. QED  BY <4>1, <4>2
    <3>2. CASE k = Len(a) + 1
      BY <1>1, <1>2, <1>4, <2>2, <3>2
    <3>. QED  BY <1>1, <3>1, <3>2
  <2>3. ASSUME NEW j \in 1 .. Len(b), NEW k \in 1 .. Len(b), j < k
        PROVE  Before(b[j], b[k])
    <3>1. j \in 1 .. Len(a) /\ b[j] = a[j]
      BY <1>1, <2>3
    <3>2. CASE k \in 1 .. Len(a)
      BY <1>1, <2>3, <3>1, <3>2 DEF OrderInv, AirBehind
    <3>3. CASE k = Len(a) + 1
      <4>1. \/ a[j].tick < p[1].slot
            \/ a[j].tick = p[1].slot /\ Rank(a[j].kind) < r
        BY <1>3, <3>1 DEF OrderInv, AirBehind
      <4>. QED  BY <1>1, <3>1, <3>3, <4>1 DEF Before
    <3>. QED  BY <1>1, <3>2, <3>3
  <2>. QED  BY <1>3, <2>1, <2>2, <2>3 DEF AirBehind
<1>7. UlControlAgo(p, b, c, r + 1, n)
  <2>1. ASSUME NEW k \in 1 .. Len(b), b[k].kind = "ul_control"
        PROVE  n > b[k].tick + c
    <3>1. CASE k \in 1 .. Len(a)
      BY <1>1, <2>1, <3>1 DEF OrderInv, UlControlAgo
    <3>2. CASE k = Len(a) + 1
      <4>1. b[k] = m /\ c = 0
        BY <1>1, <1>5, <2>1, <3>2 DEF OrderInv, PeriodOver
      <4>. QED  BY <1>2, <1>4, <4>1
    <3>. QED  BY <1>1, <3>1, <3>2
  <2>2. ASSUME NEW k \in 1 .. Len(b), b[k].kind = "ul_control",
               NEW i \in 1 .. Len(p), IsTick(p, i)
        PROVE  p[i].slot >= b[k].tick + c + (IF i = 1 THEN 0 ELSE 1)
    <3>1. CASE k \in 1 .. Len(a)
      <4>1. p[i].slot >= a[k].tick + c + (IF i = 1 /\ r > 0 THEN 0 ELSE 1)
        BY <1>1, <2>2, <3>1 DEF OrderInv, UlControlAgo
      <4>. QED  BY <1>1, <3>1, <4>1
    <3>2. CASE k = Len(a) + 1
      <4>1. b[k] = m /\ c = 0
        BY <1>1, <1>5, <2>2, <3>2 DEF OrderInv, PeriodOver
      <4>. QED  BY <1>2, <1>4, <2>2, <4>1
    <3>. QED  BY <1>1, <3>1, <3>2
  <2>. QED  BY <2>1, <2>2, SMTT(40) DEF UlControlAgo
<1>8. PeriodOver(p, b, c, r + 1)
  <2>1. ASSUME NEW j \in 1 .. Len(b), NEW k \in 1 .. Len(b), j < k,
               b[j].kind = "ul_control", b[k].kind = "ul_control"
        PROVE  b[k].tick >= b[j].tick + UlControlPeriod
    <3>1. j \in 1 .. Len(a) /\ b[j] = a[j]
      BY <1>1, <2>1
    <3>2. CASE k \in 1 .. Len(a)
      BY <1>1, <2>1, <3>1, <3>2 DEF OrderInv, PeriodOver
    <3>3. CASE k = Len(a) + 1
      BY <1>1, <1>5, <2>1, <3>1, <3>3 DEF OrderInv, PeriodOver
    <3>. QED  BY <1>1, <3>2, <3>3
  <2>. QED  BY <2>1 DEF PeriodOver
<1>. QED  BY <1>6, <1>7, <1>8 DEF OrderInv

\* A tick that is taken is counted; when UL control is due the count is over.
LEMMA Takes ==
  ASSUME NEW p \in Seq(Packets), NEW a \in Seq(AirPackets), NEW c \in Nat,
         NEW n \in Nat, OrderInv(p, a, c, 0, n), IsTick(p, 1)
  PROVE  /\ OrderInv(p, a, c + 1, 2, n)
         /\ c + 1 >= UlControlPeriod => OrderInv(p, a, 0, 1, n)
<1>1. /\ \A i \in 1 .. Len(p) : p[i].slot \in Nat
      /\ \A k \in 1 .. Len(a) : a[k].tick \in Nat /\ Rank(a[k].kind) \in 1 .. 3
      /\ UlControlPeriod \in Nat /\ 1 \in 1 .. Len(p)
  <2>1. \A i \in 1 .. Len(p) : p[i] \in Packets /\ p[i].slot \in Nat
    BY PacketType
  <2>2. \A k \in 1 .. Len(a) : a[k] \in AirPackets
    OBVIOUS
  <2>. QED  BY <2>1, <2>2, RankType, BridgeAssumption DEF IsTick
<1>2. \A i \in 1 .. Len(p) : IsTick(p, i) /\ i # 1 => p[1].slot < p[i].slot
  BY <1>1 DEF OrderInv, TicksOrdered
<1>3. AirBehind(p, a, 1, n) /\ AirBehind(p, a, 2, n)
  BY <1>1 DEF OrderInv, AirBehind
<1>4. \A k \in 1 .. Len(a) : a[k].kind = "ul_control" =>
        p[1].slot >= a[k].tick + c + 1
  BY <1>1 DEF OrderInv, UlControlAgo
<1>5. n > p[1].slot
  BY <1>1 DEF OrderInv, TicksOrdered
<1>6. UlControlAgo(p, a, c + 1, 2, n)
  <2>1. ASSUME NEW k \in 1 .. Len(a), a[k].kind = "ul_control"
        PROVE  n > a[k].tick + (c + 1)
    BY <1>1, <1>4, <1>5, <2>1
  <2>2. ASSUME NEW k \in 1 .. Len(a), a[k].kind = "ul_control",
               NEW i \in 1 .. Len(p), IsTick(p, i)
        PROVE  p[i].slot >= a[k].tick + (c + 1) + (IF i = 1 /\ 2 > 0 THEN 0 ELSE 1)
    <3>1. p[1].slot >= a[k].tick + c + 1
      BY <1>4, <2>2
    <3>2. i # 1 => p[1].slot < p[i].slot
      BY <1>2, <2>2
    <3>. QED  BY <1>1, <3>1, <3>2
  <2>. QED  BY <2>1, <2>2 DEF UlControlAgo
<1>7. UlControlAgo(p, a, 0, 1, n)
  <2>1. ASSUME NEW k \in 1 .. Len(a), a[k].kind = "ul_control"
        PROVE  n > a[k].tick + 0
    BY <1>1, <1>4, <1>5, <2>1
  <2>2. ASSUME NEW k \in 1 .. Len(a), a[k].kind = "ul_control",
               NEW i \in 1 .. Len(p), IsTick(p, i)
        PROVE  p[i].slot >= a[k].tick + 0 + (IF i = 1 /\ 1 > 0 THEN 0 ELSE 1)
    <3>1. p[1].slot >= a[k].tick + c + 1
      BY <1>4, <2>2
    <3>2. i # 1 => p[1].slot < p[i].slot
      BY <1>2, <2>2
    <3>. QED  BY <1>1, <3>1, <3>2
  <2>. QED  BY <2>1, <2>2 DEF UlControlAgo
<1>8. PeriodOver(p, a, c + 1, 2)
  BY DEF OrderInv, PeriodOver
<1>9. c + 1 >= UlControlPeriod => PeriodOver(p, a, 0, 1)
  BY <1>1, <1>4 DEF OrderInv, PeriodOver
<1>. QED  BY <1>3, <1>6, <1>7, <1>8, <1>9 DEF OrderInv

\* Where both counters are zero, so is the slot within the cycle.
LEMMA CountersAreZero ==
  ASSUME NEW s \in Nat, SfnNo(s) = 0, SlotNo(s) = 0
  PROVE  s % Cycle = 0
<1>1. NumSlotsPerSfn \in Nat \ {0} /\ NumSfn \in Nat \ {0}
  BY BridgeAssumption
<1>. DEFINE q == s \div NumSlotsPerSfn
            r == q \div NumSfn
<1>2. s = NumSlotsPerSfn * q /\ q \in Nat
  BY <1>1 DEF SlotNo
<1>3. q % NumSfn = 0
  BY DEF SfnNo
<1>. HIDE DEF q
<1>4. q = NumSfn * r /\ r \in Nat
  BY <1>1, <1>2, <1>3
<1>. HIDE DEF r
<1>5. Cycle \in Nat \ {0} /\ s = Cycle * r
  BY <1>1, <1>2, <1>4 DEF Cycle
<1>6. (Cycle * r) % Cycle = 0
  BY <1>4, <1>5
<1>. QED  BY <1>5, <1>6

-----------------------------------------------------------------------------
(* Lemmas about the packets that wait.                                     *)

PendingFacts ==
  /\ Pending \in Seq(Packets) /\ Len(Pending) = Len(rx_pkts) + Len(nic)
  /\ \A i \in 1 .. Len(rx_pkts) + Len(nic) :
       Pending[i] = IF i <= Len(rx_pkts) THEN rx_pkts[i] ELSE nic[i - Len(rx_pkts)]

\* Each packet that waits is in the burst or in the ring behind it.
LEMMA PendingType == LoopTypeOK => PendingFacts
BY ConcatProperties DEF LoopTypeOK, Pending, PendingFacts

\* The tick being handled is the first packet that waits.
LEMMA TickIsFirst ==
  ASSUME LoopTypeOK, TickAtHead
  PROVE  /\ IsTick(Pending, 1) /\ Pending[1] = Head(rx_pkts)
         /\ Tick = Pending[1].slot /\ Tick \in 0 .. LastSlot
         /\ Len(rx_pkts) > 0
<1>1. /\ rx_pkts \in Seq(Packets) /\ nic \in Seq(Packets)
      /\ rx_pkts # <<>> /\ Head(rx_pkts) = rx_pkts[1]
      /\ Len(rx_pkts) \in Nat /\ Len(rx_pkts) > 0 /\ Len(nic) \in Nat
  BY DEF LoopTypeOK, TickAtHead
<1>2. 1 \in 1 .. Len(Pending) /\ Pending[1] = Head(rx_pkts)
  BY <1>1, PendingType DEF PendingFacts
<1>. QED
  BY <1>1, <1>2, PacketType DEF TickAtHead, IsTick, Tick

\* A packet that is taken from the burst is the first one that waits.
LEMMA HeadTaken ==
  ASSUME LoopTypeOK, rx_pkts # <<>>, rx_pkts' = Tail(rx_pkts), nic' = nic
  PROVE  /\ rx_pkts' \in Seq(Packets) /\ Len(rx_pkts') = Len(rx_pkts) - 1
         /\ Pending' \in Seq(Packets) /\ IsRestOf(Pending', Pending, 1)
<1>1. rx_pkts \in Seq(Packets) /\ nic \in Seq(Packets)
  BY DEF LoopTypeOK
<1>2. /\ rx_pkts' \in Seq(Packets) /\ Len(rx_pkts') = Len(rx_pkts) - 1
      /\ \A i \in 1 .. Len(rx_pkts') : rx_pkts'[i] = rx_pkts[i + 1]
  BY <1>1, HeadTailProperties
<1>3. /\ Len(rx_pkts) \in Nat /\ Len(nic) \in Nat /\ Len(rx_pkts) > 0
      /\ Len(rx_pkts') \in Nat
  BY <1>1, <1>2
<1>4. PendingFacts
  BY PendingType
<1>5. /\ Pending' \in Seq(Packets) /\ Len(Pending') = Len(rx_pkts') + Len(nic)
      /\ \A i \in 1 .. Len(rx_pkts') + Len(nic) :
           Pending'[i] = IF i <= Len(rx_pkts') THEN rx_pkts'[i]
                         ELSE nic[i - Len(rx_pkts')]
  BY <1>1, <1>2, ConcatProperties DEF Pending
<1>6. ASSUME NEW i \in 1 .. Len(Pending')
      PROVE  Pending'[i] = Pending[i + 1]
  <2>1. i + 1 \in 1 .. Len(rx_pkts) + Len(nic) /\ i \in 1 .. Len(rx_pkts') + Len(nic)
    BY <1>2, <1>3, <1>5
  <2>2. CASE i <= Len(rx_pkts')
    BY <1>2, <1>3, <1>4, <1>5, <2>1, <2>2 DEF PendingFacts
  <2>3. CASE i > Len(rx_pkts')
    <3>1. i - Len(rx_pkts') = (i + 1) - Len(rx_pkts) /\ ~(i + 1 <= Len(rx_pkts))
      BY <1>2, <1>3, <2>3
    <3>. QED  BY <1>4, <1>5, <2>1, <2>3, <3>1 DEF PendingFacts
  <2>. QED  BY <1>3, <2>2, <2>3
<1>. QED  BY <1>2, <1>3, <1>4, <1>5, <1>6 DEF PendingFacts, IsRestOf

\* The handler is done with the first packet that waits, and it is taken.
LEMMA HeadDone ==
  ASSUME LoopTypeOK, rx_pkts # <<>>, rx_pkts' = Tail(rx_pkts), nic' = nic,
         NEW a \in Seq(AirPackets), NEW c \in Nat, NEW r \in Nat, NEW n \in Nat,
         OrderInv(Pending, a, c, r, n)
  PROVE  /\ OrderInv(Pending', a, c, 0, n)
         /\ ZeroSeen(Pending, n) => ZeroSeen(Pending', n)
<1>1. /\ Pending \in Seq(Packets) /\ Pending' \in Seq(Packets)
      /\ IsRestOf(Pending', Pending, 1)
  BY PendingType, HeadTaken DEF PendingFacts
<1>. QED  BY <1>1, DropsFront

-----------------------------------------------------------------------------
(* The initial states and the steps.                                       *)

\* What is in the receive ring when the bridge enters its loop.
LEMMA ResidueAtStart ==
  ASSUME LoopInit
  PROVE  \E n \in 0 .. MaxResidue, ticks \in Nat, next \in Nat :
           /\ ticks <= n /\ FirstTick + ticks <= next /\ next <= FirstSlot
           /\ nic \in Residue(n, next - ticks, next) /\ missed = FirstSlot - next
<1>1. PICK n \in 0 .. MaxResidue : \E ticks \in 0 .. n :
        \E next \in FirstTick + ticks .. FirstSlot :
          nic \in Residue(n, next - ticks, next) /\ missed = FirstSlot - next
  BY DEF LoopInit
<1>2. PICK ticks \in 0 .. n : \E next \in FirstTick + ticks .. FirstSlot :
        nic \in Residue(n, next - ticks, next) /\ missed = FirstSlot - next
  BY <1>1
<1>3. PICK next \in FirstTick + ticks .. FirstSlot :
        nic \in Residue(n, next - ticks, next) /\ missed = FirstSlot - next
  BY <1>2
<1>. QED  BY <1>3, BridgeAssumption

\* LoopInv holds when the bridge enters its loop.
LEMMA LoopStarts == LoopInit => LoopInv
<1>. SUFFICES ASSUME LoopInit  PROVE LoopInv
  OBVIOUS
<1>1. PICK n \in 0 .. MaxResidue, ticks \in Nat, next \in Nat :
        /\ ticks <= n /\ FirstTick + ticks <= next /\ next <= FirstSlot
        /\ nic \in Residue(n, next - ticks, next) /\ missed = FirstSlot - next
  BY ResidueAtStart
<1>. DEFINE first == next - ticks
<1>2. /\ n \in Nat /\ n <= RxPackets /\ next \in Nat /\ FirstTick \in Nat
      /\ FirstSlot \in Nat /\ LastSlot \in Nat /\ FirstSlot <= LastSlot
      /\ first \in Nat /\ FirstTick <= first /\ next <= FirstSlot
      /\ RxPackets \in Nat /\ MaxBurst \in Nat /\ MaxResidue \in Nat
      /\ MaxUlPackets \in Nat /\ MaxFaults \in Nat
  <2>1. /\ {RxPackets, MaxBurst, MaxResidue, MaxUlPackets, MaxFaults} \subseteq Nat
        /\ {FirstTick, FirstSlot, LastSlot} \subseteq Nat
        /\ MaxResidue <= RxPackets /\ FirstSlot <= LastSlot
    BY BridgeAssumption
  <2>. QED  BY <1>1, <2>1
<1>. HIDE DEF first
<1>3. nic \in [1 .. n -> Packets] /\ nic \in Seq(Packets) /\ Len(nic) = n
  <2>1. { TickOf(s) : s \in first .. next - 1 } \cup {UlData(FALSE)} \subseteq Packets
    <3>1. first .. next - 1 \subseteq 0 .. LastSlot
      BY <1>2
    <3>. QED  BY <3>1 DEF Packets
  <2>2. nic \in [1 .. n -> Packets]
    BY <1>1, <2>1 DEF Residue, first
  <2>. QED  BY <1>2, <2>2
<1>4. /\ \A k \in 1 .. n : nic[k].kind = "tick" => nic[k].slot \in first .. next - 1
      /\ \A j, k \in 1 .. n :
           j < k /\ nic[j].kind = "tick" /\ nic[k].kind = "tick"
             => nic[j].slot < nic[k].slot
  BY <1>1, <1>3 DEF Residue, TickPlaces, TickOf, UlData, first
<1>5. LoopTypeOK
  BY <1>1, <1>2, <1>3 DEF LoopInit, LoopTypeOK, BridgePcs
<1>6. /\ Len(Pending) = n
      /\ \A i \in 1 .. n : Pending[i] = nic[i]
  BY <1>2, <1>3, <1>5, PendingType DEF LoopInit, PendingFacts
<1>7. TicksOrdered(Pending, FirstSlot)
  BY <1>2, <1>4, <1>6 DEF TicksOrdered, IsTick
<1>8. air = <<>> /\ Len(air) = 0 /\ RankOf(bridge_pc) = 0 /\ now = FirstSlot
      /\ init_state = 0
  BY DEF LoopInit, RankOf
<1>9. OrderInv(Pending, air, ul_control_tick_counter, RankOf(bridge_pc), now)
  BY <1>7, <1>8 DEF OrderInv, AirBehind, UlControlAgo, PeriodOver
<1>. QED  BY <1>2, <1>5, <1>8, <1>9 DEF LoopInv

\* Nothing is sent: what the air holds stays after slot zero.
LEMMA AirStays ==
  ASSUME LoopInv, air' = air
  PROVE  \A k \in 1 .. Len(air') : AfterSfnZero(air'[k].tick)
BY DEF LoopInv

\* The FPGA keeps it: what it sends is behind all that waits.
LEMMA FpgaKeeps == LoopInv /\ Fpga => LoopInv'
<1>. SUFFICES ASSUME LoopInv, Fpga  PROVE LoopInv'
  OBVIOUS
<1>1. /\ LoopTypeOK /\ PendingFacts /\ now \in Nat /\ LastSlot \in Nat
      /\ FirstSlot \in Nat /\ RxPackets \in Nat /\ MaxUlPackets \in Nat
  BY PendingType, BridgeAssumption DEF LoopInv, LoopTypeOK
<1>2. /\ rx_pkts' = rx_pkts /\ air' = air /\ bridge_pc' = bridge_pc
      /\ ul_control_tick_counter' = ul_control_tick_counter
      /\ init_state' = init_state /\ faults' = faults
  BY DEF Fpga, FpgaTick, FpgaUlData
<1>3. /\ Pending \in Seq(Packets) /\ air \in Seq(AirPackets)
      /\ ul_control_tick_counter \in Nat /\ RankOf(bridge_pc) \in Nat
      /\ rx_pkts \in Seq(Packets) /\ nic \in Seq(Packets)
  BY <1>1 DEF LoopTypeOK, PendingFacts, RankOf
<1>4. FirstSlot <= now
      /\ OrderInv(Pending, air, ul_control_tick_counter, RankOf(bridge_pc), now)
  BY DEF LoopInv
<1>5. ASSUME NEW m \in Packets, nic' = Append(nic, m), Len(nic) < RxPackets
      PROVE  Pending' = Append(Pending, m) /\ Pending' \in Seq(Packets)
             /\ nic' \in Seq(Packets) /\ Len(nic') <= RxPackets
  <2>1. nic' \in Seq(Packets) /\ Len(nic') = Len(nic) + 1
    BY <1>3, <1>5, AppendProperties
  <2>2. Pending' = rx_pkts \o Append(nic, m)
    BY <1>2, <1>5 DEF Pending
  <2>3. rx_pkts \o Append(nic, m) = Append(rx_pkts \o nic, m)
    BY <1>3
  <2>. QED  BY <1>1, <1>3, <1>5, <2>1, <2>2, <2>3 DEF Pending
<1>6. CASE FpgaTick
  <2>1. now \in 0 .. LastSlot /\ now' = now + 1
    BY <1>1, <1>6 DEF FpgaTick
  <2>2. /\ nic' \in Seq(Packets) /\ Len(nic') <= RxPackets /\ missed' \in Nat
        /\ OrderInv(Pending', air', ul_control_tick_counter', RankOf(bridge_pc'), now')
        /\ ZeroSeen(Pending, now) => ZeroSeen(Pending', now')
    <3>1. CASE Len(nic) < RxPackets
      <4>1. nic' = Append(nic, TickOf(now)) /\ missed' = missed
        BY <1>6, <3>1 DEF FpgaTick
      <4>2. TickOf(now) \in Packets /\ TickOf(now).kind = "tick"
            /\ TickOf(now).slot = now
        BY <2>1, PacketType
      <4>3. Pending' = Append(Pending, TickOf(now)) /\ Pending' \in Seq(Packets)
            /\ nic' \in Seq(Packets) /\ Len(nic') <= RxPackets
        BY <1>5, <3>1, <4>1, <4>2
      <4>4. now + 1 \in Nat
        BY <1>1
      <4>5. /\ OrderInv(Pending', air, ul_control_tick_counter, RankOf(bridge_pc), now + 1)
            /\ ZeroSeen(Pending, now) => ZeroSeen(Pending', now + 1)
        BY <1>1, <1>3, <1>4, <4>2, <4>3, <4>4, ComesBehind
      <4>. QED  BY <1>1, <1>2, <2>1, <4>1, <4>3, <4>5 DEF LoopTypeOK
    <3>2. CASE ~(Len(nic) < RxPackets)
      <4>1. nic' = nic /\ missed' = missed + 1 /\ Pending' = Pending
        BY <1>2, <1>6, <3>2 DEF FpgaTick, Pending
      <4>2. /\ OrderInv(Pending, air, ul_control_tick_counter, RankOf(bridge_pc), now + 1)
            /\ ZeroSeen(Pending, now) => ZeroSeen(Pending, now + 1)
        BY <1>1, <1>3, <1>4, TimePasses
      <4>. QED  BY <1>1, <1>2, <2>1, <4>1, <4>2 DEF LoopTypeOK
    <3>. QED  BY <3>1, <3>2
  <2>3. LoopTypeOK'
    BY <1>1, <1>2, <1>6, <2>1, <2>2 DEF LoopTypeOK, FpgaTick, TickAtHead
  <2>. QED  BY <1>1, <1>2, <1>4, <2>1, <2>2, <2>3, AirStays DEF LoopInv
<1>7. CASE FpgaUlData
  <2>1. /\ UlData(TRUE) \in Packets /\ UlData(TRUE).kind = "ul"
        /\ nic' = Append(nic, UlData(TRUE)) /\ Len(nic) < RxPackets /\ now' = now
    BY <1>7, PacketType DEF FpgaUlData
  <2>2. Pending' = Append(Pending, UlData(TRUE)) /\ Pending' \in Seq(Packets)
        /\ nic' \in Seq(Packets) /\ Len(nic') <= RxPackets
    BY <1>5, <2>1
  <2>3. /\ OrderInv(Pending', air, ul_control_tick_counter, RankOf(bridge_pc), now)
        /\ ZeroSeen(Pending, now) => ZeroSeen(Pending', now)
    BY <1>1, <1>3, <1>4, <2>1, <2>2, ComesBehind
  <2>4. ul_packets' \in 0 .. MaxUlPackets /\ missed' = missed
    BY <1>1, <1>7 DEF LoopTypeOK, FpgaUlData
  <2>5. TickAtHead' = TickAtHead
    BY <1>2 DEF TickAtHead
  <2>6. LoopTypeOK'
    BY <1>1, <1>2, <2>1, <2>2, <2>4, <2>5 DEF LoopTypeOK
  <2>. QED  BY <1>2, <1>4, <2>1, <2>3, <2>6, AirStays DEF LoopInv
<1>. QED  BY <1>6, <1>7 DEF Fpga

\* A burst is the front of the receive ring.
LEMMA BurstIsFront ==
  ASSUME LoopTypeOK
  PROVE  /\ Burst \in Seq(Packets) /\ Len(Burst) \in Nat
         /\ Len(Burst) <= MaxBurst /\ Len(Burst) <= Len(nic)
         /\ \A i \in 1 .. Len(Burst) : Burst[i] = nic[i]
<1>. DEFINE l == IF Len(nic) < MaxBurst THEN Len(nic) ELSE MaxBurst
<1>1. nic \in Seq(Packets) /\ Len(nic) \in Nat /\ MaxBurst \in Nat
  BY BridgeAssumption DEF LoopTypeOK
<1>2. l \in Nat /\ l <= MaxBurst /\ l <= Len(nic)
  BY <1>1
<1>3. Burst = SubSeq(nic, 1, l)
  BY DEF Burst
<1>. HIDE DEF l
<1>4. \A i \in 1 .. l : nic[i] \in Packets
  BY <1>1, <1>2
<1>5. Burst = [i \in 1 .. l |-> nic[i]]
  BY <1>1, <1>2, <1>3
<1>6. Burst \in Seq(Packets) /\ Len(Burst) = l
  BY <1>2, <1>4, <1>5
<1>. QED  BY <1>2, <1>5, <1>6

\* What is left of the receive ring.
LEMMA RestOfRing ==
  ASSUME LoopTypeOK, NEW d \in Nat, d <= Len(nic)
  PROVE  LET rest == SubSeq(nic, d + 1, Len(nic))
         IN  /\ rest \in Seq(Packets) /\ Len(rest) = Len(nic) - d
             /\ \A i \in 1 .. Len(nic) - d : rest[i] = nic[i + d]
<1>1. nic \in Seq(Packets) /\ Len(nic) \in Nat
  BY DEF LoopTypeOK
<1>. DEFINE rest == SubSeq(nic, d + 1, Len(nic))
<1>2. rest = [i \in 1 .. Len(nic) - d |-> nic[i + d]]
  BY <1>1
<1>3. \A i \in 1 .. Len(nic) - d : i + d \in 1 .. Len(nic) /\ nic[i + d] \in Packets
  BY <1>1
<1>. HIDE DEF rest
<1>4. rest \in Seq(Packets) /\ Len(rest) = Len(nic) - d
  BY <1>1, <1>2, <1>3
<1>. QED  BY <1>2, <1>4 DEF rest

\* No fresh tick is dropped just if none is counted.
LEMMA FreshTicksType ==
  ASSUME NEW pkts \in Seq(Packets)
  PROVE  /\ FreshTicks(pkts) \in Nat
         /\ FreshTicks(pkts) = 0 =>
              \A k \in 1 .. Len(pkts) : ~(pkts[k].kind = "tick" /\ pkts[k].fresh)
<1>. DEFINE F == { k \in 1 .. Len(pkts) : pkts[k].kind = "tick" /\ pkts[k].fresh }
<1>1. IsFiniteSet(1 .. Len(pkts))
  BY FS_Interval
<1>2. IsFiniteSet(F)
  BY <1>1, FS_Subset
<1>3. Cardinality(F) \in Nat /\ (Cardinality(F) = 0 <=> F = {})
  BY <1>2, FS_CardinalityType, FS_EmptySet
<1>. QED  BY <1>3 DEF FreshTicks

\* The receive loop keeps it: it takes packets from the front only.
LEMMA RxLoopKeeps == LoopInv /\ RxLoop => LoopInv'
<1>. SUFFICES ASSUME LoopInv, RxLoop  PROVE LoopInv'
  OBVIOUS
<1>1. /\ LoopTypeOK /\ PendingFacts /\ now \in Nat
      /\ MaxBurst \in Nat \ {0} /\ RxPackets \in Nat
  BY PendingType, BridgeAssumption DEF LoopInv, LoopTypeOK
<1>2. /\ now' = now /\ ul_packets' = ul_packets /\ air' = air /\ faults' = faults
      /\ ul_control_tick_counter' = ul_control_tick_counter
      /\ missed' = missed \/ missed' = missed + FreshTicks(Burst)
  BY DEF RxLoop, LoopClear, LoopBurst, LoopUlData, LoopBurstDone, fpgaVars
<1>3. missed' \in Nat
  <2>1. FreshTicks(Burst) \in Nat
    <3>1. Burst \in Seq(Packets)
      BY <1>1, BurstIsFront
    <3>. QED  BY <3>1, FreshTicksType
  <2>. QED  BY <1>1, <1>2, <2>1 DEF LoopTypeOK
<1>4. /\ Pending \in Seq(Packets) /\ air \in Seq(AirPackets)
      /\ ul_control_tick_counter \in Nat /\ RankOf(bridge_pc) = 0
      /\ rx_pkts \in Seq(Packets) /\ nic \in Seq(Packets)
      /\ FirstSlot <= now
      /\ OrderInv(Pending, air, ul_control_tick_counter, 0, now)
  <2>1. bridge_pc \in {"poll", "process"}
    BY DEF RxLoop, LoopClear, LoopBurst, LoopUlData, LoopBurstDone
  <2>2. RankOf(bridge_pc) = 0
    BY <2>1 DEF RankOf
  <2>. QED  BY <1>1, <2>2 DEF LoopInv, LoopTypeOK, PendingFacts
<1>5. ASSUME bridge_pc' \in {"poll", "process"}, init_state' \in 0 .. 2,
             init_state' = 2 => init_state = 2,
             nic' \in Seq(Packets), Len(nic') <= RxPackets,
             rx_pkts' \in Seq(Packets), Len(rx_pkts') <= MaxBurst,
             bridge_pc' = "poll" => rx_pkts' = <<>>,
             OrderInv(Pending', air, ul_control_tick_counter, 0, now),
             ZeroSeen(Pending, now) => ZeroSeen(Pending', now)
      PROVE  LoopInv'
  <2>1. LoopTypeOK'
    BY <1>1, <1>2, <1>3, <1>5 DEF LoopTypeOK, BridgePcs
  <2>2. RankOf(bridge_pc') = 0
    BY <1>5 DEF RankOf
  <2>. QED  BY <1>2, <1>4, <1>5, <2>1, <2>2, AirStays DEF LoopInv
<1>6. CASE LoopClear
  <2>. DEFINE rest == SubSeq(nic, MaxBurst + 1, Len(nic))
  <2>1. /\ nic' = rest /\ rx_pkts' = rx_pkts /\ rx_pkts = <<>>
        /\ init_state' = init_state /\ bridge_pc' = bridge_pc /\ bridge_pc = "poll"
        /\ Len(Burst) = MaxBurst
    BY <1>1, <1>6 DEF LoopClear, LoopTypeOK
  <2>2. MaxBurst <= Len(nic)
    BY <1>1, <2>1, BurstIsFront
  <2>3. /\ rest \in Seq(Packets) /\ Len(rest) = Len(nic) - MaxBurst
        /\ \A i \in 1 .. Len(nic) - MaxBurst : rest[i] = nic[i + MaxBurst]
    BY <1>1, <2>2, RestOfRing
  <2>. HIDE DEF rest
  <2>4. /\ Pending = nic /\ Pending' = rest
    BY <1>4, <2>1, <2>3 DEF Pending
  <2>5. IsRestOf(Pending', Pending, MaxBurst) /\ Pending' \in Seq(Packets)
    BY <1>1, <1>4, <2>2, <2>3, <2>4 DEF IsRestOf
  <2>6. /\ OrderInv(Pending', air, ul_control_tick_counter, 0, now)
        /\ ZeroSeen(Pending, now) => ZeroSeen(Pending', now)
    BY <1>1, <1>4, <2>5, DropsFront
  <2>7. Len(nic') <= RxPackets
    BY <1>1, <1>4, <2>1, <2>3 DEF LoopTypeOK
  <2>8. init_state' \in 0 .. 2 /\ Len(rx_pkts') <= MaxBurst
    BY <1>1, <2>1 DEF LoopTypeOK
  <2>. QED  BY <1>4, <1>5, <2>1, <2>3, <2>6, <2>7, <2>8
<1>7. CASE LoopBurst
  <2>. DEFINE rest == SubSeq(nic, Len(Burst) + 1, Len(nic))
  <2>1. /\ nic' = rest /\ rx_pkts' = Burst /\ rx_pkts = <<>>
        /\ bridge_pc' = "process"
        /\ init_state' \in 0 .. 2
        /\ init_state' = 2 => init_state = 2
    BY <1>1, <1>7 DEF LoopBurst, LoopTypeOK
  <2>2. /\ Burst \in Seq(Packets) /\ Len(Burst) \in Nat
        /\ Len(Burst) <= MaxBurst /\ Len(Burst) <= Len(nic)
        /\ \A i \in 1 .. Len(Burst) : Burst[i] = nic[i]
    BY <1>1, BurstIsFront
  <2>3. /\ rest \in Seq(Packets) /\ Len(rest) = Len(nic) - Len(Burst)
        /\ \A i \in 1 .. Len(nic) - Len(Burst) : rest[i] = nic[i + Len(Burst)]
    BY <1>1, <2>2, RestOfRing
  <2>. HIDE DEF rest
  <2>4. PICK b \in Seq(Packets) : b = Burst
    BY <2>2
  <2>5. Pending = nic /\ Pending' = b \o rest
    BY <1>4, <2>1, <2>3, <2>4 DEF Pending
  <2>6. /\ b \o rest \in Seq(Packets) /\ Len(b \o rest) = Len(nic)
        /\ \A i \in 1 .. Len(nic) : (b \o rest)[i] = nic[i]
    <3>1. /\ b \o rest \in Seq(Packets) /\ Len(b \o rest) = Len(b) + Len(rest)
          /\ \A i \in 1 .. Len(b) + Len(rest) :
               (b \o rest)[i] = IF i <= Len(b) THEN b[i] ELSE rest[i - Len(b)]
      BY <2>3, <2>4, ConcatProperties
    <3>2. Len(b) \in Nat /\ Len(nic) \in Nat /\ Len(rest) = Len(nic) - Len(b)
      BY <1>4, <2>3, <2>4
    <3>3. ASSUME NEW i \in 1 .. Len(nic)
          PROVE  (b \o rest)[i] = nic[i]
      <4>1. CASE i <= Len(b)
        BY <2>2, <2>4, <3>1, <3>2, <4>1
      <4>2. CASE i > Len(b)
        <5>1. i - Len(b) \in 1 .. Len(nic) - Len(b) /\ (i - Len(b)) + Len(b) = i
          BY <3>2, <4>2
        <5>. QED  BY <2>3, <2>4, <3>1, <3>2, <4>2, <5>1
      <4>. QED  BY <3>2, <4>1, <4>2
    <3>. QED  BY <3>1, <3>2, <3>3
  <2>7. IsRestOf(Pending', Pending, 0) /\ Pending' \in Seq(Packets)
    BY <1>4, <2>5, <2>6 DEF IsRestOf
  <2>8. /\ OrderInv(Pending', air, ul_control_tick_counter, 0, now)
        /\ ZeroSeen(Pending, now) => ZeroSeen(Pending', now)
    BY <1>1, <1>4, <2>7, DropsFront
  <2>9. Len(nic') <= RxPackets /\ Len(rx_pkts') <= MaxBurst
    BY <1>1, <1>4, <2>1, <2>2, <2>3 DEF LoopTypeOK
  <2>. QED  BY <1>5, <2>1, <2>2, <2>3, <2>8, <2>9
<1>8. CASE LoopUlData
  <2>1. /\ rx_pkts # <<>> /\ rx_pkts' = Tail(rx_pkts) /\ nic' = nic
        /\ bridge_pc' = "process" /\ init_state' = init_state
    BY <1>8 DEF LoopUlData
  <2>2. /\ OrderInv(Pending', air, ul_control_tick_counter, 0, now)
        /\ ZeroSeen(Pending, now) => ZeroSeen(Pending', now)
    BY <1>1, <1>4, <2>1, HeadDone
  <2>3. rx_pkts' \in Seq(Packets) /\ Len(rx_pkts') = Len(rx_pkts) - 1
    BY <1>1, <2>1, HeadTaken
  <2>4. Len(rx_pkts') <= MaxBurst /\ Len(nic') <= RxPackets
    BY <1>1, <1>4, <2>1, <2>3 DEF LoopTypeOK
  <2>5. init_state' \in 0 .. 2 /\ nic' \in Seq(Packets)
    BY <1>1, <2>1 DEF LoopTypeOK
  <2>. QED  BY <1>5, <2>1, <2>2, <2>3, <2>4, <2>5
<1>9. CASE LoopBurstDone
  <2>1. /\ rx_pkts' = rx_pkts /\ rx_pkts = <<>> /\ nic' = nic /\ Pending' = Pending
        /\ bridge_pc' = "poll" /\ init_state' = init_state
    BY <1>9 DEF LoopBurstDone, Pending
  <2>2. /\ Len(rx_pkts') <= MaxBurst /\ Len(nic') <= RxPackets
        /\ init_state' \in 0 .. 2
    BY <1>1, <2>1 DEF LoopTypeOK
  <2>. QED  BY <1>4, <1>5, <2>1, <2>2
<1>. QED  BY <1>6, <1>7, <1>8, <1>9 DEF RxLoop

\* A step of the handler after the tick was taken: the packet of its rank goes
\* out, or does not, and the handler is done or goes on to a later rank.
LEMMA HandlerMoved ==
  ASSUME LoopInv,
         NEW from \in {"ul_control", "dl_control", "dl_data"},
         NEW to \in {"process", "dl_control", "dl_data"},
         to = "process" \/ RankOf(to) > RankOf(from),
         HandlerMoves(from, to), HandlerKeeps, faults' \in 0 .. MaxFaults,
         \/ air' = air
         \/ \E m \in AirPackets : /\ air' = Append(air, m) /\ m.tick = Tick
                                  /\ Rank(m.kind) = RankOf(from)
  PROVE  LoopInv'
<1>1. LoopTypeOK /\ PendingFacts
  BY PendingType DEF LoopInv
<1>2. /\ TickAtHead /\ init_state = 2 /\ rx_pkts # <<>> /\ bridge_pc = from
      /\ now' = now /\ ul_packets' = ul_packets /\ nic' = nic /\ missed' = missed
      /\ init_state' = init_state
      /\ ul_control_tick_counter' = ul_control_tick_counter
      /\ bridge_pc' = to
      /\ to = "process" => rx_pkts' = Tail(rx_pkts)
      /\ to # "process" => rx_pkts' = rx_pkts
  BY <1>1 DEF HandlerMoves, HandlerKeeps, TakesTickIf, LoopTypeOK, TickAtHead, fpgaVars
<1>3. /\ IsTick(Pending, 1) /\ Tick = Pending[1].slot /\ Tick \in 0 .. LastSlot
      /\ 1 \in 1 .. Len(Pending) /\ Len(rx_pkts) > 0
  BY <1>1, <1>2, TickIsFirst DEF IsTick
<1>4. /\ Pending \in Seq(Packets) /\ air \in Seq(AirPackets)
      /\ ul_control_tick_counter \in Nat /\ now \in Nat
      /\ RankOf(from) \in 1 .. 3 /\ RankOf(to) \in 0 .. 3
      /\ RankOf(to) = 0 <=> to = "process"
  BY <1>1 DEF LoopTypeOK, PendingFacts, RankOf
<1>5. /\ FirstSlot <= now /\ ZeroSeen(Pending, now)
      /\ OrderInv(Pending, air, ul_control_tick_counter, RankOf(from), now)
      /\ \A k \in 1 .. Len(air) : AfterSfnZero(air[k].tick)
  BY <1>2 DEF LoopInv
<1>6. AfterSfnZero(Tick)
  <2>1. PICK z \in FirstTick .. LastSlot :
          z % Cycle = 0 /\ z <= Pending[1].slot
    BY <1>3, <1>5 DEF ZeroSeen
  <2>2. z \in FirstTick .. Tick
    BY <1>3, <2>1, BridgeAssumption
  <2>. QED  BY <2>1, <2>2 DEF AfterSfnZero
<1>7. /\ air' \in Seq(AirPackets)
      /\ \A k \in 1 .. Len(air') : AfterSfnZero(air'[k].tick)
      /\ \E t \in {RankOf(from), RankOf(from) + 1} :
           OrderInv(Pending, air', ul_control_tick_counter, t, now)
  <2>1. CASE air' = air
    BY <1>4, <1>5, <2>1
  <2>2. CASE \E m \in AirPackets : /\ air' = Append(air, m) /\ m.tick = Tick
                                   /\ Rank(m.kind) = RankOf(from)
    <3>1. PICK m \in AirPackets : /\ air' = Append(air, m) /\ m.tick = Tick
                                  /\ Rank(m.kind) = RankOf(from)
      BY <2>2
    <3>2. /\ air' \in Seq(AirPackets) /\ Len(air') = Len(air) + 1
          /\ air'[Len(air) + 1] = m
          /\ \A k \in 1 .. Len(air) : air'[k] = air[k]
      BY <1>4, <3>1, AppendProperties
    <3>3. \A k \in 1 .. Len(air') : k \in 1 .. Len(air) \/ k = Len(air) + 1
      BY <1>4, <3>2
    <3>4. \A k \in 1 .. Len(air') : AfterSfnZero(air'[k].tick)
      BY <1>5, <1>6, <3>1, <3>2, <3>3
    <3>5. PICK r \in 1 .. 3 : r = RankOf(from)
      BY <1>4
    <3>6. /\ r \in Nat /\ r > 0 /\ Rank(m.kind) = r /\ m.tick = Pending[1].slot
          /\ OrderInv(Pending, air, ul_control_tick_counter, r, now)
      BY <1>3, <1>5, <3>1, <3>5
    <3>7. OrderInv(Pending, air', ul_control_tick_counter, r + 1, now)
      BY <1>4, <3>1, <3>2, <3>6, Sends
    <3>. QED  BY <3>2, <3>4, <3>5, <3>7
  <2>. QED  BY <2>1, <2>2
<1>8. PICK t \in {RankOf(from), RankOf(from) + 1} :
        OrderInv(Pending, air', ul_control_tick_counter, t, now)
  BY <1>7
<1>9. t \in Nat /\ t > 0 /\ (to # "process" => t <= RankOf(to))
  BY <1>4
<1>10. CASE to = "process"
  <2>1. /\ OrderInv(Pending', air', ul_control_tick_counter, 0, now)
        /\ ZeroSeen(Pending, now) => ZeroSeen(Pending', now)
    BY <1>1, <1>2, <1>4, <1>7, <1>8, <1>9, <1>10, HeadDone
  <2>2. rx_pkts' \in Seq(Packets) /\ Len(rx_pkts') = Len(rx_pkts) - 1
    BY <1>1, <1>2, <1>10, HeadTaken
  <2>3. Len(rx_pkts') <= MaxBurst
    BY <1>1, <1>3, <2>2, BridgeAssumption, SMTT(40) DEF LoopTypeOK
  <2>4. LoopTypeOK'
    BY <1>1, <1>2, <1>7, <1>10, <2>2, <2>3 DEF LoopTypeOK, BridgePcs
  <2>. QED  BY <1>2, <1>4, <1>5, <1>7, <1>10, <2>1, <2>4 DEF LoopInv
<1>11. CASE to # "process"
  <2>1. Pending' = Pending /\ TickAtHead' = TickAtHead
    BY <1>2, <1>11 DEF Pending, TickAtHead
  <2>2. OrderInv(Pending, air', ul_control_tick_counter, RankOf(to), now)
    <3>1. PICK u \in 0 .. 3 : u = RankOf(to)
      BY <1>4
    <3>2. CASE t = u
      BY <1>8, <3>1, <3>2
    <3>3. CASE t < u
      BY <1>4, <1>7, <1>8, <1>9, <3>1, <3>3, HandlerAdvances
    <3>. QED  BY <1>9, <1>11, <3>1, <3>2, <3>3
  <2>3. LoopTypeOK'
    BY <1>1, <1>2, <1>7, <1>11, <2>1 DEF LoopTypeOK, BridgePcs
  <2>. QED  BY <1>2, <1>5, <1>7, <2>1, <2>2, <2>3 DEF LoopInv
<1>. QED  BY <1>10, <1>11

\* A tick: it is dropped before the bridge runs, or it is taken.
LEMMA TickKeeps == LoopInv /\ (TickIgnored \/ TickTaken) => LoopInv'
<1>. SUFFICES ASSUME LoopInv, TickIgnored \/ TickTaken  PROVE LoopInv'
  OBVIOUS
<1>1. LoopTypeOK /\ PendingFacts
  BY PendingType DEF LoopInv
<1>2. /\ TickAtHead /\ rx_pkts # <<>> /\ bridge_pc = "process"
      /\ now' = now /\ ul_packets' = ul_packets /\ nic' = nic /\ missed' = missed
      /\ air' = air /\ faults' = faults
      /\ bridge_pc' = "process" => rx_pkts' = Tail(rx_pkts)
      /\ bridge_pc' # "process" => rx_pkts' = rx_pkts
      /\ bridge_pc' \in {"process", "ul_control", "dl_control"}
  BY DEF TickIgnored, TickTaken, HandlerMoves, TakesTickIf, TickAtHead, AfterUlControl,
         fpgaVars
<1>3. /\ IsTick(Pending, 1) /\ Tick = Pending[1].slot /\ Tick \in 0 .. LastSlot
      /\ 1 \in 1 .. Len(Pending) /\ Len(rx_pkts) > 0
  BY <1>1, <1>2, TickIsFirst DEF IsTick
<1>4. /\ Pending \in Seq(Packets) /\ air \in Seq(AirPackets)
      /\ ul_control_tick_counter \in Nat /\ now \in Nat
      /\ RankOf(bridge_pc) = 0 /\ RankOf(bridge_pc') \in 0 .. 2
      /\ (RankOf(bridge_pc') = 0 <=> bridge_pc' = "process")
  BY <1>1, <1>2 DEF LoopTypeOK, PendingFacts, RankOf
<1>5. /\ FirstSlot <= now
      /\ OrderInv(Pending, air, ul_control_tick_counter, 0, now)
      /\ init_state = 2 => ZeroSeen(Pending, now)
  BY <1>4 DEF LoopInv
<1>6. /\ ul_control_tick_counter' \in Nat
      /\ bridge_pc' # "process" =>
           OrderInv(Pending, air, ul_control_tick_counter', RankOf(bridge_pc'), now)
      /\ bridge_pc' = "process" => \E t \in {0, 2} :
           OrderInv(Pending, air, ul_control_tick_counter', t, now)
  <2>1. CASE TickIgnored
    <3>1. ul_control_tick_counter' = ul_control_tick_counter /\ bridge_pc' = "process"
      BY <2>1 DEF TickIgnored, HandlerMoves
    <3>. QED  BY <1>4, <1>5, <3>1
  <2>2. CASE TickTaken
    <3>1. /\ OrderInv(Pending, air, ul_control_tick_counter + 1, 2, now)
          /\ ul_control_tick_counter + 1 >= UlControlPeriod =>
               OrderInv(Pending, air, 0, 1, now)
      BY <1>3, <1>4, <1>5, Takes
    <3>2. CASE UlControlDue
      <4>1. bridge_pc' = "ul_control" /\ ul_control_tick_counter' = 0
            /\ ul_control_tick_counter + 1 >= UlControlPeriod
        BY <2>2, <3>2 DEF TickTaken, HandlerMoves, UlControlDue
      <4>2. RankOf(bridge_pc') = 1
        BY <4>1 DEF RankOf
      <4>. QED  BY <3>1, <4>1, <4>2
    <3>3. CASE ~UlControlDue
      <4>1. /\ bridge_pc' \in {"process", "dl_control"}
            /\ ul_control_tick_counter' = ul_control_tick_counter + 1
        BY <2>2, <3>3 DEF TickTaken, HandlerMoves, AfterUlControl
      <4>2. bridge_pc' # "process" => RankOf(bridge_pc') = 2
        BY <4>1 DEF RankOf
      <4>. QED  BY <1>4, <3>1, <4>1, <4>2
    <3>. QED  BY <3>2, <3>3
  <2>. QED  BY <2>1, <2>2
<1>7. /\ init_state' \in 0 .. 2
      /\ init_state' = 2 => ZeroSeen(Pending, now)
      /\ bridge_pc' # "process" => init_state' = 2
  <2>1. CASE TickIgnored
    <3>1. init_state' = init_state /\ bridge_pc' = "process"
      BY <2>1 DEF TickIgnored, HandlerMoves
    <3>. QED  BY <1>1, <1>5, <3>1 DEF LoopTypeOK
  <2>2. CASE TickTaken
    <3>1. init_state' = 2 /\ StateAtTick = 2
      BY <2>2 DEF TickTaken
    <3>2. CASE init_state = 2
      BY <1>5, <3>1, <3>2
    <3>3. CASE init_state # 2
      <4>1. SfnNo(Tick) = 0 /\ SlotNo(Tick) = 0
        BY <3>1, <3>3 DEF StateAtTick
      <4>2. Tick % Cycle = 0
        BY <1>3, <4>1, CountersAreZero
      <4>3. /\ FirstTick <= Tick /\ Tick < now
            /\ \A i \in 1 .. Len(Pending) : IsTick(Pending, i) =>
                 Tick <= Pending[i].slot
        <5>1. TicksOrdered(Pending, now)
          BY <1>5 DEF OrderInv
        <5>2. \A i \in 1 .. Len(Pending) : Pending[i].slot \in Nat
          BY <1>4, PacketType
        <5>3. ASSUME NEW i \in 1 .. Len(Pending), IsTick(Pending, i)
              PROVE  Tick <= Pending[i].slot
          <6>1. CASE i = 1
            BY <1>3, <5>2, <6>1
          <6>2. CASE i # 1
            BY <1>3, <5>1, <5>2, <5>3, <6>2 DEF TicksOrdered
          <6>. QED  BY <6>1, <6>2
        <5>. QED  BY <1>3, <5>1, <5>3 DEF TicksOrdered
      <4>4. PICK z \in FirstTick .. LastSlot : z = Tick
        BY <1>3, <4>3, BridgeAssumption
      <4>. QED  BY <3>1, <4>2, <4>3, <4>4 DEF ZeroSeen
    <3>. QED  BY <3>2, <3>3
  <2>. QED  BY <2>1, <2>2
<1>8. CASE bridge_pc' = "process"
  <2>1. PICK t \in {0, 2} : OrderInv(Pending, air, ul_control_tick_counter', t, now)
    BY <1>6, <1>8
  <2>2. /\ OrderInv(Pending', air, ul_control_tick_counter', 0, now)
        /\ ZeroSeen(Pending, now) => ZeroSeen(Pending', now)
    BY <1>1, <1>2, <1>4, <1>6, <1>8, <2>1, HeadDone
  <2>3. rx_pkts' \in Seq(Packets) /\ Len(rx_pkts') = Len(rx_pkts) - 1
    BY <1>1, <1>2, <1>8, HeadTaken
  <2>4. Len(rx_pkts') <= MaxBurst
    BY <1>1, <1>3, <2>3, BridgeAssumption, SMTT(40) DEF LoopTypeOK
  <2>5. LoopTypeOK'
    BY <1>1, <1>2, <1>6, <1>7, <1>8, <2>3, <2>4 DEF LoopTypeOK, BridgePcs
  <2>. QED
    BY <1>2, <1>4, <1>5, <1>7, <1>8, <2>2, <2>5, AirStays DEF LoopInv
<1>9. CASE bridge_pc' # "process"
  <2>1. Pending' = Pending /\ TickAtHead' = TickAtHead /\ rx_pkts' = rx_pkts
    BY <1>2, <1>9 DEF Pending, TickAtHead
  <2>2. LoopTypeOK'
    BY <1>1, <1>2, <1>6, <1>7, <1>9, <2>1 DEF LoopTypeOK, BridgePcs
  <2>. QED
    BY <1>2, <1>5, <1>6, <1>7, <1>9, <2>1, <2>2, AirStays DEF LoopInv
<1>. QED  BY <1>8, <1>9

\* A packet for the slot ahead has the type of those on the air.
LEMMA SentType ==
  ASSUME LoopTypeOK, TickAtHead,
         NEW kind \in {"ul_control", "dl_control", "dl_data"},
         NEW config \in SUBSET {"ul", "dl"}
  PROVE  /\ Sent(kind, Tick, config) \in AirPackets
         /\ Sent(kind, Tick, config).tick = Tick
         /\ Sent(kind, Tick, config).kind = kind
         /\ Ahead(Tick) \in SUBSET {"ul", "dl"}
<1>1. Tick \in 0 .. LastSlot /\ Tick \in Nat
  BY TickIsFirst, BridgeAssumption
<1>2. NumSlotsPerSfn \in Nat \ {0} /\ NumSfn \in Nat \ {0}
  BY BridgeAssumption
<1>3. SlotNo(Tick) \in Nat /\ SfnNo(Tick) \in Nat
  BY <1>1, <1>2 DEF SlotNo, SfnNo
<1>4. HeaderSlot(Tick) \in 0 .. NumSlotsPerSfn - 1
  BY <1>2, <1>3 DEF HeaderSlot
<1>5. HeaderSfn(Tick) \in 0 .. 2^16 - 1
  <2>1. SfnNo(Tick) + ((SlotNo(Tick) + 2) \div NumSlotsPerSfn) \in Nat
    BY <1>2, <1>3
  <2>. QED  BY <2>1 DEF HeaderSfn
<1>6. Ahead(Tick) \in SUBSET {"ul", "dl"}
  BY <1>4, BridgeAssumption DEF Ahead, HeaderSlot
<1>. QED  BY <1>1, <1>4, <1>5, <1>6 DEF Sent, AirPackets

\* The steps of the handler after the tick was taken.
LEMMA HandlerKeepsInv ==
  LoopInv /\ (UlControlSent \/ UlControlDropped \/ ControlNoMem \/ DlControlSent
              \/ DlControlDropped \/ DlData) => LoopInv'
<1>. SUFFICES ASSUME LoopInv,
                     \/ UlControlSent \/ UlControlDropped \/ ControlNoMem
                     \/ DlControlSent \/ DlControlDropped \/ DlData
       PROVE  LoopInv'
  OBVIOUS
<1>1. LoopTypeOK /\ faults \in 0 .. MaxFaults /\ MaxFaults \in Nat
  BY BridgeAssumption DEF LoopInv, LoopTypeOK
<1>2. Fails => faults' \in 0 .. MaxFaults
  BY <1>1 DEF Fails
<1>3. bridge_pc \notin {"poll", "process"} => TickAtHead
  BY <1>1 DEF LoopTypeOK
<1>4. /\ Rank("ul_control") = 1 /\ Rank("dl_control") = 2 /\ Rank("dl_data") = 3
      /\ RankOf("ul_control") = 1 /\ RankOf("dl_control") = 2
      /\ RankOf("dl_data") = 3 /\ RankOf("process") = 0
  BY DEF Rank, RankOf
<1>5. AfterUlControl \in {"process", "dl_control"}
  BY DEF AfterUlControl
<1>6. ASSUME NEW from \in {"ul_control", "dl_control", "dl_data"},
             NEW to \in {"process", "dl_control", "dl_data"},
             HandlerMoves(from, to)
      PROVE  TickAtHead
  BY <1>3, <1>6 DEF HandlerMoves
<1>7. CASE UlControlSent
  <2>. DEFINE config == IF "dl" \in Ahead(Tick) THEN {} ELSE {"ul"}
              m == Sent("ul_control", Tick, config)
  <2>1. PICK to \in {"process", "dl_control"} : to = AfterUlControl
    BY <1>5
  <2>2. /\ HandlerMoves("ul_control", to) /\ HandlerKeeps
        /\ air' = Append(air, m) /\ faults' = faults
    BY <1>7, <2>1 DEF UlControlSent, Transmits
  <2>3. config \in SUBSET {"ul", "dl"}
    OBVIOUS
  <2>. HIDE DEF config
  <2>4. m \in AirPackets /\ m.tick = Tick /\ m.kind = "ul_control"
    BY <1>1, <1>6, <2>2, <2>3, SentType
  <2>. HIDE DEF m
  <2>5. to = "process" \/ RankOf(to) > RankOf("ul_control")
    BY <1>4, <2>1
  <2>6. \E q \in AirPackets : /\ air' = Append(air, q) /\ q.tick = Tick
                              /\ Rank(q.kind) = RankOf("ul_control")
    BY <1>4, <2>2, <2>4
  <2>. QED  BY <1>1, <2>2, <2>5, <2>6, HandlerMoved
<1>8. CASE UlControlDropped
  <2>1. PICK to \in {"process", "dl_control"} : to = AfterUlControl
    BY <1>5
  <2>2. /\ HandlerMoves("ul_control", to) /\ HandlerKeeps /\ air' = air
        /\ faults' \in 0 .. MaxFaults
    BY <1>2, <1>8, <2>1 DEF UlControlDropped
  <2>3. to = "process" \/ RankOf(to) > RankOf("ul_control")
    BY <1>4, <2>1
  <2>. QED  BY <2>2, <2>3, HandlerMoved
<1>9. CASE ControlNoMem
  <2>1. PICK pc \in {"ul_control", "dl_control"} : HandlerMoves(pc, "process")
    BY <1>9 DEF ControlNoMem
  <2>2. HandlerKeeps /\ air' = air /\ faults' \in 0 .. MaxFaults
    BY <1>2, <1>9 DEF ControlNoMem
  <2>. QED  BY <2>1, <2>2, HandlerMoved
<1>10. CASE DlControlSent
  <2>. DEFINE m == [Sent("dl_control", Tick, Ahead(Tick)) EXCEPT !.sfn = 65535]
  <2>1. /\ HandlerMoves("dl_control", "dl_data") /\ HandlerKeeps
        /\ air' = Append(air, m) /\ faults' = faults
    BY <1>10 DEF DlControlSent, Transmits
  <2>2. TickAtHead
    BY <1>6, <2>1
  <2>3. PICK config \in SUBSET {"ul", "dl"} : config = Ahead(Tick)
    BY <1>1, <2>2, SentType
  <2>4. PICK bare \in AirPackets : bare = Sent("dl_control", Tick, config)
    BY <1>1, <2>2, SentType
  <2>5. m = [kind |-> "dl_control", tick |-> Tick, sfn |-> 65535,
             slot |-> HeaderSlot(Tick), ddr |-> config]
    BY <2>3 DEF Sent
  <2>. HIDE DEF m
  <2>6. /\ Tick \in 0 .. LastSlot /\ HeaderSlot(Tick) \in 0 .. NumSlotsPerSfn - 1
    <3>1. /\ bare.tick = Tick /\ bare.slot = HeaderSlot(Tick)
      BY <2>4 DEF Sent
    <3>2. PICK sfns : AirPackets = [kind : {"ul_control", "dl_control", "dl_data"},
                                  tick : 0 .. LastSlot, sfn : sfns,
                                  slot : 0 .. NumSlotsPerSfn - 1, ddr : SUBSET {"ul", "dl"}]
      BY AirFields, Zenon
    <3>3. bare.tick \in 0 .. LastSlot /\ bare.slot \in 0 .. NumSlotsPerSfn - 1
      BY <3>2
    <3>. QED  BY <3>1, <3>3
  <2>7. m \in AirPackets
    <3>1. PICK sfns : /\ sfns = 0 .. 2^16 - 1
                      /\ AirPackets = [kind : {"ul_control", "dl_control", "dl_data"},
                                       tick : 0 .. LastSlot, sfn : sfns,
                                       slot : 0 .. NumSlotsPerSfn - 1, ddr : SUBSET {"ul", "dl"}]
      BY AirFields, Zenon
    <3>2. 65535 \in sfns
      <4>1. 65535 \in 0 .. 2^16 - 1
        OBVIOUS
      <4>2. sfns = 0 .. 2^16 - 1
        BY <3>1, Zenon
      <4>. QED  BY <4>1, <4>2
    <3>3. AirPackets = [kind : {"ul_control", "dl_control", "dl_data"},
                        tick : 0 .. LastSlot, sfn : sfns,
                        slot : 0 .. NumSlotsPerSfn - 1, ddr : SUBSET {"ul", "dl"}]
      BY <3>1, Zenon
    <3>. QED  BY <2>3, <2>5, <2>6, <3>2, <3>3
  <2>8. m.tick = Tick /\ m.kind = "dl_control"
    BY <2>5
  <2>9. \E q \in AirPackets : /\ air' = Append(air, q) /\ q.tick = Tick
                              /\ Rank(q.kind) = RankOf("dl_control")
    BY <1>4, <2>1, <2>7, <2>8
  <2>10. RankOf("dl_data") > RankOf("dl_control")
    BY <1>4
  <2>. QED  BY <1>1, <2>1, <2>9, <2>10, HandlerMoved
<1>11. CASE DlControlDropped
  <2>1. /\ HandlerMoves("dl_control", "dl_data") /\ HandlerKeeps /\ air' = air
        /\ faults' \in 0 .. MaxFaults
    BY <1>2, <1>11 DEF DlControlDropped
  <2>2. RankOf("dl_data") > RankOf("dl_control")
    BY <1>4
  <2>. QED  BY <2>1, <2>2, HandlerMoved
<1>12. CASE DlDataSent
  <2>. DEFINE m == Sent("dl_data", Tick, {})
  <2>1. /\ HandlerMoves("dl_data", "process") /\ HandlerKeeps
        /\ air' = Append(air, m) /\ faults' = faults
    BY <1>12 DEF DlDataSent, Transmits
  <2>2. m \in AirPackets /\ m.tick = Tick /\ m.kind = "dl_data"
    BY <1>1, <1>6, <2>1, SentType
  <2>. HIDE DEF m
  <2>3. \E q \in AirPackets : /\ air' = Append(air, q) /\ q.tick = Tick
                              /\ Rank(q.kind) = RankOf("dl_data")
    BY <1>4, <2>1, <2>2
  <2>. QED  BY <1>1, <2>1, <2>3, HandlerMoved
<1>13. CASE DlDataFails
  <2>1. /\ HandlerMoves("dl_data", "process") /\ HandlerKeeps /\ air' = air
        /\ faults' \in 0 .. MaxFaults
    BY <1>2, <1>13 DEF DlDataFails
  <2>. QED  BY <2>1, HandlerMoved
<1>. QED  BY <1>7, <1>8, <1>9, <1>10, <1>11, <1>12, <1>13 DEF DlData

\* LoopInv holds in every state.
LEMMA LoopInvariance == LoopSpec => []LoopInv
<1>1. LoopInv /\ [LoopNext]_loopVars => LoopInv'
  <2>. SUFFICES ASSUME LoopInv, [LoopNext]_loopVars  PROVE LoopInv'
    OBVIOUS
  <2>1. CASE UNCHANGED loopVars
    BY <2>1 DEF loopVars, fpgaVars, bridgeVars, LoopInv, LoopTypeOK, TickAtHead, Pending
  <2>2. CASE LoopNext
    BY <2>2, FpgaKeeps, RxLoopKeeps, TickKeeps, HandlerKeepsInv
       DEF LoopNext, TickHandler
  <2>. QED  BY <2>1, <2>2
<1>. QED  BY <1>1, LoopStarts, PTL DEF LoopSpec

-----------------------------------------------------------------------------
(* The contents of the control packets, from LoopInv.                      *)

\* What the header of a packet for the slot after tick s says.
HeaderOf(p) ==
  p.kind # "dl_control" => p.slot = HeaderSlot(p.tick) /\ p.sfn = HeaderSfn(p.tick)

\* UL control that was sent has its DDR configuration, or DL control comes next.
DdrInv ==
  /\ bridge_pc = "ul_control" => "ul" \in Ahead(Tick)
  /\ faults = 0 =>
       \A k \in 1 .. Len(air) : air[k].kind = "ul_control" =>
         DdrSent(air[k].tick) \/ (bridge_pc = "dl_control" /\ Tick = air[k].tick)

HeadersInv == \A k \in 1 .. Len(air) : HeaderOf(air[k])

ContentsInv == DdrInv /\ HeadersInv

\* A packet that is appended, and what was there before.
LEMMA AirGrows ==
  ASSUME LoopTypeOK, NEW m, air' = Append(air, m)
  PROVE  /\ Len(air') = Len(air) + 1 /\ Len(air) \in Nat /\ air'[Len(air) + 1] = m
         /\ \A k \in 1 .. Len(air) : air'[k] = air[k]
         /\ \A s : DdrSent(s) => DdrSent(s)'
<1>1. /\ Len(air') = Len(air) + 1 /\ Len(air) \in Nat /\ air'[Len(air) + 1] = m
      /\ \A k \in 1 .. Len(air) : air'[k] = air[k]
  <2>1. air \in Seq(AirPackets)
    BY DEF LoopTypeOK
  <2>. QED  BY <2>1
<1>2. ASSUME NEW s, DdrSent(s)  PROVE DdrSent(s)'
  <2>1. PICK k \in 1 .. Len(air) : air[k].tick = s /\ air[k].ddr = Ahead(s)
    BY <1>2 DEF DdrSent
  <2>2. k \in 1 .. Len(air') /\ air'[k] = air[k]
    BY <1>1
  <2>. QED  BY <2>1, <2>2 DEF DdrSent
<1>. QED  BY <1>1, <1>2

\* Steps that send nothing, and either leave the handler where it is or find it
\* in the loop or before the DL data.
LEMMA ContentsStay ==
  ASSUME LoopTypeOK, ContentsInv, air' = air, faults = 0 \/ faults' # 0,
         \/ bridge_pc' = bridge_pc /\ Tick' = Tick
         \/ /\ bridge_pc # "dl_control" \/ faults' # 0
            /\ bridge_pc' # "ul_control" \/ "ul" \in Ahead(Tick')
  PROVE  ContentsInv'
<1>1. \A s : DdrSent(s)' = DdrSent(s)
  BY DEF DdrSent
<1>2. bridge_pc' = "ul_control" => "ul" \in Ahead(Tick)'
  <2>1. bridge_pc' = "ul_control" => "ul" \in Ahead(Tick')
    BY DEF ContentsInv, DdrInv
  <2>. QED  BY <2>1 DEF Ahead, SlotNo
<1>3. ASSUME faults' = 0, NEW k \in 1 .. Len(air'), air'[k].kind = "ul_control"
      PROVE  DdrSent(air[k].tick)'
             \/ (bridge_pc' = "dl_control" /\ Tick' = air'[k].tick)
  <2>1. DdrSent(air[k].tick) \/ (bridge_pc = "dl_control" /\ Tick = air[k].tick)
    BY <1>3 DEF ContentsInv, DdrInv
  <2>. QED  BY <1>1, <1>3, <2>1
<1>4. DdrInv'
  BY <1>1, <1>2, <1>3, Zenon DEF DdrInv
<1>5. HeadersInv'
  BY DEF ContentsInv, HeadersInv
<1>. QED  BY <1>4, <1>5 DEF ContentsInv

\* Steps that send a packet for the tick being handled.
LEMMA ContentsGrow ==
  ASSUME LoopTypeOK, ContentsInv, NEW m, air' = Append(air, m), faults' = faults,
         HeaderOf(m), m.tick = Tick, bridge_pc' # "ul_control",
         bridge_pc = "dl_control" => m.ddr = Ahead(Tick),
         m.kind = "ul_control" => \/ m.ddr = Ahead(Tick)
                                  \/ bridge_pc' = "dl_control" /\ Tick' = Tick
  PROVE  ContentsInv'
<1>1. /\ Len(air') = Len(air) + 1 /\ Len(air) \in Nat /\ air'[Len(air) + 1] = m
      /\ \A k \in 1 .. Len(air) : air'[k] = air[k]
      /\ \A s : DdrSent(s) => DdrSent(s)'
  BY AirGrows
<1>2. \A k \in 1 .. Len(air') : k \in 1 .. Len(air) \/ k = Len(air) + 1
  BY <1>1
<1>3. m.ddr = Ahead(Tick) => DdrSent(m.tick)'
  <2>1. Len(air) + 1 \in 1 .. Len(air')
    BY <1>1
  <2>2. Ahead(m.tick)' = Ahead(m.tick)
    BY DEF Ahead, SlotNo
  <2>. QED  BY <1>1, <2>1, <2>2 DEF DdrSent
<1>4. ASSUME faults' = 0, NEW k \in 1 .. Len(air'), air'[k].kind = "ul_control"
      PROVE  DdrSent(air[k].tick)'
             \/ (bridge_pc' = "dl_control" /\ Tick' = air'[k].tick)
  <2>1. CASE k \in 1 .. Len(air)
    <3>1. air'[k] = air[k]
      BY <1>1, <2>1
    <3>2. DdrSent(air[k].tick) \/ (bridge_pc = "dl_control" /\ Tick = air[k].tick)
      BY <1>4, <2>1, <3>1 DEF ContentsInv, DdrInv
    <3>3. PICK s : s = air[k].tick
      OBVIOUS
    <3>4. DdrSent(s) => DdrSent(s)'
      BY <1>1
    <3>5. bridge_pc = "dl_control" /\ Tick = s => DdrSent(s)'
      BY <1>3
    <3>. QED  BY <3>1, <3>2, <3>3, <3>4, <3>5
  <2>2. CASE k = Len(air) + 1
    BY <1>1, <1>3, <1>4, <2>2
  <2>. QED  BY <1>2, <2>1, <2>2
<1>5. DdrInv'
  BY <1>4, Zenon DEF DdrInv
<1>6. HeadersInv'
  <2>1. \A k \in 1 .. Len(air') : HeaderOf(air'[k])
    BY <1>1, <1>2 DEF ContentsInv, HeadersInv
  <2>. QED  BY <2>1 DEF HeadersInv, HeaderOf
<1>. QED  BY <1>5, <1>6 DEF ContentsInv

\* Nothing has been sent at the start.
LEMMA ContentsStart == LoopInit => ContentsInv
BY DEF LoopInit, ContentsInv, DdrInv, HeadersInv

\* Every step keeps what is known of the packets sent.
LEMMA ContentsKept ==
  LoopInv /\ ContentsInv /\ [LoopNext]_loopVars => ContentsInv'
<1>. SUFFICES ASSUME LoopInv, ContentsInv, [LoopNext]_loopVars  PROVE ContentsInv'
  OBVIOUS
<1>1. LoopTypeOK /\ faults \in Nat
  BY BridgeAssumption DEF LoopInv, LoopTypeOK
<1>2. Fails => faults' # 0
  BY <1>1 DEF Fails
<1>3. CASE UNCHANGED loopVars
  BY <1>1, <1>3, ContentsStay DEF loopVars, fpgaVars, bridgeVars, Tick
<1>4. CASE Fpga
  <2>1. /\ air' = air /\ faults' = faults /\ bridge_pc' = bridge_pc
        /\ rx_pkts' = rx_pkts
    BY <1>4 DEF Fpga, FpgaTick, FpgaUlData
  <2>. QED  BY <1>1, <2>1, ContentsStay DEF Tick
<1>5. CASE RxLoop
  <2>1. /\ air' = air /\ faults' = faults /\ bridge_pc \in {"poll", "process"}
        /\ bridge_pc' \in {"poll", "process"}
    BY <1>5 DEF RxLoop, LoopClear, LoopBurst, LoopUlData, LoopBurstDone
  <2>. QED  BY <1>1, <2>1, ContentsStay
<1>6. CASE TickIgnored
  <2>1. /\ air' = air /\ faults' = faults /\ bridge_pc = "process"
        /\ bridge_pc' = "process"
    BY <1>6 DEF TickIgnored, HandlerMoves
  <2>. QED  BY <1>1, <2>1, ContentsStay
<1>7. CASE TickTaken
  <2>1. /\ air' = air /\ faults' = faults /\ bridge_pc = "process"
        /\ bridge_pc' = IF UlControlDue THEN "ul_control" ELSE AfterUlControl
        /\ TakesTickIf(bridge_pc' = "process")
    BY <1>7 DEF TickTaken, HandlerMoves
  <2>2. bridge_pc' = "ul_control" => UlControlDue /\ Tick' = Tick
    BY <2>1 DEF AfterUlControl, TakesTickIf, Tick
  <2>. QED  BY <1>1, <2>1, <2>2, ContentsStay DEF UlControlDue
<1>8. CASE UlControlDropped \/ ControlNoMem \/ DlControlDropped \/ DlDataFails
  <2>1. /\ air' = air /\ Fails
        /\ bridge_pc' \in {"process", "dl_control", "dl_data"}
    BY <1>8 DEF UlControlDropped, ControlNoMem, DlControlDropped, DlDataFails,
                HandlerMoves, AfterUlControl
  <2>. QED  BY <1>1, <1>2, <2>1, ContentsStay
<1>9. CASE UlControlSent
  <2>. DEFINE config == IF "dl" \in Ahead(Tick) THEN {} ELSE {"ul"}
              m == Sent("ul_control", Tick, config)
  <2>1. /\ air' = Append(air, m) /\ faults' = faults /\ bridge_pc = "ul_control"
        /\ bridge_pc' = AfterUlControl /\ TakesTickIf(AfterUlControl = "process")
    BY <1>9 DEF UlControlSent, HandlerMoves, Transmits
  <2>2. TickAtHead /\ Ahead(Tick) \in SUBSET {"ul", "dl"} /\ "ul" \in Ahead(Tick)
    <3>1. TickAtHead
      BY <1>1, <2>1 DEF LoopTypeOK
    <3>. QED  BY <1>1, <2>1, <3>1, SentType DEF ContentsInv, DdrInv
  <2>3. config = Ahead(Tick) \/ (bridge_pc' = "dl_control" /\ Tick' = Tick)
    BY <2>1, <2>2 DEF AfterUlControl, TakesTickIf, Tick
  <2>4. bridge_pc' # "ul_control"
    BY <2>1 DEF AfterUlControl
  <2>. HIDE DEF config
  <2>5. HeaderOf(m) /\ m.tick = Tick /\ m.ddr = config /\ m.kind = "ul_control"
    BY DEF HeaderOf, Sent
  <2>. HIDE DEF m
  <2>. QED  BY <1>1, <2>1, <2>3, <2>4, <2>5, ContentsGrow
<1>10. CASE DlControlSent
  <2>. DEFINE m == [Sent("dl_control", Tick, Ahead(Tick)) EXCEPT !.sfn = 65535]
  <2>1. /\ air' = Append(air, m) /\ faults' = faults /\ bridge_pc' = "dl_data"
    BY <1>10 DEF DlControlSent, HandlerMoves, Transmits
  <2>2. m.kind = "dl_control" /\ m.tick = Tick /\ m.ddr = Ahead(Tick)
    BY DEF Sent
  <2>. HIDE DEF m
  <2>. QED  BY <1>1, <2>1, <2>2, ContentsGrow DEF HeaderOf
<1>11. CASE DlDataSent
  <2>. DEFINE m == Sent("dl_data", Tick, {})
  <2>1. /\ air' = Append(air, m) /\ faults' = faults /\ bridge_pc = "dl_data"
        /\ bridge_pc' = "process"
    BY <1>11 DEF DlDataSent, HandlerMoves, Transmits
  <2>2. HeaderOf(m) /\ m.kind = "dl_data" /\ m.tick = Tick
    BY DEF HeaderOf, Sent
  <2>. HIDE DEF m
  <2>. QED  BY <1>1, <2>1, <2>2, ContentsGrow
<1>. QED
  BY <1>3, <1>4, <1>5, <1>6, <1>7, <1>8, <1>9, <1>10, <1>11
     DEF LoopNext, TickHandler, DlData

\* LoopInv and ContentsInv hold in every state.
LEMMA ContentsInvariance == LoopSpec => [](LoopInv /\ ContentsInv)
<1>. QED  BY LoopInvariance, ContentsStart, ContentsKept, PTL DEF LoopSpec

\* Quotient and rest are what they are found to be.
LEMMA Division ==
  ASSUME NEW n \in Nat, NEW k \in Nat \ {0}, NEW q \in Nat, NEW r \in 0 .. k - 1,
         n = k * q + r
  PROVE  n \div k = q /\ n % k = r
<1>. DEFINE d == n \div k
            e == n % k
<1>1. d \in Nat /\ e \in 0 .. k - 1 /\ n = k * d + e
  OBVIOUS
<1>. HIDE DEF d, e
<1>2. k * (d - q) = r - e
  BY <1>1
<1>3. CASE d - q >= 1
  <2>1. k * (d - q) >= k
    BY <1>1, <1>3
  <2>. QED  BY <1>1, <1>2, <2>1
<1>4. CASE d - q <= -1
  <2>1. k * (d - q) <= -k
    BY <1>1, <1>4
  <2>. QED  BY <1>1, <1>2, <2>1
<1>5. CASE d = q
  BY <1>1, <1>5 DEF d, e
<1>. QED  BY <1>1, <1>3, <1>4, <1>5

\* The counters two slots on, unless the SFN wraps there.
LEMMA CountersTwoOn ==
  ASSUME NEW s \in Nat, (s + 2) % Cycle >= 2
  PROVE  HeaderSlot(s) = SlotNo(s + 2) /\ HeaderSfn(s) = SfnNo(s + 2)
<1>1. PICK slots \in Nat \ {0}, sfns \in Nat \ {0} :
        /\ slots = NumSlotsPerSfn /\ sfns = NumSfn /\ sfns <= 2^16
        /\ Cycle = slots * sfns
  BY BridgeAssumption DEF Cycle
<1>2. PICK q \in Nat, r \in 0 .. slots - 1 :
        s = slots * q + r /\ SlotNo(s) = r /\ s \div slots = q
  BY <1>1 DEF SlotNo
<1>3. PICK a \in Nat, b \in 0 .. sfns - 1 : q = sfns * a + b /\ q % sfns = b
  <2>1. q \div sfns \in Nat /\ q % sfns \in 0 .. sfns - 1
        /\ q = sfns * (q \div sfns) + (q % sfns)
    BY <1>2
  <2>. QED  BY <2>1
<1>4. PICK c \in Nat, d \in 0 .. slots - 1 :
        r + 2 = slots * c + d /\ (r + 2) \div slots = c /\ (r + 2) % slots = d
  <2>1. /\ (r + 2) \div slots \in Nat /\ (r + 2) % slots \in 0 .. slots - 1
        /\ r + 2 = slots * ((r + 2) \div slots) + ((r + 2) % slots)
    BY <1>2
  <2>. QED  BY <2>1
<1>5. s + 2 = slots * (q + c) + d
  BY <1>2, <1>4
<1>6. (s + 2) \div slots = q + c /\ (s + 2) % slots = d
  <2>. DEFINE n == s + 2
              m == q + c
  <2>1. n \in Nat /\ m \in Nat /\ n = slots * m + d
    BY <1>2, <1>4, <1>5
  <2>. HIDE DEF n, m
  <2>2. n \div slots = m /\ n % slots = d
    BY <1>4, <2>1, Division
  <2>. QED  BY <2>2 DEF n, m
<1>7. HeaderSlot(s) = SlotNo(s + 2)
  BY <1>1, <1>2, <1>4, <1>6 DEF HeaderSlot, SlotNo
<1>8. b + c < sfns
  <2>. SUFFICES ASSUME b + c >= sfns  PROVE FALSE
    BY <1>3, <1>4
  <2>. DEFINE x == slots * (b + c - sfns) + d
              cycle == slots * sfns
  <2>1. s + 2 = cycle * (a + 1) + x
    <3>1. slots * (sfns * a + b + c) = cycle * (a + 1) + slots * (b + c - sfns)
      BY <1>2, <1>3, <1>4
    <3>. QED  BY <1>3, <1>5, <3>1
  <2>2. x \in Nat
    BY <1>3, <1>4
  <2>3. x <= 1
    <3>1. x = slots * b + r + 2 - cycle
      BY <1>2, <1>3, <1>4
    <3>2. slots * b <= slots * (sfns - 1)
      BY <1>3
    <3>. QED  BY <1>2, <1>3, <1>4, <3>1, <3>2
  <2>4. cycle \in Nat \ {0}
    BY <1>1
  <2>. HIDE DEF x, cycle
  <2>5. CASE x < cycle
    BY <1>1, <2>1, <2>2, <2>3, <2>4, <2>5, Division DEF cycle
  <2>6. CASE x >= cycle
    <3>1. cycle = 1
      BY <2>2, <2>3, <2>4, <2>6
    <3>. QED  BY <1>1, <3>1 DEF cycle
  <2>. QED  BY <2>2, <2>4, <2>5, <2>6
<1>9. SfnNo(s + 2) = b + c
  <2>1. q + c = sfns * a + (b + c)
    BY <1>3, <1>4
  <2>. DEFINE n == q + c
              m == b + c
  <2>2. n \in Nat /\ m \in 0 .. sfns - 1 /\ n = sfns * a + m
    BY <1>2, <1>3, <1>4, <1>8, <2>1
  <2>. HIDE DEF n, m
  <2>3. n % sfns = m
    BY <1>3, <2>2, Division
  <2>. QED  BY <1>1, <1>6, <2>3 DEF SfnNo, n, m
<1>10. HeaderSfn(s) = b + c
  <2>1. SfnNo(s) = b
    BY <1>1, <1>2, <1>3 DEF SfnNo
  <2>2. HeaderSfn(s) = (b + c) % 2^16
    BY <1>1, <1>2, <1>4, <2>1 DEF HeaderSfn
  <2>3. b + c \in 0 .. 2^16 - 1
    BY <1>1, <1>3, <1>4, <1>8
  <2>. QED  BY <2>2, <2>3
<1>. QED  BY <1>7, <1>9, <1>10

-----------------------------------------------------------------------------
(* UL control in time: while no tick is missed, ticks are counted slot by  *)
(* slot.                                                                   *)

\* Slots of the ticks that wait in p, without the one the handler has counted.
Uncounted(p, r) ==
  { p[i].slot : i \in { k \in 1 .. Len(p) : IsTick(p, k) /\ ~(k = 1 /\ r > 0) } }

\* next is the slot to count next: all from there on wait, and only the ticks from
\* before the start may precede it.  The counter has not run ahead of the slots,
\* and where it is beyond the period, the last slots were all without UL.
CountedTo(next, W, c, n) ==
  /\ next .. n - 1 \subseteq W
  /\ \A s \in W : /\ s \in Nat
                  /\ s >= next \/ next = FirstSlot
                  /\ c + FirstSlot <= s + MaxResidue
  /\ c + FirstSlot <= next + MaxResidue
  /\ \A s \in FirstSlot .. next - 1 :
       s + c + 1 >= next + UlControlPeriod => "ul" \notin Ahead(s)

Gapless(W, c, n) == \E next \in FirstSlot .. n : CountedTo(next, W, c, n)

GapInv ==
  /\ init_state # 2 => ul_control_tick_counter = 0
  /\ missed = 0 =>
       Gapless(Uncounted(Pending, RankOf(bridge_pc)), ul_control_tick_counter, now)

\* Some slot of the schedule is for UL.
SomeUl == \E s \in 0 .. NumSlotsPerSfn - 1 : "ul" \in Schedule[s]

\* The next tick comes in.
LEMMA GapGrows ==
  ASSUME NEW W, NEW c \in Nat, NEW n \in Nat, FirstSlot <= n, Gapless(W, c, n)
  PROVE  Gapless(W \cup {n}, c, n + 1)
<1>1. PICK next \in FirstSlot .. n : CountedTo(next, W, c, n)
  BY DEF Gapless
<1>2. FirstSlot \in Nat /\ MaxResidue \in Nat /\ next \in FirstSlot .. n + 1
      /\ next \in Nat
  BY BridgeAssumption
<1>3. CountedTo(next, W \cup {n}, c, n + 1)
  <2>1. next .. (n + 1) - 1 \subseteq W \cup {n}
    BY <1>1, <1>2 DEF CountedTo
  <2>2. ASSUME NEW s \in W \cup {n}
        PROVE  /\ s \in Nat
               /\ s >= next \/ next = FirstSlot
               /\ c + FirstSlot <= s + MaxResidue
    <3>1. CASE s \in W
      BY <1>1, <3>1 DEF CountedTo
    <3>2. CASE s = n
      BY <1>1, <1>2, <3>2 DEF CountedTo
    <3>. QED  BY <3>1, <3>2
  <2>. QED  BY <1>1, <2>1, <2>2 DEF CountedTo
<1>. QED  BY <1>2, <1>3 DEF Gapless

\* Ticks from before the start may go.
LEMMA GapShrinks ==
  ASSUME NEW W, NEW V, NEW c \in Nat, NEW n \in Nat, Gapless(W, c, n),
         V \subseteq W, \A s \in W : s >= FirstSlot => s \in V
  PROVE  Gapless(V, c, n)
<1>1. PICK next \in FirstSlot .. n : CountedTo(next, W, c, n)
  BY DEF Gapless
<1>2. FirstSlot \in Nat
  BY BridgeAssumption
<1>3. CountedTo(next, V, c, n)
  <2>1. next .. n - 1 \subseteq V
    BY <1>1, <1>2 DEF CountedTo
  <2>. QED  BY <1>1, <2>1 DEF CountedTo
<1>. QED  BY <1>3 DEF Gapless

\* The earliest tick is taken: it is counted, or the counter starts again.
LEMMA GapTaken ==
  ASSUME NEW W, NEW V, NEW c \in Nat, NEW n \in Nat, Gapless(W, c, n),
         NEW m \in W, m < n, \A s \in W : s = m \/ s > m, V = W \ {m},
         NEW d \in Nat,
         \/ d = 0
         \/ d = c + 1 /\ ("ul" \in Ahead(m) => d < UlControlPeriod)
  PROVE  Gapless(V, d, n)
<1>1. PICK next \in FirstSlot .. n : CountedTo(next, W, c, n)
  BY DEF Gapless
<1>2. /\ FirstSlot \in Nat /\ MaxResidue \in Nat /\ next \in Nat
      /\ UlControlPeriod \in Nat \ {0}
  BY BridgeAssumption
<1>3. /\ m \in Nat /\ c + FirstSlot <= m + MaxResidue
      /\ m >= next \/ next = FirstSlot
  BY <1>1 DEF CountedTo
<1>4. \A s \in V : s \in Nat /\ s > m /\ c + FirstSlot <= s + MaxResidue
  BY <1>1 DEF CountedTo
<1>5. \A s \in V : d + FirstSlot <= s + MaxResidue
  BY <1>2, <1>3, <1>4
<1>6. CASE m >= next
  <2>1. m = next
    <3>1. next \in next .. n - 1
      BY <1>2, <1>3, <1>6
    <3>2. next \in W
      BY <1>1, <3>1 DEF CountedTo
    <3>. QED  BY <1>2, <1>3, <1>6, <3>2
  <2>2. next + 1 \in FirstSlot .. n
    BY <1>2, <1>3, <2>1
  <2>3. CountedTo(next + 1, V, d, n)
    <3>1. next + 1 .. n - 1 \subseteq V
      BY <1>1, <1>2, <2>1 DEF CountedTo
    <3>2. \A s \in V : s >= next + 1
      BY <1>2, <1>4, <2>1
    <3>3. d + FirstSlot <= next + 1 + MaxResidue
      BY <1>2, <1>3, <2>1
    <3>4. ASSUME NEW s \in FirstSlot .. (next + 1) - 1,
                 s + d + 1 >= next + 1 + UlControlPeriod
          PROVE  "ul" \notin Ahead(s)
      <4>1. d = c + 1
        BY <1>2, <3>4
      <4>2. CASE s = next
        BY <1>2, <2>1, <3>4, <4>1, <4>2
      <4>3. CASE s # next
        <5>1. s \in FirstSlot .. next - 1 /\ s + c + 1 >= next + UlControlPeriod
          BY <1>2, <3>4, <4>1, <4>3
        <5>. QED  BY <1>1, <5>1 DEF CountedTo
      <4>. QED  BY <4>2, <4>3
    <3>. QED  BY <1>4, <1>5, <3>1, <3>2, <3>3, <3>4 DEF CountedTo
  <2>. QED  BY <2>2, <2>3 DEF Gapless
<1>7. CASE ~(m >= next)
  <2>1. next = FirstSlot
    BY <1>3, <1>7
  <2>2. next .. n - 1 \subseteq V
    BY <1>1, <1>2, <1>3, <1>7 DEF CountedTo
  <2>3. d + FirstSlot <= next + MaxResidue
    BY <1>2, <1>3, <1>7
  <2>4. FirstSlot .. next - 1 = {}
    BY <1>2, <2>1
  <2>5. CountedTo(next, V, d, n)
    BY <1>4, <1>5, <2>1, <2>2, <2>3, <2>4 DEF CountedTo
  <2>. QED  BY <2>5 DEF Gapless
<1>. QED  BY <1>6, <1>7

-----------------------------------------------------------------------------
(* What the steps do to the ticks that wait uncounted.                     *)

\* A tick that waits and has not reached the counter is uncounted.
LEMMA UncountedTick ==
  ASSUME NEW p, NEW r, NEW i \in 1 .. Len(p), IsTick(p, i), ~(i = 1 /\ r > 0)
  PROVE  p[i].slot \in Uncounted(p, r)
BY DEF Uncounted

\* Only whether the handler is past the counter matters, not how far.
LEMMA UncountedRank ==
  ASSUME NEW p, NEW r \in Nat, NEW t \in Nat, r > 0 <=> t > 0
  PROVE  Uncounted(p, r) = Uncounted(p, t)
BY DEF Uncounted

\* A packet that comes in behind.
LEMMA UncountedAppend ==
  ASSUME NEW p \in Seq(Packets), NEW m \in Packets, NEW r \in Nat,
         r > 0 => IsTick(p, 1)
  PROVE  /\ m.kind = "tick" =>
              Uncounted(Append(p, m), r) = Uncounted(p, r) \cup {m.slot}
         /\ m.kind = "ul" => Uncounted(Append(p, m), r) = Uncounted(p, r)
<1>. DEFINE q == Append(p, m)
            l == Len(p) + 1
<1>1. /\ Len(q) = l /\ l \in Nat \ {0} /\ Len(p) \in Nat /\ q[l] = m
      /\ \A i \in 1 .. Len(p) : q[i] = p[i]
  BY AppendProperties, LenProperties
<1>2. \A i \in 1 .. l : i \in 1 .. Len(p) \/ i = l
  BY <1>1
<1>3. \A i \in 1 .. Len(p) : i \in 1 .. l /\ (IsTick(q, i) <=> IsTick(p, i))
  BY <1>1 DEF IsTick
<1>4. l = 1 => ~(r > 0)
  BY <1>1 DEF IsTick
<1>5. IsTick(q, l) <=> m.kind = "tick"
  BY <1>1 DEF IsTick
<1>. HIDE DEF q, l
<1>6. Uncounted(q, r) = Uncounted(p, r) \cup (IF m.kind = "tick" THEN {m.slot} ELSE {})
  BY <1>1, <1>2, <1>3, <1>4, <1>5 DEF Uncounted
<1>. QED  BY <1>6, PacketType DEF q

\* Packets are taken from the front: of the ticks left none was counted.
LEMMA UncountedRest ==
  ASSUME NEW p \in Seq(Packets), NEW q \in Seq(Packets), NEW d \in Nat,
         IsRestOf(q, p, d)
  PROVE  /\ Uncounted(q, 0) \subseteq Uncounted(p, 0)
         /\ \A i \in 1 .. Len(p) :
              IsTick(p, i) /\ i > d => p[i].slot \in Uncounted(q, 0)
         /\ d = 1 => Uncounted(q, 0) = Uncounted(p, 1)
<1>1. Len(p) \in Nat /\ Len(q) \in Nat /\ Len(p) = Len(q) + d
  BY LenProperties DEF IsRestOf
<1>2. ASSUME NEW i \in 1 .. Len(q)
      PROVE  i + d \in 1 .. Len(p) /\ q[i] = p[i + d] /\ (IsTick(q, i) <=> IsTick(p, i + d))
  BY <1>1 DEF IsRestOf, IsTick
<1>3. ASSUME NEW i \in 1 .. Len(p), i > d
      PROVE  i - d \in 1 .. Len(q) /\ (i - d) + d = i
  BY <1>1, <1>3
<1>4. Uncounted(q, 0) \subseteq Uncounted(p, 0)
  BY <1>2 DEF Uncounted
<1>5. ASSUME NEW i \in 1 .. Len(p), IsTick(p, i), i > d
      PROVE  p[i].slot \in Uncounted(q, 0)
  <2>1. PICK j \in 1 .. Len(q) : j + d = i
    BY <1>3, <1>5
  <2>2. IsTick(q, j) /\ q[j] = p[i]
    BY <1>2, <1>5, <2>1
  <2>. QED  BY <2>2, UncountedTick
<1>6. ASSUME d = 1  PROVE Uncounted(q, 0) = Uncounted(p, 1)
  <2>1. ASSUME NEW i \in 1 .. Len(q), IsTick(q, i)
        PROVE  q[i].slot \in Uncounted(p, 1)
    <3>1. i + d \in 1 .. Len(p) /\ IsTick(p, i + d) /\ q[i] = p[i + d] /\ i + d # 1
      BY <1>1, <1>2, <1>6, <2>1
    <3>. QED  BY <3>1, UncountedTick
  <2>2. ASSUME NEW i \in 1 .. Len(p), IsTick(p, i), i # 1
        PROVE  p[i].slot \in Uncounted(q, 0)
    BY <1>1, <1>5, <1>6, <2>2
  <2>. QED  BY <2>1, <2>2 DEF Uncounted
<1>. QED  BY <1>4, <1>5, <1>6

\* The first tick is taken, and it is the earliest.
LEMMA UncountedTaken ==
  ASSUME NEW p \in Seq(Packets), NEW n \in Nat, TicksOrdered(p, n), IsTick(p, 1)
  PROVE  /\ p[1].slot \in Uncounted(p, 0)
         /\ Uncounted(p, 1) = Uncounted(p, 0) \ {p[1].slot}
         /\ \A s \in Uncounted(p, 0) : s = p[1].slot \/ s > p[1].slot
         /\ p[1].slot < n
<1>1. \A i \in 1 .. Len(p) : p[i].slot \in Nat
  BY PacketType
<1>2. 1 \in 1 .. Len(p) /\ p[1].slot < n
  BY DEF IsTick, TicksOrdered
<1>3. ASSUME NEW i \in 1 .. Len(p), IsTick(p, i), i # 1
      PROVE  p[1].slot < p[i].slot
  BY <1>2, <1>3 DEF TicksOrdered
<1>4. \A i \in 1 .. Len(p) : IsTick(p, i) /\ i # 1 => p[i].slot # p[1].slot
  BY <1>1, <1>2, <1>3
<1>5. Uncounted(p, 1) = Uncounted(p, 0) \ {p[1].slot}
  BY <1>2, <1>4 DEF Uncounted
<1>6. \A s \in Uncounted(p, 0) : s = p[1].slot \/ s > p[1].slot
  BY <1>1, <1>2, <1>3 DEF Uncounted
<1>. QED  BY <1>2, <1>5, <1>6, UncountedTick

\* A tick says by its number whether it is from before the start.
LEMMA FreshBySlot ==
  ASSUME NEW p \in Packets, p.kind = "tick"
  PROVE  p.fresh <=> p.slot >= FirstSlot
<1>1. PICK s \in 0 .. LastSlot : p = TickOf(s)
  BY DEF Packets, UlData
<1>. QED  BY <1>1 DEF TickOf

-----------------------------------------------------------------------------
(* The steps.                                                              *)

\* Nothing has been counted at the start.
LEMMA GapStart == LoopInit => GapInv
<1>. SUFFICES ASSUME LoopInit  PROVE GapInv
  OBVIOUS
<1>1. LoopInv
  BY LoopStarts
<1>2. /\ FirstSlot \in Nat /\ MaxResidue \in Nat /\ now = FirstSlot
      /\ ul_control_tick_counter = 0 /\ init_state = 0 /\ RankOf(bridge_pc) = 0
  BY BridgeAssumption DEF LoopInit, RankOf
<1>3. Pending \in Seq(Packets) /\ TicksOrdered(Pending, FirstSlot)
  BY <1>1, <1>2, PendingType DEF LoopInv, OrderInv, PendingFacts
<1>4. ASSUME missed = 0, NEW s \in Uncounted(Pending, 0)
      PROVE  s \in Nat /\ 0 + FirstSlot <= s + MaxResidue
  <2>1. PICK n \in 0 .. MaxResidue, ticks \in Nat, next \in Nat :
          /\ ticks <= n /\ FirstTick + ticks <= next /\ next <= FirstSlot
          /\ nic \in Residue(n, next - ticks, next) /\ missed = FirstSlot - next
    BY ResidueAtStart
  <2>2. next = FirstSlot /\ FirstSlot - ticks \in Nat
    BY <1>2, <1>4, <2>1, BridgeAssumption
  <2>3. nic \in Residue(n, FirstSlot - ticks, FirstSlot)
    BY <2>1, <2>2
  <2>4. \A k \in 1 .. n : nic[k].kind = "tick" => nic[k].slot >= FirstSlot - ticks
    BY <1>2, <2>2, <2>3 DEF Residue, TickOf, UlData
  <2>5. /\ Len(nic) = n /\ rx_pkts = <<>> /\ PendingFacts
    BY <1>1, <1>2, <2>1, PendingType DEF LoopInv, LoopInit, Residue
  <2>6. \A k \in 1 .. Len(Pending) : Pending[k].slot \in Nat /\ Pending[k] = nic[k]
    BY <1>3, <2>5, PacketType DEF PendingFacts
  <2>7. Len(Pending) = n
    BY <2>5 DEF PendingFacts
  <2>8. PICK k \in 1 .. n : s = nic[k].slot /\ nic[k].kind = "tick"
    BY <1>4, <2>6, <2>7 DEF Uncounted, IsTick
  <2>9. s \in Nat /\ s >= FirstSlot - ticks
    BY <2>4, <2>6, <2>7, <2>8
  <2>. QED  BY <1>2, <2>1, <2>9
<1>5. missed = 0 => CountedTo(FirstSlot, Uncounted(Pending, 0), 0, FirstSlot)
  <2>1. FirstSlot .. FirstSlot - 1 = {}
    BY <1>2
  <2>. QED  BY <1>2, <1>4, <2>1 DEF CountedTo
<1>. QED  BY <1>2, <1>5 DEF GapInv, Gapless

\* What the steps below have in common.
GapFacts ==
  /\ LoopTypeOK /\ PendingFacts
  /\ Pending \in Seq(Packets) /\ TicksOrdered(Pending, now)
  /\ RankOf(bridge_pc) \in Nat
  /\ RankOf(bridge_pc) > 0 => IsTick(Pending, 1)
  /\ ul_control_tick_counter \in Nat /\ missed \in Nat
  /\ now \in Nat /\ FirstSlot <= now

\* What the lemmas below need of LoopInv.
LEMMA LoopInvGapFacts == LoopInv => GapFacts
<1>. SUFFICES ASSUME LoopInv  PROVE GapFacts
  OBVIOUS
<1>1. LoopTypeOK /\ PendingFacts
  BY PendingType DEF LoopInv
<1>2. RankOf(bridge_pc) \in Nat
  BY <1>1 DEF RankOf
<1>. QED
  BY <1>1, <1>2, BridgeAssumption
     DEF GapFacts, LoopInv, OrderInv, AirBehind, PendingFacts, LoopTypeOK

\* Nothing is counted, and the packets that wait are the same.
LEMMA GapStays ==
  ASSUME GapFacts, GapInv, Pending' = Pending, now' = now, missed' = missed,
         init_state = 2 => init_state' = 2,
         ul_control_tick_counter' = ul_control_tick_counter,
         RankOf(bridge_pc)' \in Nat, RankOf(bridge_pc)' > 0 <=> RankOf(bridge_pc) > 0
  PROVE  GapInv'
<1>1. Uncounted(Pending, RankOf(bridge_pc))' = Uncounted(Pending, RankOf(bridge_pc))
  <2>1. PICK r \in Nat, t \in Nat : r = RankOf(bridge_pc) /\ t = RankOf(bridge_pc)'
    BY DEF GapFacts
  <2>2. Uncounted(Pending, r) = Uncounted(Pending, t)
    BY <2>1, UncountedRank
  <2>3. Uncounted(Pending, RankOf(bridge_pc))' = Uncounted(Pending', t)
    BY <2>1
  <2>. QED  BY <2>1, <2>2, <2>3
<1>. QED  BY <1>1 DEF GapInv

\* A tick that arrives is the one after those that wait, unless one was missed.
LEMMA FpgaKeepsGap ==
  ASSUME GapFacts, GapInv, Fpga  PROVE GapInv'
<1>1. /\ rx_pkts' = rx_pkts /\ bridge_pc' = bridge_pc /\ init_state' = init_state
      /\ ul_control_tick_counter' = ul_control_tick_counter
  BY DEF Fpga, FpgaTick, FpgaUlData
<1>2. rx_pkts \in Seq(Packets) /\ nic \in Seq(Packets) /\ LastSlot \in Nat
  BY BridgeAssumption DEF GapFacts, LoopTypeOK
<1>3. ASSUME NEW m \in Packets, nic' = Append(nic, m)
      PROVE  Pending' = Append(Pending, m)
  <2>1. rx_pkts \o Append(nic, m) = Append(rx_pkts \o nic, m)
    BY <1>2
  <2>. QED  BY <1>1, <1>3, <2>1 DEF Pending
<1>. DEFINE r == RankOf(bridge_pc)
            c == ul_control_tick_counter
<1>4. r' = r /\ r \in Nat /\ (r > 0 => IsTick(Pending, 1))
  BY <1>1 DEF GapFacts
<1>5. CASE FpgaTick
  <2>. SUFFICES ASSUME missed' = 0  PROVE Gapless(Uncounted(Pending, r)', c, now')
    BY <1>1 DEF GapInv
  <2>1. now \in 0 .. LastSlot /\ now' = now + 1
    BY <1>5 DEF FpgaTick, GapFacts
  <2>2. nic' = Append(nic, TickOf(now)) /\ missed = 0
    BY <1>5 DEF FpgaTick, GapFacts
  <2>3. TickOf(now) \in Packets /\ TickOf(now).kind = "tick" /\ TickOf(now).slot = now
    BY <2>1, PacketType
  <2>4. Uncounted(Pending, r)' = Uncounted(Pending, r) \cup {now}
    <3>1. Pending' = Append(Pending, TickOf(now))
      BY <1>3, <2>2, <2>3
    <3>. HIDE DEF r
    <3>2. Uncounted(Append(Pending, TickOf(now)), r) = Uncounted(Pending, r) \cup {now}
      BY <1>4, <2>3, UncountedAppend DEF GapFacts
    <3>. QED  BY <1>4, <3>1, <3>2
  <2>5. Gapless(Uncounted(Pending, r), c, now)
    BY <2>2 DEF GapInv
  <2>. HIDE DEF r, c
  <2>6. c \in Nat
    BY DEF c, GapFacts
  <2>7. Gapless(Uncounted(Pending, r) \cup {now}, c, now + 1)
    BY <2>5, <2>6, GapGrows DEF GapFacts
  <2>. QED  BY <2>1, <2>4, <2>7
<1>6. CASE FpgaUlData
  <2>1. now' = now /\ missed' = missed /\ nic' = Append(nic, UlData(TRUE))
    BY <1>6 DEF FpgaUlData
  <2>2. UlData(TRUE) \in Packets /\ UlData(TRUE).kind = "ul"
    BY PacketType
  <2>3. Uncounted(Pending, r)' = Uncounted(Pending, r)
    <3>1. Pending' = Append(Pending, UlData(TRUE))
      BY <1>3, <2>1, <2>2
    <3>. HIDE DEF r
    <3>2. Uncounted(Append(Pending, UlData(TRUE)), r) = Uncounted(Pending, r)
      BY <1>4, <2>2, UncountedAppend DEF GapFacts
    <3>. QED  BY <1>4, <3>1, <3>2
  <2>. QED  BY <1>1, <2>1, <2>3 DEF GapInv
<1>. QED  BY <1>5, <1>6 DEF Fpga

\* What is taken from the front leaves the rest, if it was counted or is no tick.
LEMMA GapHeadGone ==
  ASSUME GapFacts, GapInv, rx_pkts # <<>>, rx_pkts' = Tail(rx_pkts), nic' = nic,
         RankOf(bridge_pc) > 0 \/ ~IsTick(Pending, 1),
         RankOf(bridge_pc)' = 0, now' = now, missed' = missed,
         init_state = 2 => init_state' = 2,
         ul_control_tick_counter' = ul_control_tick_counter
  PROVE  GapInv'
<1>1. IsRestOf(Pending', Pending, 1) /\ Pending' \in Seq(Packets)
  BY HeadTaken DEF GapFacts
<1>2. Uncounted(Pending', 0) = Uncounted(Pending, 1)
  BY <1>1, UncountedRest DEF GapFacts
<1>3. PICK r \in Nat : r = RankOf(bridge_pc)
  BY DEF GapFacts
<1>4. Uncounted(Pending, 1) = Uncounted(Pending, r)
  <2>1. CASE r > 0
    BY <2>1, UncountedRank
  <2>2. CASE ~(r > 0)
    <3>1. ~IsTick(Pending, 1)
      BY <1>3, <2>2
    <3>. QED  BY <3>1 DEF Uncounted
  <2>. QED  BY <2>1, <2>2
<1>5. Uncounted(Pending, RankOf(bridge_pc))' = Uncounted(Pending', 0)
  OBVIOUS
<1>. QED  BY <1>2, <1>3, <1>4, <1>5 DEF GapInv

\* Bursts dropped in the clearing: if no tick is missed by that, they held none
\* from after the start.
LEMMA ClearKeepsGap ==
  ASSUME GapFacts, GapInv, LoopClear  PROVE GapInv'
<1>. DEFINE rest == SubSeq(nic, MaxBurst + 1, Len(nic))
<1>1. /\ nic' = rest /\ rx_pkts' = rx_pkts /\ rx_pkts = <<>> /\ now' = now
      /\ init_state' = init_state /\ bridge_pc' = "poll" /\ bridge_pc = "poll"
      /\ Len(Burst) = MaxBurst /\ missed' = missed + FreshTicks(Burst)
      /\ ul_control_tick_counter' = ul_control_tick_counter
  BY DEF LoopClear, GapFacts, LoopTypeOK, fpgaVars
<1>2. /\ LoopTypeOK /\ nic \in Seq(Packets) /\ MaxBurst \in Nat /\ Len(nic) \in Nat
  BY BridgeAssumption, LenProperties DEF GapFacts, LoopTypeOK
<1>3. /\ Burst \in Seq(Packets) /\ MaxBurst <= Len(nic)
      /\ \A i \in 1 .. MaxBurst : Burst[i] = nic[i]
  BY <1>1, <1>2, BurstIsFront
<1>4. /\ rest \in Seq(Packets) /\ Len(rest) = Len(nic) - MaxBurst
      /\ \A i \in 1 .. Len(nic) - MaxBurst : rest[i] = nic[i + MaxBurst]
  BY <1>2, <1>3, RestOfRing
<1>. HIDE DEF rest
<1>5. Pending = nic /\ Pending' = rest
  BY <1>1, <1>2, <1>4 DEF Pending
<1>6. IsRestOf(rest, nic, MaxBurst)
  BY <1>2, <1>3, <1>4 DEF IsRestOf
<1>7. RankOf(bridge_pc) = 0 /\ RankOf(bridge_pc)' = 0
  BY <1>1 DEF RankOf
<1>8. ASSUME missed' = 0  PROVE Gapless(Uncounted(rest, 0), ul_control_tick_counter, now)
  <2>1. missed = 0 /\ FreshTicks(Burst) = 0
    BY <1>1, <1>3, <1>8, FreshTicksType DEF GapFacts
  <2>2. \A i \in 1 .. MaxBurst : ~(nic[i].kind = "tick" /\ nic[i].fresh)
    BY <1>1, <1>3, <2>1, FreshTicksType
  <2>3. ASSUME NEW s \in Uncounted(nic, 0), s >= FirstSlot
        PROVE  s \in Uncounted(rest, 0)
    <3>1. PICK i \in 1 .. Len(nic) : IsTick(nic, i) /\ s = nic[i].slot
      BY DEF Uncounted
    <3>2. nic[i] \in Packets /\ nic[i].kind = "tick"
      BY <1>2, <3>1, ElementOfSeq DEF IsTick
    <3>3. nic[i].fresh
      BY <2>3, <3>1, <3>2, FreshBySlot
    <3>4. i > MaxBurst
      BY <1>2, <2>2, <3>2, <3>3
    <3>. QED  BY <1>2, <1>4, <1>6, <3>1, <3>4, UncountedRest
  <2>4. Uncounted(rest, 0) \subseteq Uncounted(nic, 0)
    BY <1>2, <1>4, <1>6, UncountedRest
  <2>5. Gapless(Uncounted(nic, 0), ul_control_tick_counter, now)
    BY <1>5, <1>7, <2>1 DEF GapInv
  <2>. QED  BY <2>3, <2>4, <2>5, GapShrinks DEF GapFacts
<1>9. Uncounted(Pending, RankOf(bridge_pc))' = Uncounted(rest, 0)
  BY <1>5, <1>7
<1>. QED  BY <1>1, <1>8, <1>9 DEF GapInv

\* The receive loop leaves no gap behind what it takes.
LEMMA RxLoopKeepsGap ==
  ASSUME GapFacts, GapInv, RxLoop  PROVE GapInv'
<1>1. /\ nic \in Seq(Packets) /\ Len(nic) \in Nat /\ LoopTypeOK
  BY LenProperties DEF GapFacts, LoopTypeOK
<1>2. CASE LoopClear
  BY <1>2, ClearKeepsGap
<1>3. CASE LoopBurst
  <2>1. /\ nic' = SubSeq(nic, Len(Burst) + 1, Len(nic)) /\ rx_pkts' = Burst
        /\ rx_pkts = <<>> /\ now' = now /\ missed' = missed
        /\ init_state = 2 => init_state' = 2
        /\ ul_control_tick_counter' = ul_control_tick_counter
        /\ bridge_pc = "poll" /\ bridge_pc' = "process"
    BY <1>1, <1>3 DEF LoopBurst, LoopTypeOK, fpgaVars
  <2>2. RankOf(bridge_pc) = 0 /\ RankOf(bridge_pc)' = 0
    BY <2>1 DEF RankOf
  <2>3. Pending' = Pending
    <3>1. PICK b \in Seq(Packets), l \in Nat :
            b = Burst /\ l = Len(b) /\ l <= Len(nic) /\ \A i \in 1 .. l : b[i] = nic[i]
      BY <1>1, BurstIsFront
    <3>2. PICK rest \in Seq(Packets) :
            /\ rest = SubSeq(nic, l + 1, Len(nic)) /\ Len(rest) = Len(nic) - l
            /\ \A i \in 1 .. Len(nic) - l : rest[i] = nic[i + l]
      BY <1>1, <3>1, RestOfRing
    <3>3. /\ b \o rest \in Seq(Packets) /\ Len(b \o rest) = Len(nic)
          /\ \A i \in 1 .. Len(nic) :
               (b \o rest)[i] = IF i <= l THEN b[i] ELSE rest[i - l]
      BY <1>1, <3>1, <3>2, ConcatProperties
    <3>4. ASSUME NEW i \in 1 .. Len(nic)
          PROVE  (b \o rest)[i] = nic[i]
      <4>1. CASE i <= l
        BY <3>1, <3>3, <4>1
      <4>2. CASE i > l
        <5>1. i - l \in 1 .. Len(nic) - l /\ (i - l) + l = i
          BY <1>1, <3>1, <4>2
        <5>. QED  BY <3>1, <3>2, <3>3, <4>2, <5>1
      <4>3. i <= l \/ i > l
        OBVIOUS
      <4>. QED  BY <4>1, <4>2, <4>3
    <3>5. b \o rest = nic
      BY <1>1, <3>3, <3>4, SeqEqual
    <3>. QED  BY <1>1, <2>1, <3>1, <3>2, <3>5 DEF Pending
  <2>. QED  BY <2>1, <2>2, <2>3, GapStays
<1>4. CASE LoopUlData
  <2>1. /\ rx_pkts # <<>> /\ rx_pkts' = Tail(rx_pkts) /\ nic' = nic
        /\ now' = now /\ missed' = missed /\ init_state' = init_state
        /\ ul_control_tick_counter' = ul_control_tick_counter
        /\ bridge_pc' = "process" /\ Head(rx_pkts).kind = "ul"
    BY <1>4 DEF LoopUlData, fpgaVars
  <2>2. RankOf(bridge_pc)' = 0
    BY <2>1 DEF RankOf
  <2>3. ~IsTick(Pending, 1)
    <3>1. rx_pkts \in Seq(Packets)
      BY <1>1 DEF LoopTypeOK
    <3>2. Len(rx_pkts) \in Nat /\ 1 <= Len(rx_pkts) /\ Head(rx_pkts) = rx_pkts[1]
      BY <2>1, <3>1
    <3>3. Pending[1] = rx_pkts[1]
      BY <1>1, <3>2 DEF GapFacts, PendingFacts
    <3>. QED  BY <2>1, <3>2, <3>3 DEF IsTick
  <2>. QED  BY <2>1, <2>2, <2>3, GapHeadGone
<1>5. CASE LoopBurstDone
  <2>1. /\ rx_pkts' = rx_pkts /\ nic' = nic /\ Pending' = Pending /\ now' = now
        /\ missed' = missed /\ init_state' = init_state
        /\ ul_control_tick_counter' = ul_control_tick_counter
        /\ bridge_pc = "process" /\ bridge_pc' = "poll"
    BY <1>5 DEF LoopBurstDone, fpgaVars, Pending
  <2>2. RankOf(bridge_pc) = 0 /\ RankOf(bridge_pc)' = 0
    BY <2>1 DEF RankOf
  <2>. QED  BY <2>1, <2>2, GapStays
<1>. QED  BY <1>2, <1>3, <1>4, <1>5 DEF RxLoop

\* A tick is ignored, when the counter is still zero, or taken and counted.
LEMMA TickKeepsGap ==
  ASSUME GapFacts, GapInv, TickIgnored \/ TickTaken  PROVE GapInv'
<1>1. /\ TickAtHead /\ rx_pkts # <<>> /\ bridge_pc = "process"
      /\ now' = now /\ nic' = nic /\ missed' = missed
      /\ bridge_pc' = "process" => rx_pkts' = Tail(rx_pkts)
      /\ bridge_pc' # "process" => rx_pkts' = rx_pkts
      /\ bridge_pc' \in {"process", "ul_control", "dl_control"}
  BY DEF TickIgnored, TickTaken, HandlerMoves, TakesTickIf, TickAtHead, AfterUlControl,
         fpgaVars
<1>2. IsTick(Pending, 1) /\ Tick = Pending[1].slot
  BY <1>1, TickIsFirst DEF GapFacts
<1>. DEFINE W == Uncounted(Pending, 0)
            V == Uncounted(Pending, 1)
            c == ul_control_tick_counter
            d == ul_control_tick_counter'
<1>3. /\ Tick \in W /\ V = W \ {Tick} /\ Tick < now
      /\ \A s \in W : s = Tick \/ s > Tick
  BY <1>2, UncountedTaken DEF GapFacts
<1>4. RankOf(bridge_pc) = 0
  BY <1>1 DEF RankOf
<1>5. /\ d \in Nat
      /\ d = 0 \/ (d = c + 1 /\ ("ul" \in Ahead(Tick) => d < UlControlPeriod))
      /\ init_state' # 2 => d = 0
  <2>1. c \in Nat /\ UlControlPeriod \in Nat
    BY BridgeAssumption DEF GapFacts
  <2>2. CASE TickIgnored
    <3>1. d = c /\ init_state' = init_state /\ init_state # 2
      BY <2>2 DEF TickIgnored, StateAtTick, GapFacts, LoopTypeOK
    <3>. QED  BY <3>1 DEF GapInv
  <2>3. CASE TickTaken
    BY <2>1, <2>3 DEF TickTaken, UlControlDue
  <2>. QED  BY <2>2, <2>3
<1>6. Uncounted(Pending, RankOf(bridge_pc))' = V
  <2>1. CASE bridge_pc' = "process"
    <3>1. IsRestOf(Pending', Pending, 1) /\ Pending' \in Seq(Packets)
      BY <1>1, <2>1, HeadTaken DEF GapFacts
    <3>2. Uncounted(Pending', 0) = V
      BY <3>1, UncountedRest DEF GapFacts
    <3>3. RankOf(bridge_pc)' = 0
      BY <2>1 DEF RankOf
    <3>. QED  BY <3>2, <3>3
  <2>2. CASE bridge_pc' # "process"
    <3>1. Pending' = Pending
      BY <1>1, <2>2 DEF Pending
    <3>2. PICK t \in Nat : t = RankOf(bridge_pc)' /\ t > 0
      BY <1>1, <2>2 DEF RankOf
    <3>3. Uncounted(Pending, t) = V
      BY <3>2, UncountedRank
    <3>. QED  BY <3>1, <3>2, <3>3
  <2>. QED  BY <2>1, <2>2
<1>7. ASSUME missed = 0  PROVE Gapless(V, d, now)
  <2>1. Gapless(W, c, now)
    BY <1>4, <1>7 DEF GapInv
  <2>2. c \in Nat /\ now \in Nat
    BY DEF GapFacts
  <2>. HIDE DEF W, V, c, d
  <2>. QED  BY <1>3, <1>5, <2>1, <2>2, GapTaken
<1>. QED  BY <1>1, <1>5, <1>6, <1>7 DEF GapInv

\* The rest of the handler counts nothing.
LEMMA HandlerKeepsGap ==
  ASSUME GapFacts, GapInv,
         \/ UlControlSent \/ UlControlDropped \/ ControlNoMem \/ DlControlSent
         \/ DlControlDropped \/ DlData
  PROVE  GapInv'
<1>1. /\ bridge_pc \in {"ul_control", "dl_control", "dl_data"}
      /\ bridge_pc' \in {"process", "dl_control", "dl_data"}
      /\ now' = now /\ nic' = nic /\ missed' = missed
      /\ bridge_pc' = "process" => rx_pkts' = Tail(rx_pkts)
      /\ bridge_pc' # "process" => rx_pkts' = rx_pkts
      /\ init_state' = init_state
      /\ ul_control_tick_counter' = ul_control_tick_counter
  BY DEF UlControlSent, UlControlDropped, ControlNoMem, DlControlSent, DlControlDropped,
         DlData, DlDataSent, DlDataFails, HandlerMoves, HandlerKeeps, TakesTickIf,
         AfterUlControl, fpgaVars
<1>2. RankOf(bridge_pc) > 0
  BY <1>1 DEF RankOf
<1>3. CASE bridge_pc' = "process"
  <2>1. RankOf(bridge_pc)' = 0
    BY <1>3 DEF RankOf
  <2>2. rx_pkts # <<>>
    BY <1>1 DEF GapFacts, LoopTypeOK, TickAtHead
  <2>. QED  BY <1>1, <1>2, <1>3, <2>1, <2>2, GapHeadGone
<1>4. CASE bridge_pc' # "process"
  <2>1. RankOf(bridge_pc)' \in Nat /\ RankOf(bridge_pc)' > 0
    BY <1>1, <1>4 DEF RankOf
  <2>2. Pending' = Pending
    BY <1>1, <1>4 DEF Pending
  <2>. QED  BY <1>1, <1>2, <1>4, <2>1, <2>2, GapStays
<1>. QED  BY <1>3, <1>4

\* LoopInv and GapInv hold in every state.
LEMMA GapInvariance == LoopSpec => [](LoopInv /\ GapInv)
<1>1. LoopInv /\ GapInv /\ [LoopNext]_loopVars => GapInv'
  <2>. SUFFICES ASSUME LoopInv, GapInv, [LoopNext]_loopVars  PROVE GapInv'
    OBVIOUS
  <2>1. GapFacts
    BY LoopInvGapFacts
  <2>2. CASE UNCHANGED loopVars
    <3>1. /\ Pending' = Pending /\ now' = now /\ missed' = missed
          /\ init_state' = init_state /\ RankOf(bridge_pc)' = RankOf(bridge_pc)
          /\ ul_control_tick_counter' = ul_control_tick_counter
      BY <2>2 DEF loopVars, fpgaVars, bridgeVars, Pending, RankOf
    <3>. QED  BY <3>1 DEF GapInv
  <2>3. CASE LoopNext
    BY <2>1, <2>3, FpgaKeepsGap, RxLoopKeepsGap, TickKeepsGap, HandlerKeepsGap
       DEF LoopNext, TickHandler
  <2>. QED  BY <2>2, <2>3
<1>. QED  BY <1>1, LoopInvariance, GapStart, PTL DEF LoopSpec

\* The gap of the schedule: within it comes a slot for UL, wherever one begins.
LEMMA UlGapCovers ==
  ASSUME SomeUl
  PROVE  /\ UlGap \in 0 .. NumSlotsPerSfn - 1
         /\ \A s \in 0 .. NumSlotsPerSfn - 1 : \E d \in 0 .. UlGap :
              "ul" \in Schedule[(s + d) % NumSlotsPerSfn]
<1>1. PICK slots \in Nat \ {0} : slots = NumSlotsPerSfn
  BY BridgeAssumption
<1>. DEFINE Covered(n) == \A s \in 0 .. slots - 1 :
                            \E d \in 0 .. n : "ul" \in Schedule[(s + d) % slots]
            N == { n \in 0 .. slots - 1 : Covered(n) }
<1>2. Covered(slots - 1)
  <2>1. PICK u \in 0 .. slots - 1 : "ul" \in Schedule[u]
    BY <1>1 DEF SomeUl
  <2>2. ASSUME NEW s \in 0 .. slots - 1
        PROVE  \E d \in 0 .. slots - 1 : "ul" \in Schedule[(s + d) % slots]
    <3>1. CASE s <= u
      <4>1. u - s \in 0 .. slots - 1 /\ s + (u - s) = u /\ u % slots = u
        BY <1>1, <3>1
      <4>. QED  BY <2>1, <4>1
    <3>2. CASE s > u
      <4>1. PICK d \in 0 .. slots - 1 : d = u + slots - s
        BY <1>1, <3>2
      <4>2. (s + d) % slots = u
        <5>1. s + d = slots * 1 + u /\ s + d \in Nat
          BY <1>1, <4>1
        <5>2. PICK m \in Nat : m = s + d
          BY <5>1
        <5>. QED  BY <1>1, <5>1, <5>2, Division
      <4>. QED  BY <2>1, <4>2
    <3>. QED  BY <1>1, <3>1, <3>2
  <2>. QED  BY <2>2
<1>3. \E n \in N : \A m \in N : n <= m
  <2>1. N \in SUBSET Nat /\ slots - 1 \in N
    BY <1>1, <1>2
  <2>. HIDE DEF N
  <2>2. PICK n \in N : \A m \in N : <<m, n>> \notin OpToRel(<, Nat)
    BY <2>1, NatLessThanWellFounded, WFMin, Zenon
  <2>3. \A m \in N : ~(m < n)
    BY <2>1, <2>2 DEF OpToRel
  <2>. QED  BY <2>1, <2>3
<1>4. \E n \in 0 .. slots - 1 : Covered(n) /\ \A m \in 0 .. n - 1 : ~Covered(m)
  <2>1. PICK n \in N : \A m \in N : n <= m
    BY <1>3
  <2>2. ASSUME NEW m \in 0 .. n - 1, Covered(m)  PROVE FALSE
    <3>1. m \in N /\ m < n /\ n \in Nat
      BY <1>1, <2>2
    <3>2. n <= m
      BY <2>1, <3>1
    <3>. QED  BY <3>1, <3>2
  <2>3. n \in 0 .. slots - 1 /\ Covered(n)
    OBVIOUS
  <2>. QED  BY <2>2, <2>3
<1>5. UlGap = CHOOSE n \in 0 .. slots - 1 :
                Covered(n) /\ \A m \in 0 .. n - 1 : ~Covered(m)
  BY <1>1 DEF UlGap
<1>6. UlGap \in 0 .. slots - 1 /\ Covered(UlGap)
  <2>. HIDE DEF Covered
  <2>. QED  BY <1>4, <1>5
<1>. QED  BY <1>1, <1>6

\* A sum within the frame of slots, taken to the frame before or after.
LEMMA SlotSum ==
  ASSUME NEW a \in Nat, NEW b \in Nat
  PROVE  (SlotNo(a) + b) % NumSlotsPerSfn = (a + b) % NumSlotsPerSfn
<1>1. PICK slots \in Nat \ {0} : slots = NumSlotsPerSfn
  BY BridgeAssumption
<1>2. PICK q \in Nat, x \in 0 .. slots - 1 : a = slots * q + x /\ SlotNo(a) = x
  BY <1>1 DEF SlotNo
<1>3. PICK m \in Nat, y \in 0 .. slots - 1 : x + b = slots * m + y
  <2>1. /\ (x + b) \div slots \in Nat /\ (x + b) % slots \in 0 .. slots - 1
        /\ x + b = slots * ((x + b) \div slots) + ((x + b) % slots)
    BY <1>2
  <2>. QED  BY <2>1
<1>4. a + b = slots * (q + m) + y
  BY <1>2, <1>3
<1>5. (x + b) % slots = y
  <2>1. x + b \in Nat
    BY <1>2
  <2>. QED  BY <1>3, <2>1, Division
<1>6. (a + b) % slots = y
  <2>1. a + b \in Nat /\ q + m \in Nat
    BY <1>2
  <2>. QED  BY <1>3, <1>4, <2>1, Division
<1>. QED  BY <1>1, <1>2, <1>5, <1>6

-----------------------------------------------------------------------------
(* The theorems.                                                           *)

\* Nothing goes to the FPGA before a tick of SFN 0, slot 0 came, and what goes is
\* for slots in their order, each kind of packet once: parse_slot_tick() and the
\* loop around it, with any burst, ring, residue and failures.
THEOREM AirIsInOrder == LoopSpec => []AirInOrder
<1>1. LoopInv => AirInOrder
  BY DEF LoopInv, AirInOrder, OrderInv, AirBehind
<1>. QED  BY <1>1, LoopInvariance, PTL

\* Two UL control packets are at least UL_CONTROL_PERIOD slots apart, whatever is
\* lost between them.
THEOREM UlControlIsSpaced == LoopSpec => []UlControlSpacing
<1>1. LoopInv => UlControlSpacing
  <2>. SUFFICES ASSUME LoopInv, NEW j \in 1 .. Len(air), NEW k \in 1 .. Len(air),
                       j < k, air[j].kind = "ul_control", air[k].kind = "ul_control"
         PROVE  air[k].tick - air[j].tick >= UlControlPeriod
    BY DEF UlControlSpacing
  <2>1. air[k].tick >= air[j].tick + UlControlPeriod
    BY DEF LoopInv, OrderInv, PeriodOver
  <2>2. air[j] \in AirPackets /\ air[k] \in AirPackets
    BY DEF LoopInv, LoopTypeOK
  <2>. QED  BY <2>1, <2>2, RankType, BridgeAssumption, SMTT(40)
<1>. QED  BY <1>1, LoopInvariance, PTL

\* UL control and DL data carry the counters of the slot two ahead, for any number
\* of slots in a frame and frames in a cycle, across the end of a frame.
THEOREM HeadersAreTwoAhead == LoopSpec => []HeadersTwoAhead
<1>1. LoopInv /\ ContentsInv => HeadersTwoAhead
  <2>. SUFFICES ASSUME LoopInv, ContentsInv, NEW k \in 1 .. Len(air),
                       air[k].kind # "dl_control", (air[k].tick + 2) % Cycle >= 2
         PROVE  /\ air[k].slot = SlotNo(air[k].tick + 2)
                /\ air[k].sfn = SfnNo(air[k].tick + 2)
    BY DEF HeadersTwoAhead
  <2>1. air[k] \in AirPackets
    BY DEF LoopInv, LoopTypeOK
  <2>2. air[k].tick \in Nat
    BY <2>1, RankType
  <2>3. /\ air[k].slot = HeaderSlot(air[k].tick)
        /\ air[k].sfn = HeaderSfn(air[k].tick)
    BY DEF ContentsInv, HeadersInv, HeaderOf
  <2>. QED  BY <2>2, <2>3, CountersTwoOn
<1>. QED  BY <1>1, ContentsInvariance, PTL

\* As long as nothing fails, a slot with UL control gets its whole DDR
\* configuration, which the DL control packet brings if the slot has both
\* directions, for every schedule.
THEOREM DdrIsConfigured == LoopSpec => []DdrUnlessFaults
<1>1. LoopInv /\ ContentsInv => DdrUnlessFaults
  BY DEF ContentsInv, DdrInv, DdrUnlessFaults, DdrWithUlControl, Answered
<1>. QED  BY <1>1, ContentsInvariance, PTL

\* While no tick is missed, UL control is attempted in the first UL slot after the
\* period, whatever fails before, if there is UL in the schedule and the ring did
\* not start with ticks for a whole period.
THEOREM UlControlInTime ==
  ASSUME SomeUl, MaxResidue < UlControlPeriod
  PROVE  LoopSpec => []UlControlNotLate
<1>1. LoopInv /\ GapInv => UlControlNotLate
  <2>. SUFFICES ASSUME LoopInv, GapInv, missed = 0,
                       ~(ul_control_tick_counter < UlControlPeriod + UlGap)
       PROVE  FALSE
    BY DEF UlControlNotLate
  <2>1. /\ FirstSlot \in Nat /\ MaxResidue \in Nat /\ UlControlPeriod \in Nat
        /\ NumSlotsPerSfn \in Nat \ {0}
    BY BridgeAssumption
  <2>2. PICK g \in Nat : g = UlGap
    BY <2>1, UlGapCovers
  <2>3. PICK c \in Nat : c = ul_control_tick_counter
    BY LoopInvGapFacts DEF GapFacts
  <2>4. PICK next \in FirstSlot .. now :
          CountedTo(next, Uncounted(Pending, RankOf(bridge_pc)), c, now)
    BY <2>3 DEF GapInv, Gapless
  <2>5. next \in Nat /\ c + FirstSlot <= next + MaxResidue
        /\ \A s \in FirstSlot .. next - 1 :
             s + c + 1 >= next + UlControlPeriod => "ul" \notin Ahead(s)
    BY <2>1, <2>4 DEF CountedTo
  <2>6. PICK s \in Nat : s = next - 1 - g /\ FirstSlot <= s
    BY <2>1, <2>2, <2>3, <2>5
  <2>7. PICK d \in 0 .. g :
          "ul" \in Schedule[(((s + 2) % NumSlotsPerSfn) + d) % NumSlotsPerSfn]
    <3>1. (s + 2) % NumSlotsPerSfn \in 0 .. NumSlotsPerSfn - 1
      BY <2>1
    <3>. QED  BY <2>2, <3>1, UlGapCovers
  <2>8. "ul" \in Ahead(s + d)
    <3>1. (((s + 2) % NumSlotsPerSfn) + d) % NumSlotsPerSfn = (s + 2 + d) % NumSlotsPerSfn
      <4>1. s + 2 \in Nat /\ SlotNo(s + 2) = (s + 2) % NumSlotsPerSfn
        BY DEF SlotNo
      <4>. QED  BY <4>1, SlotSum
    <3>2. (SlotNo(s + d) + 2) % NumSlotsPerSfn = (s + d + 2) % NumSlotsPerSfn
      BY SlotSum
    <3>3. s + 2 + d = s + d + 2
      OBVIOUS
    <3>. QED  BY <2>7, <3>1, <3>2, <3>3 DEF Ahead
  <2>9. s + d \in FirstSlot .. next - 1
        /\ (s + d) + c + 1 >= next + UlControlPeriod
    BY <2>1, <2>2, <2>3, <2>5, <2>6
  <2>. QED  BY <2>5, <2>8, <2>9
<1>. QED  BY <1>1, GapInvariance, PTL

=============================================================================
