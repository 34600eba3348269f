----------------------------- MODULE BridgeLoop -----------------------------
(***************************************************************************)
(* The main loop of dpdk_slot_transmission.c as the clock of the radio     *)
(* sees it: slot_transmission_reception_loop() takes bursts of packets     *)
(* from the NIC, and parse_slot_tick() answers the tick of a slot with the *)
(* control packets, and the downlink data, of the slot two ahead.          *)
(*                                                                         *)
(* A slot is known by its number since the counters of the FPGA were zero; *)
(* a tick carries that number as SFN and slot, which wrap.  The payload of *)
(* UL data packets is gathered in UplinkPath, and the socket under         *)
(* recv_frame_fast() is in DownlinkLink: here a UL packet is only taken,   *)
(* and a frame comes, does not come yet, or fails.                         *)
(***************************************************************************)
EXTENDS Naturals, Sequences, FiniteSets

CONSTANTS
  NumSlotsPerSfn,   \* NUM_SLOTS_PER_SFN, 20 in the code
  NumSfn,           \* the SFN counter of the FPGA runs from 0 to NumSfn - 1
  Schedule,         \* sch_slot_array: a set of directions for each slot
  UlControlPeriod,  \* UL_CONTROL_PERIOD
  MaxBurst,         \* MAX_BURST_SIZE
  RxPackets,        \* packets the receive ring of the NIC holds
  FirstTick,        \* bound: no tick of an earlier slot is in the ring at the start
  FirstSlot,        \* the slot whose tick is the first one after the start
  LastSlot,         \* bound: the last slot the FPGA ticks
  MaxResidue,       \* bound: packets in the receive ring at the start
  MaxUlPackets,     \* bound: UL data packets that arrive
  MaxFaults         \* bound: allocations, transmissions and frames that fail

ASSUME BridgeAssumption ==
  /\ {NumSlotsPerSfn, NumSfn, UlControlPeriod, MaxBurst, RxPackets}
       \subseteq Nat \ {0}
  /\ {FirstTick, FirstSlot, LastSlot, MaxResidue, MaxUlPackets, MaxFaults}
       \subseteq Nat
  /\ MaxResidue <= RxPackets /\ FirstTick <= FirstSlot /\ FirstSlot <= LastSlot
  /\ Schedule \in [0 .. NumSlotsPerSfn - 1 -> SUBSET {"ul", "dl"}]
  /\ NumSfn <= 2^16  \* the header has 16 bits for the SFN

VARIABLES
  now,         \* the slot whose tick the FPGA sends next
  ul_packets,  \* UL data packets that have arrived
  nic,         \* the receive ring
  rx_pkts,     \* what is left to process of the current burst
  init_state,  \* 0: clearing the ring, 1: waits for SFN 0, 2: runs
  ul_control_tick_counter,
  bridge_pc,   \* where the bridge is in its loop
  air,         \* history: the packets handed to the NIC for the FPGA
  missed,      \* history: ticks that were never processed, since the first that
               \* may have been
  faults       \* failures so far

fpgaVars   == <<now, ul_packets>>
bridgeVars == <<nic, rx_pkts, init_state, ul_control_tick_counter, bridge_pc>>
loopVars   == <<fpgaVars, bridgeVars, air, missed, faults>>

Cycle == NumSlotsPerSfn * NumSfn

\* What a tick says of its slot.
SlotNo(s) == s % NumSlotsPerSfn
SfnNo(s)  == (s \div NumSlotsPerSfn) % NumSfn

\* The directions scheduled two slots after the tick of slot s.
Ahead(s) == Schedule[(SlotNo(s) + 2) % NumSlotsPerSfn]

TickOf(s) == [kind |-> "tick", slot |-> s, fresh |-> s >= FirstSlot]
UlData(f) == [kind |-> "ul", slot |-> 0, fresh |-> f]
Packets   == { TickOf(s) : s \in 0 .. LastSlot } \cup { UlData(f) : f \in BOOLEAN }

BridgePcs == {"poll", "process", "ul_control", "dl_control", "dl_data"}

-----------------------------------------------------------------------------
(* The ring holds what came before the loop runs, during the warm-up of    *)
(* main().  A ring that is not full has everything, up to the latest tick; *)
(* a full one has kept the oldest packets and dropped the rest.            *)

TickPlaces(pkts) == { k \in 1 .. Len(pkts) : pkts[k].kind = "tick" }

\* n packets of the warm-up: the ticks from first to next - 1 in their order, and
\* UL data.
Residue(n, first, next) ==
  { r \in [1 .. n -> { TickOf(s) : s \in first .. next - 1 } \cup {UlData(FALSE)}] :
      /\ { r[k].slot : k \in TickPlaces(r) } = first .. next - 1
      /\ \A j, k \in TickPlaces(r) : j < k => r[j].slot < r[k].slot }

LoopInit ==
  /\ now = FirstSlot /\ ul_packets = 0
  /\ \E n \in 0 .. MaxResidue : \E ticks \in 0 .. n :
       \E next \in FirstTick + ticks .. FirstSlot :
         /\ nic \in Residue(n, next - ticks, next)
         /\ n < RxPackets => next = FirstSlot
         /\ missed = FirstSlot - next
  /\ rx_pkts = <<>>
  /\ init_state = 0
  /\ ul_control_tick_counter = 0
  /\ bridge_pc = "poll"
  /\ air = <<>> /\ faults = 0

(* The FPGA and the NIC.                                                   *)

\* The tick of the next slot arrives, or finds the receive ring full.
FpgaTick ==
  /\ now <= LastSlot
  /\ now' = now + 1
  /\ IF Len(nic) < RxPackets
       THEN nic' = Append(nic, TickOf(now)) /\ UNCHANGED missed
       ELSE missed' = missed + 1 /\ UNCHANGED nic
  /\ UNCHANGED <<ul_packets, rx_pkts, init_state, ul_control_tick_counter,
                 bridge_pc, air, faults>>

FpgaUlData ==
  /\ ul_packets < MaxUlPackets /\ Len(nic) < RxPackets
  /\ ul_packets' = ul_packets + 1
  /\ nic' = Append(nic, UlData(TRUE))
  /\ UNCHANGED <<now, rx_pkts, init_state, ul_control_tick_counter, bridge_pc,
                 air, missed, faults>>

-----------------------------------------------------------------------------
(* slot_transmission_reception_loop().                                     *)

Burst == SubSeq(nic, 1, IF Len(nic) < MaxBurst THEN Len(nic) ELSE MaxBurst)

FreshTicks(pkts) ==
  Cardinality({ k \in 1 .. Len(pkts) : pkts[k].kind = "tick" /\ pkts[k].fresh })

\* Before the first burst that is not full, bursts are dropped.
LoopClear ==
  /\ bridge_pc = "poll" /\ init_state = 0 /\ Len(Burst) = MaxBurst
  /\ nic' = SubSeq(nic, MaxBurst + 1, Len(nic))
  /\ missed' = missed + FreshTicks(Burst)
  /\ UNCHANGED <<fpgaVars, rx_pkts, init_state, ul_control_tick_counter,
                 bridge_pc, air, faults>>

\* A mutation: the state is not set after the clearing.
LoopBurstKeepsState ==
  /\ bridge_pc = "poll" /\ nic # <<>>
  /\ init_state = 0 => Len(Burst) < MaxBurst
  /\ rx_pkts' = Burst
  /\ nic' = SubSeq(nic, Len(Burst) + 1, Len(nic))
  /\ bridge_pc' = "process"
  /\ UNCHANGED <<fpgaVars, init_state, ul_control_tick_counter, air, missed, faults>>

\* Any other burst is processed; the first one ends the clearing.
LoopBurst ==
  /\ bridge_pc = "poll" /\ nic # <<>>
  /\ init_state = 0 => Len(Burst) < MaxBurst
  /\ rx_pkts' = Burst
  /\ nic' = SubSeq(nic, Len(Burst) + 1, Len(nic))
  /\ init_state' = IF init_state = 0 THEN 1 ELSE init_state
  /\ bridge_pc' = "process"
  /\ UNCHANGED <<fpgaVars, ul_control_tick_counter, air, missed, faults>>

\* A packet of UL data.
LoopUlData ==
  /\ bridge_pc = "process" /\ rx_pkts # <<>> /\ Head(rx_pkts).kind = "ul"
  /\ rx_pkts' = Tail(rx_pkts)
  /\ UNCHANGED <<fpgaVars, nic, init_state, ul_control_tick_counter, bridge_pc,
                 air, missed, faults>>

LoopBurstDone ==
  /\ bridge_pc = "process" /\ rx_pkts = <<>>
  /\ bridge_pc' = "poll"
  /\ UNCHANGED <<fpgaVars, nic, rx_pkts, init_state, ul_control_tick_counter, air,
                 missed, faults>>

-----------------------------------------------------------------------------
(* parse_slot_tick(), for the tick at the head of the burst.               *)

Tick == Head(rx_pkts).slot

\* The handler goes on to the packets of slot Tick + 2 from the DL part on.
AfterUlControl == IF "dl" \in Ahead(Tick) THEN "dl_control" ELSE "process"

\* A mutation: the tick is not taken from the burst.
TakesTickIfNever(back) == rx_pkts' = rx_pkts

\* The tick is done with when the handler is back in the loop.
TakesTickIf(back) == rx_pkts' = IF back THEN Tail(rx_pkts) ELSE rx_pkts

HandlerMoves(from, to) ==
  /\ bridge_pc = from
  /\ bridge_pc' = to
  /\ TakesTickIf(to = "process")
  /\ UNCHANGED <<fpgaVars, nic, missed>>

TickAtHead == rx_pkts # <<>> /\ Head(rx_pkts).kind = "tick"

StateAtTick == IF init_state = 1 /\ SfnNo(Tick) = 0 /\ SlotNo(Tick) = 0
               THEN 2 ELSE init_state

TickIgnored ==
  /\ TickAtHead /\ StateAtTick < 2
  /\ HandlerMoves("process", "process")
  /\ UNCHANGED <<init_state, ul_control_tick_counter, air, faults>>

\* A mutation: > instead of >=.
UlControlDueLate ==
  "ul" \in Ahead(Tick) /\ ul_control_tick_counter + 1 > UlControlPeriod

UlControlDue ==
  "ul" \in Ahead(Tick) /\ ul_control_tick_counter + 1 >= UlControlPeriod

\* A mutation: the counter is not reset when UL control is due.
TickTakenCountsOn ==
  /\ TickAtHead /\ StateAtTick = 2
  /\ HandlerMoves("process", IF UlControlDue THEN "ul_control" ELSE AfterUlControl)
  /\ init_state' = 2
  /\ ul_control_tick_counter' = ul_control_tick_counter + 1
  /\ UNCHANGED <<air, faults>>

\* The tick is counted; the counter is reset when UL control is due, before any
\* of its calls can fail.
TickTaken ==
  /\ TickAtHead /\ StateAtTick = 2
  /\ HandlerMoves("process", IF UlControlDue THEN "ul_control" ELSE AfterUlControl)
  /\ init_state' = 2
  /\ ul_control_tick_counter' = IF UlControlDue THEN 0
                                ELSE ul_control_tick_counter + 1
  /\ UNCHANGED <<air, faults>>

\* A mutation: the SFN of the tick, also when the slot ahead is in the next one.
HeaderSfnOfTick(s) == SfnNo(s)

\* The header names the slot two ahead; its SFN is not wrapped at NumSfn.
HeaderSfn(s)  == (SfnNo(s) + ((SlotNo(s) + 2) \div NumSlotsPerSfn)) % 2^16
HeaderSlot(s) == (SlotNo(s) + 2) % NumSlotsPerSfn

\* A packet for the slot after the tick s; config holds the directions that its
\* DDR configuration sets up.
Sent(kind, s, config) ==
  [kind |-> kind, tick |-> s, sfn |-> HeaderSfn(s), slot |-> HeaderSlot(s),
   ddr |-> config]

Transmits(packet) == air' = Append(air, packet)

Fails == faults < MaxFaults /\ faults' = faults + 1

HandlerKeeps == UNCHANGED <<init_state, ul_control_tick_counter>>

\* A mutation: UL control brings no DDR configuration.
UlControlSentBare ==
  /\ HandlerMoves("ul_control", AfterUlControl) /\ HandlerKeeps
  /\ Transmits(Sent("ul_control", Tick, {}))
  /\ UNCHANGED faults

UlControlSent ==
  /\ HandlerMoves("ul_control", AfterUlControl) /\ HandlerKeeps
  /\ Transmits(Sent("ul_control", Tick, IF "dl" \in Ahead(Tick) THEN {} ELSE {"ul"}))
  /\ UNCHANGED faults

\* rte_eth_tx_burst() takes no packet: it is freed and not sent again.
UlControlDropped ==
  /\ HandlerMoves("ul_control", AfterUlControl) /\ HandlerKeeps
  /\ Fails /\ UNCHANGED air

\* A control packet cannot be allocated: the handler returns, without the DL
\* part of the slot.
ControlNoMem ==
  /\ \E pc \in {"ul_control", "dl_control"} : HandlerMoves(pc, "process")
  /\ HandlerKeeps
  /\ Fails /\ UNCHANGED air

DlControlSent ==
  /\ HandlerMoves("dl_control", "dl_data") /\ HandlerKeeps
  /\ Transmits([Sent("dl_control", Tick, Ahead(Tick)) EXCEPT !.sfn = 65535])
  /\ UNCHANGED faults

DlControlDropped ==
  /\ HandlerMoves("dl_control", "dl_data") /\ HandlerKeeps
  /\ Fails /\ UNCHANGED air

\* prepare_flush_dl_burst() receives a frame and repeats its transmissions until
\* the NIC has taken all packets.
DlDataSent ==
  /\ HandlerMoves("dl_data", "process") /\ HandlerKeeps
  /\ Transmits(Sent("dl_data", Tick, {}))
  /\ UNCHANGED faults

\* The frame does not come whole, or there are no packets for it.
DlDataFails ==
  /\ HandlerMoves("dl_data", "process") /\ HandlerKeeps
  /\ Fails /\ UNCHANGED air

-----------------------------------------------------------------------------
Fpga == FpgaTick \/ FpgaUlData

RxLoop == LoopClear \/ LoopBurst \/ LoopUlData \/ LoopBurstDone

TickHandler == TickIgnored \/ TickTaken \/ UlControlSent \/ UlControlDropped
               \/ ControlNoMem \/ DlControlSent \/ DlControlDropped

\* The steps that wait for the sink.
DlData == DlDataSent \/ DlDataFails

LoopNext == Fpga \/ RxLoop \/ TickHandler \/ DlData

LoopSpec == LoopInit /\ [][LoopNext]_loopVars

\* The bridge spins on a core of its own and the FPGA ticks; a frame need not come.
LoopFairness == WF_loopVars(FpgaTick) /\ WF_loopVars(RxLoop \/ TickHandler)

LoopFairSpec == LoopSpec /\ LoopFairness

-----------------------------------------------------------------------------
(* Properties.                                                             *)

AirPackets ==
  [kind : {"ul_control", "dl_control", "dl_data"}, tick : 0 .. LastSlot,
   sfn : 0 .. 2^16 - 1, slot : 0 .. NumSlotsPerSfn - 1, ddr : SUBSET {"ul", "dl"}]

\* Types; a handler is in progress exactly when a tick is at the head of the burst
\* and the bridge runs.
LoopTypeOK ==
  /\ now \in 0 .. LastSlot + 1 /\ ul_packets \in 0 .. MaxUlPackets
  /\ nic \in Seq(Packets) /\ Len(nic) <= RxPackets
  /\ rx_pkts \in Seq(Packets) /\ Len(rx_pkts) <= MaxBurst
  /\ init_state \in 0 .. 2
  /\ ul_control_tick_counter \in Nat
  /\ bridge_pc \in BridgePcs
  /\ bridge_pc = "poll" => rx_pkts = <<>>
  /\ bridge_pc \notin {"poll", "process"} => TickAtHead /\ init_state = 2
  /\ air \in Seq(AirPackets)
  /\ missed \in Nat /\ faults \in 0 .. MaxFaults

Rank(kind) == CASE kind = "ul_control" -> 1
                [] kind = "dl_control" -> 2
                [] kind = "dl_data"    -> 3

Before(p, q) ==
  p.tick < q.tick \/ (p.tick = q.tick /\ Rank(p.kind) < Rank(q.kind))

\* "Slot 0, SFN 0 reached; UL and DL initialized": nothing goes to the FPGA before
\* a tick of SFN 0, slot 0 was seen, whatever the clearing and the NIC drop. Then
\* slots are answered in their order, each kind of packet at most once for a slot
\* and control before data, also when packets fail or ticks are lost.
AfterSfnZero(s) == \E z \in FirstTick .. s : z % Cycle = 0

AirInOrder ==
  /\ \A k \in 1 .. Len(air) : AfterSfnZero(air[k].tick)
  /\ \A j, k \in 1 .. Len(air) : j < k => Before(air[j], air[k])

\* The counters of UL control and DL data in the header are those the FPGA will
\* show in the slot two ahead, except across the wrap of the SFN.
HeadersTwoAhead ==
  \A k \in 1 .. Len(air) :
    LET p == air[k]
        s == p.tick + 2
    IN  p.kind # "dl_control" /\ s % Cycle >= 2
          => p.slot = SlotNo(s) /\ p.sfn = SfnNo(s)

\* UL control is sent at most once in a period, even if ticks are lost.
UlControlSpacing ==
  \A j, k \in 1 .. Len(air) :
    j < k /\ air[j].kind = "ul_control" /\ air[k].kind = "ul_control"
      => air[k].tick - air[j].tick >= UlControlPeriod

\* The longest stretch of slots without UL.
UlGap ==
  LET Covered(n) == \A s \in 0 .. NumSlotsPerSfn - 1 :
                      \E d \in 0 .. n : "ul" \in Schedule[(s + d) % NumSlotsPerSfn]
  IN  CHOOSE n \in 0 .. NumSlotsPerSfn - 1 :
        Covered(n) /\ \A m \in 0 .. n - 1 : ~Covered(m)

\* While no tick is missed, UL control is attempted in the first UL slot after
\* the period: failures do not delay it, nor does a DL part of the slot.
UlControlNotLate ==
  missed = 0 => ul_control_tick_counter < UlControlPeriod + UlGap

\* The handler is not at work on the slot ahead of tick s.
Answered(s) == bridge_pc \in {"poll", "process"} \/ Tick # s

\* Does some packet sent after tick s configure the DDR for all directions of
\* the slot?
DdrSent(s) == \E k \in 1 .. Len(air) : air[k].tick = s /\ air[k].ddr = Ahead(s)

\* "Since both UL and DL are scheduled, the DDR config is sent along with DL
\* control": a slot with UL control gets the whole DDR configuration.
DdrWithUlControl ==
  \A k \in 1 .. Len(air) :
    air[k].kind = "ul_control" /\ Answered(air[k].tick) => DdrSent(air[k].tick)

\* It does as long as no allocation and no transmission fails.
DdrUnlessFaults == faults = 0 => DdrWithUlControl

\* Once the tick of SFN 0 has come and no tick was missed, the bridge runs.
InitCompletes ==
  ((\E z \in FirstSlot .. now - 1 : z % Cycle = 0) /\ missed = 0)
    ~> (init_state = 2 \/ missed > 0)

=============================================================================
