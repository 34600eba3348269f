---------------------------- MODULE BridgeProofs ----------------------------
(***************************************************************************)
(* Proofs about the packet buffers of the bridge (MbufPool), for every number*)
(* of buffers, ring size and burst size: no buffer has two owners up to the*)
(* second slot of DL data, and none is lost once the receive ring is cleared.*)
(* And about how bridges and flowgraphs find each other (Startup), for any *)
(* number of them, of failures and any backlog: the types of its variables,*)
(* that the bridge serves one flowgraph, and that its configuration is that*)
(* of its flowgraph. The two components share no state.                    *)
(***************************************************************************)
EXTENDS MbufPool, Startup, TLAPS

-----------------------------------------------------------------------------
(* The inductive invariant.                                                *)

BridgePcs == {"poll", "process", "control", "dl_write"}

MbufTypes ==
  /\ pool \in [Mbufs -> Nat] /\ tx_ring \in [Mbufs -> Nat]
  /\ {posted, arrived, rx_pkts, tx_pkts, dl_mbufs, dl_in_hand} \subseteq SUBSET Mbufs
  /\ init_state \in {0, 1}
  /\ bridge_pc \in BridgePcs
  /\ dl_bursts \in Nat

\* A burst is held until it is freed, a control packet and the DL buffers only
\* inside the handler that has them.
HeldWhereUsed ==
  /\ bridge_pc = "poll" => rx_pkts = {}
  /\ tx_pkts # {} => bridge_pc = "control"
  /\ dl_in_hand # {} => bridge_pc = "dl_write"
  /\ dl_in_hand \subseteq dl_mbufs

\* The DL buffers are allocated by the first slot of DL data, which alone has
\* them in its hand.
FirstBurstAllocates ==
  /\ dl_bursts = 0 => dl_mbufs = {} /\ bridge_pc # "dl_write"
  /\ dl_bursts <= 1 /\ bridge_pc = "dl_write" => dl_in_hand = dl_mbufs

PoolInv == MbufTypes /\ HeldWhereUsed /\ FirstBurstAllocates

\* What a step may do to the owners of a buffer: until the second slot of DL data
\* none gains one, and once the ring is cleared none loses its last.
OwnersKept ==
  \A m \in Mbufs :
    /\ dl_bursts' <= 1 => Owners(m)' <= Owners(m)
    /\ Owners(m)' = 0 => Owners(m) = 0 \/ init_state = 0

-----------------------------------------------------------------------------
(* What a buffer's owners are after a step.                                *)

\* The number of owners is a number, to which each owner contributes.
LEMMA OwnersType ==
  ASSUME MbufTypes, NEW m \in Mbufs
  PROVE  /\ Owners(m) \in Nat /\ pool[m] \in Nat /\ tx_ring[m] \in Nat
         /\ Owners(m) >= pool[m] /\ Owners(m) >= tx_ring[m]
BY DEF MbufTypes, Owners, Count

\* Entries of the pool or the transmit ring that come and go.
LEMMA Entries ==
  ASSUME NEW f \in [Mbufs -> Nat], NEW S, NEW m \in Mbufs
  PROVE  Plus(f, S)[m] = f[m] + Count(m, S) /\ Minus(f, S)[m] = f[m] - Count(m, S)
BY DEF Plus, Minus, One, Count

\* Entries that are put into a place or taken from it are naturals.
LEMMA EntriesType ==
  ASSUME NEW f \in [Mbufs -> Nat], NEW S
  PROVE  /\ Plus(f, S) \in [Mbufs -> Nat]
         /\ (\A x \in S \cap Mbufs : f[x] > 0) => Minus(f, S) \in [Mbufs -> Nat]
BY DEF Plus, Minus, One

\* At the start every buffer is in the pool or posted to the driver.
LEMMA InitPool == MbufInit => PoolInv /\ OneOwner
<1>. SUFFICES ASSUME MbufInit  PROVE PoolInv /\ OneOwner
  OBVIOUS
<1>1. PoolInv
  BY DEF MbufInit, PoolInv, MbufTypes, BridgePcs, HeldWhereUsed,
         FirstBurstAllocates, One
<1>2. ASSUME NEW m \in Mbufs  PROVE Owners(m) <= 1
  BY DEF MbufInit, Owners, Count, One
<1>. QED  BY <1>1, <1>2 DEF OneOwner

-----------------------------------------------------------------------------
(* Every step preserves the invariant and keeps the owners.                *)

\* The driver's steps.
LEMMA DriverKeeps ==
  ASSUME PoolInv, Driver  PROVE PoolInv' /\ OwnersKept
<1>. USE DEF PoolInv
<1>1. CASE Receive
  <2>1. PICK x \in posted :
          /\ posted' = posted \ {x} /\ arrived' = arrived \cup {x}
          /\ UNCHANGED <<pool, rx_pkts, tx_pkts, dlVars, tx_ring, init_state, bridge_pc>>
    BY <1>1 DEF Receive
  <2>2. PoolInv'
    BY <2>1 DEF dlVars, MbufTypes, HeldWhereUsed, FirstBurstAllocates
  <2>3. ASSUME NEW m \in Mbufs
        PROVE  Owners(m)' <= Owners(m) /\ (Owners(m)' = 0 => Owners(m) = 0)
    BY <2>1, OwnersType DEF dlVars, Owners, Count, MbufTypes
  <2>. QED  BY <2>2, <2>3 DEF OwnersKept
<1>2. CASE Refill
  <2>1. PICK x \in InPool :
          /\ pool' = Minus(pool, {x}) /\ posted' = posted \cup {x}
          /\ UNCHANGED <<arrived, rx_pkts, tx_pkts, dlVars, tx_ring, init_state, bridge_pc>>
    BY <1>2 DEF Refill, Allocates
  <2>2. x \in Mbufs /\ pool[x] > 0
    BY <2>1 DEF InPool
  <2>3. PoolInv'
    BY <2>1, <2>2, EntriesType DEF dlVars, MbufTypes, HeldWhereUsed, FirstBurstAllocates
  <2>4. ASSUME NEW m \in Mbufs
        PROVE  Owners(m)' <= Owners(m) /\ (Owners(m)' = 0 => Owners(m) = 0)
    <3>1. pool'[m] = pool[m] - Count(m, {x})
      BY <2>1, Entries DEF MbufTypes
    <3>. QED  BY <2>1, <2>2, <3>1 DEF dlVars, Owners, Count, MbufTypes
  <2>. QED  BY <2>3, <2>4 DEF OwnersKept
<1>3. CASE TransmitDone
  <2>1. PICK x \in Mbufs :
          /\ tx_ring[x] > 0 /\ tx_ring' = Minus(tx_ring, {x}) /\ pool' = Plus(pool, {x})
          /\ UNCHANGED <<rxVars, tx_pkts, dlVars, bridge_pc>>
    BY <1>3 DEF TransmitDone, Frees
  <2>2. PoolInv'
    BY <2>1, EntriesType DEF rxVars, dlVars, MbufTypes, HeldWhereUsed, FirstBurstAllocates
  <2>3. ASSUME NEW m \in Mbufs
        PROVE  Owners(m)' = Owners(m)
    <3>1. /\ tx_ring'[m] = tx_ring[m] - Count(m, {x})
          /\ pool'[m] = pool[m] + Count(m, {x})
      BY <2>1, Entries DEF MbufTypes
    <3>. QED  BY <2>1, <3>1 DEF rxVars, dlVars, Owners, Count, MbufTypes
  <2>4. ASSUME NEW m \in Mbufs  PROVE Owners(m) \in Nat
    BY OwnersType
  <2>. QED  BY <2>2, <2>3, <2>4 DEF OwnersKept
<1>. QED  BY <1>1, <1>2, <1>3 DEF Driver

\* The main loop takes a burst, or drops one while it clears the ring, and frees
\* it when it is done.
LEMMA BurstKeeps ==
  ASSUME PoolInv, ClearBurst \/ TakeBurst \/ BurstDone  PROVE PoolInv' /\ OwnersKept
<1>. USE DEF PoolInv
<1>1. CASE ClearBurst
  <2>1. PICK burst \in SUBSET arrived :
          /\ arrived' = arrived \ burst /\ init_state = 0
          /\ UNCHANGED <<pool, posted, tx_pkts, dlVars, tx_ring>>
          /\ UNCHANGED <<rx_pkts, init_state, bridge_pc>>
    BY <1>1 DEF ClearBurst, Takes
  <2>2. PoolInv'
    BY <2>1 DEF dlVars, MbufTypes, HeldWhereUsed, FirstBurstAllocates
  <2>3. ASSUME NEW m \in Mbufs  PROVE Owners(m)' <= Owners(m)
    BY <2>1 DEF dlVars, Owners, Count, MbufTypes
  <2>. QED  BY <2>1, <2>2, <2>3 DEF OwnersKept
<1>2. CASE TakeBurst
  <2>1. PICK burst \in SUBSET arrived :
          /\ bridge_pc = "poll" /\ bridge_pc' = "process"
          /\ arrived' = arrived \ burst /\ rx_pkts' = burst /\ init_state' = 1
          /\ UNCHANGED <<pool, posted, tx_pkts, dlVars, tx_ring>>
    BY <1>2 DEF TakeBurst, Takes
  <2>2. PoolInv' /\ rx_pkts = {}
    BY <2>1 DEF dlVars, MbufTypes, BridgePcs, HeldWhereUsed, FirstBurstAllocates
  <2>3. ASSUME NEW m \in Mbufs  PROVE Owners(m)' = Owners(m) /\ Owners(m) \in Nat
    BY <2>1, <2>2 DEF dlVars, Owners, Count, MbufTypes
  <2>. QED  BY <2>2, <2>3 DEF OwnersKept
<1>3. CASE BurstDone
  <2>1. /\ pool' = Plus(pool, rx_pkts) /\ rx_pkts' = {}
        /\ bridge_pc = "process" /\ bridge_pc' = "poll"
        /\ UNCHANGED <<posted, arrived, tx_pkts, dlVars, tx_ring, init_state>>
    BY <1>3 DEF BurstDone, Frees
  <2>2. PoolInv'
    <3>1. pool' \in [Mbufs -> Nat]
      BY <2>1, EntriesType DEF MbufTypes
    <3>. QED
      BY <2>1, <3>1
      DEF dlVars, MbufTypes, BridgePcs, HeldWhereUsed, FirstBurstAllocates
  <2>3. ASSUME NEW m \in Mbufs  PROVE Owners(m)' = Owners(m) /\ Owners(m) \in Nat
    <3>1. pool'[m] = pool[m] + Count(m, rx_pkts)
      BY <2>1, Entries DEF MbufTypes
    <3>. QED  BY <2>1, <3>1 DEF dlVars, Owners, Count, MbufTypes
  <2>. QED  BY <2>2, <2>3 DEF OwnersKept
<1>. QED  BY <1>1, <1>2, <1>3

\* A control packet is allocated, and handed to the driver or freed.
LEMMA ControlKeeps ==
  ASSUME PoolInv, ControlAlloc \/ ControlSent \/ ControlDropped
  PROVE  PoolInv' /\ OwnersKept
<1>. USE DEF PoolInv
<1>1. CASE ControlAlloc
  <2>1. PICK x \in InPool :
          /\ pool' = Minus(pool, {x}) /\ tx_pkts' = {x}
          /\ bridge_pc = "process" /\ bridge_pc' = "control"
          /\ UNCHANGED <<rxVars, dlVars, tx_ring>>
    BY <1>1 DEF ControlAlloc, Allocates, Handler
  <2>2. x \in Mbufs /\ pool[x] > 0 /\ tx_pkts = {}
    BY <2>1 DEF InPool, HeldWhereUsed
  <2>3. PoolInv'
    BY <2>1, <2>2, EntriesType
    DEF rxVars, dlVars, MbufTypes, BridgePcs, HeldWhereUsed, FirstBurstAllocates
  <2>4. ASSUME NEW m \in Mbufs  PROVE Owners(m)' = Owners(m) /\ Owners(m) \in Nat
    <3>1. pool'[m] = pool[m] - Count(m, {x})
      BY <2>1, Entries DEF MbufTypes
    <3>. QED  BY <2>1, <2>2, <3>1 DEF rxVars, dlVars, Owners, Count, MbufTypes
  <2>. QED  BY <2>3, <2>4 DEF OwnersKept
<1>2. CASE ControlSent
  <2>1. /\ tx_ring' = Plus(tx_ring, tx_pkts) /\ tx_pkts' = {}
        /\ bridge_pc = "control" /\ bridge_pc' = "process"
        /\ UNCHANGED <<rxVars, pool, dlVars>>
    BY <1>2 DEF ControlSent, Handler
  <2>2. PoolInv'
    <3>1. tx_ring' \in [Mbufs -> Nat]
      BY <2>1, EntriesType DEF MbufTypes
    <3>. QED
      BY <2>1, <3>1
      DEF rxVars, dlVars, MbufTypes, BridgePcs, HeldWhereUsed, FirstBurstAllocates
  <2>3. ASSUME NEW m \in Mbufs  PROVE Owners(m)' = Owners(m) /\ Owners(m) \in Nat
    <3>1. tx_ring'[m] = tx_ring[m] + Count(m, tx_pkts)
      BY <2>1, Entries DEF MbufTypes
    <3>. QED  BY <2>1, <3>1 DEF rxVars, dlVars, Owners, Count, MbufTypes
  <2>. QED  BY <2>2, <2>3 DEF OwnersKept
<1>3. CASE ControlDropped
  <2>1. /\ pool' = Plus(pool, tx_pkts) /\ tx_pkts' = {}
        /\ bridge_pc = "control" /\ bridge_pc' = "process"
        /\ UNCHANGED <<rxVars, tx_ring, dlVars>>
    BY <1>3 DEF ControlDropped, Handler, Frees
  <2>2. PoolInv'
    <3>1. pool' \in [Mbufs -> Nat]
      BY <2>1, EntriesType DEF MbufTypes
    <3>. QED
      BY <2>1, <3>1
      DEF rxVars, dlVars, MbufTypes, BridgePcs, HeldWhereUsed, FirstBurstAllocates
  <2>3. ASSUME NEW m \in Mbufs  PROVE Owners(m)' = Owners(m) /\ Owners(m) \in Nat
    <3>1. pool'[m] = pool[m] + Count(m, tx_pkts)
      BY <2>1, Entries DEF MbufTypes
    <3>. QED  BY <2>1, <3>1 DEF rxVars, dlVars, Owners, Count, MbufTypes
  <2>. QED  BY <2>2, <2>3 DEF OwnersKept
<1>. QED  BY <1>1, <1>2, <1>3

\* The DL buffers: the first slot takes them from the pool to the driver.
LEMMA DlKeeps ==
  ASSUME PoolInv, DlPrepare \/ DlTransmit  PROVE PoolInv' /\ OwnersKept
<1>. USE DEF PoolInv
<1>1. CASE DlPrepare /\ dl_mbufs = {}
  <2>1. PICK S \in SUBSET InPool :
          /\ pool' = Minus(pool, S) /\ dl_mbufs' = S /\ dl_in_hand' = S
          /\ dl_bursts' = dl_bursts + 1
          /\ bridge_pc = "process" /\ bridge_pc' = "dl_write"
          /\ UNCHANGED <<rxVars, tx_pkts, tx_ring>>
    BY <1>1 DEF DlPrepare, Allocates, Handler
  <2>2. S \subseteq Mbufs /\ (\A x \in S : pool[x] > 0) /\ dl_in_hand = {}
    BY <2>1 DEF InPool, HeldWhereUsed
  <2>3. PoolInv'
    <3>1. pool' \in [Mbufs -> Nat]
      BY <2>1, <2>2, EntriesType DEF MbufTypes
    <3>2. dl_bursts \in Nat /\ dl_bursts' \in Nat /\ dl_bursts' # 0
      BY <2>1 DEF MbufTypes
    <3>. QED
      BY <2>1, <2>2, <3>1, <3>2
      DEF rxVars, MbufTypes, BridgePcs, HeldWhereUsed, FirstBurstAllocates
  <2>4. ASSUME NEW m \in Mbufs  PROVE Owners(m)' = Owners(m) /\ Owners(m) \in Nat
    <3>1. pool'[m] = pool[m] - Count(m, S)
      BY <2>1, Entries DEF MbufTypes
    <3>. QED  BY <2>1, <2>2, <3>1 DEF rxVars, Owners, Count, MbufTypes
  <2>. QED  BY <2>3, <2>4 DEF OwnersKept
<1>2. CASE DlPrepare /\ dl_mbufs # {}
  <2>1. /\ dl_bursts' = dl_bursts + 1
        /\ bridge_pc = "process" /\ bridge_pc' = "dl_write"
        /\ UNCHANGED <<rxVars, pool, dl_mbufs, dl_in_hand, tx_pkts, tx_ring>>
    BY <1>2 DEF DlPrepare, Handler
  <2>2. dl_bursts' \in Nat /\ dl_bursts' > 1
    BY <1>2, <2>1 DEF FirstBurstAllocates, MbufTypes
  <2>3. PoolInv'
    BY <2>1, <2>2
    DEF rxVars, MbufTypes, BridgePcs, HeldWhereUsed, FirstBurstAllocates
  <2>4. ASSUME NEW m \in Mbufs  PROVE Owners(m)' = Owners(m) /\ Owners(m) \in Nat
    BY <2>1, OwnersType DEF rxVars, Owners, Count
  <2>. QED  BY <2>3, <2>4 DEF OwnersKept
<1>3. CASE DlTransmit
  <2>1. /\ tx_ring' = Plus(tx_ring, dl_mbufs) /\ dl_in_hand' = {}
        /\ bridge_pc = "dl_write" /\ bridge_pc' = "process"
        /\ UNCHANGED <<rxVars, pool, tx_pkts, dl_mbufs, dl_bursts>>
    BY <1>3 DEF DlTransmit, Handler
  <2>2. PoolInv'
    <3>1. tx_ring' \in [Mbufs -> Nat]
      BY <2>1, EntriesType DEF MbufTypes
    <3>. QED
      BY <2>1, <3>1
      DEF rxVars, MbufTypes, BridgePcs, HeldWhereUsed, FirstBurstAllocates
  <2>3. ASSUME NEW m \in Mbufs
        PROVE  /\ dl_bursts <= 1 => Owners(m)' = Owners(m)
               /\ Owners(m)' = 0 => Owners(m) = 0
               /\ Owners(m) \in Nat
    <3>1. tx_ring'[m] = tx_ring[m] + Count(m, dl_mbufs)
      BY <2>1, Entries DEF MbufTypes
    <3>2. /\ dl_in_hand \subseteq dl_mbufs
          /\ dl_bursts <= 1 => dl_in_hand = dl_mbufs
      BY <2>1 DEF HeldWhereUsed, FirstBurstAllocates
    <3>. QED  BY <2>1, <3>1, <3>2 DEF rxVars, Owners, Count, MbufTypes
  <2>. QED  BY <2>1, <2>2, <2>3 DEF OwnersKept
<1>. QED  BY <1>1, <1>2, <1>3

\* Every step keeps the invariant, and the owners as said above.
LEMMA StepKeeps ==
  ASSUME PoolInv, [MbufNext]_mbufVars  PROVE PoolInv' /\ OwnersKept
<1>1. CASE UNCHANGED mbufVars
  <2>1. PoolInv'
    BY <1>1
    DEF mbufVars, PoolInv, MbufTypes, HeldWhereUsed, FirstBurstAllocates
  <2>2. ASSUME NEW m \in Mbufs  PROVE Owners(m)' = Owners(m) /\ Owners(m) \in Nat
    BY <1>1, OwnersType DEF mbufVars, Owners, Count, PoolInv
  <2>. QED  BY <2>1, <2>2 DEF OwnersKept
<1>. QED
  BY <1>1, DriverKeeps, BurstKeeps, ControlKeeps, DlKeeps DEF MbufNext, MainLoop

-----------------------------------------------------------------------------
(* The theorems.                                                           *)

\* In every state of the loop, the burst, the control packet and the DL buffers
\* are held only where the loop uses them.
THEOREM PoolInvariance == MbufSpec => []PoolInv
BY InitPool, StepKeeps, PTL DEF MbufSpec

\* Nothing is freed twice and nothing is written that another owner has, up to
\* the second slot of DL data: on every path of the loop, for every number of
\* buffers and every size of the rings and bursts, no buffer has two owners.
THEOREM BuffersHaveOneOwner == MbufSpec => []OneOwner
<1>1. ASSUME PoolInv, OneOwner, [MbufNext]_mbufVars  PROVE OneOwner'
  <2>. SUFFICES ASSUME dl_bursts' <= 1, NEW m \in Mbufs  PROVE Owners(m)' <= 1
    BY DEF OneOwner
  <2>1. dl_bursts <= 1
    <3>1. dl_bursts \in Nat /\ dl_bursts' \in {dl_bursts, dl_bursts + 1}
      BY <1>1
      DEF PoolInv, MbufTypes, MbufNext, Driver, MainLoop, Receive, Refill,
          TransmitDone, ClearBurst, TakeBurst, Takes, BurstDone, ControlAlloc,
          ControlSent, ControlDropped, DlPrepare, DlTransmit, dlVars, mbufVars
    <3>. QED  BY <3>1
  <2>2. Owners(m)' <= Owners(m) /\ Owners(m) <= 1
    BY <1>1, <2>1, StepKeeps DEF OwnersKept, OneOwner
  <2>3. Owners(m) \in Nat /\ Owners(m)' \in Nat
    <3>1. PoolInv'
      BY <1>1, StepKeeps
    <3>2. Owners(m)' \in Nat
      BY <3>1 DEF PoolInv, MbufTypes, Owners, Count
    <3>. QED  BY <1>1, <3>2, OwnersType DEF PoolInv
  <2>. QED  BY <2>2, <2>3
<1>. QED  BY InitPool, PoolInvariance, <1>1, PTL DEF MbufSpec

\* The only step that loses a buffer is the return without a free while the loop
\* clears the receive ring: afterwards every buffer keeps an owner, over failed
\* allocations, full transmit rings and slots of DL data in any order.
THEOREM OnlyClearingLeaks == MbufSpec => LeaksOnlyWhileClearing
<1>1. ASSUME PoolInv, [MbufNext]_mbufVars
      PROVE  [Lost' \subseteq Lost \/ init_state = 0]_mbufVars
  BY <1>1, StepKeeps DEF OwnersKept, Lost
<1>. QED  BY PoolInvariance, <1>1, PTL DEF MbufSpec, LeaksOnlyWhileClearing

-----------------------------------------------------------------------------
(* Startup.                                                                *)

(* The places of the steps of a flowgraph, for both orders.                *)

Names == Seq({"open", "close", "listen", "accept", "start", "ul", "dl", "sched"})

\* The names of the steps.
LEMMA StepNames ==
  {<<"open", "ul">>, <<"close", "ul">>, <<"listen">>, <<"accept">>,
   <<"open", "dl">>, <<"close", "dl">>, <<"open", "sched">>, <<"close", "sched">>,
   <<"start">>} \subseteq Names
BY DEF Names

\* Two sequences of four and one step are a sequence of nine.
LEMMA NineSteps ==
  ASSUME NEW S, NEW p \in [1 .. 9 -> S]
  PROVE  (<<p[1], p[2], p[3], p[4]>> \o <<p[5], p[6], p[7], p[8]>>) \o <<p[9]>>
           = <<p[1], p[2], p[3], p[4], p[5], p[6], p[7], p[8], p[9]>>
<1>. DEFINE s == <<p[1], p[2], p[3], p[4]>>
            t == <<p[5], p[6], p[7], p[8]>>
            u == [k \in 1 .. 8 |-> p[k]]
<1>1. s \in Seq(S) /\ t \in Seq(S) /\ u \in Seq(S) /\ <<p[9]>> \in Seq(S)
  OBVIOUS
<1>2. s \o t = [k \in 1 .. 8 |-> IF k <= 4 THEN s[k] ELSE t[k - 4]]
  BY <1>1
<1>3. s \o t = u
  BY <1>2
<1>4. u \o <<p[9]>> = [k \in 1 .. 9 |-> p[k]]
  BY <1>1
<1>5. <<p[1], p[2], p[3], p[4], p[5], p[6], p[7], p[8], p[9]>> = [k \in 1 .. 9 |-> p[k]]
  OBVIOUS
<1>. QED  BY <1>3, <1>4, <1>5

\* A step that occurs once in a sequence is found at its place.
LEMMA FoundOnce ==
  ASSUME NEW s, NEW k \in DOMAIN s, \A j \in DOMAIN s : s[j] = s[k] => j = k
  PROVE  (CHOOSE j \in DOMAIN s : s[j] = s[k]) = k
OBVIOUS

Positions(open_ul, close_ul, listen, accept, open_dl, close_dl, open_sched,
          close_sched) ==
  /\ Position(<<"open", "ul">>) = open_ul /\ Position(<<"close", "ul">>) = close_ul
  /\ Position(<<"listen">>) = listen /\ Position(<<"accept">>) = accept
  /\ Position(<<"open", "dl">>) = open_dl /\ Position(<<"close", "dl">>) = close_dl
  /\ Position(<<"open", "sched">>) = open_sched
  /\ Position(<<"close", "sched">>) = close_sched
  /\ Position(<<"start">>) = 9 /\ Len(FlowSteps(order)) = 9

\* The places of the steps if the source is constructed first.
LEMMA SourceFirst ==
  ASSUME order = "source_first"
  PROVE  Positions(1, 2, 3, 4, 5, 6, 7, 8)
<1>. DEFINE s == << <<"open", "ul">>, <<"close", "ul">>, <<"listen">>, <<"accept">>,
                    <<"open", "dl">>, <<"close", "dl">>, <<"open", "sched">>,
                    <<"close", "sched">>, <<"start">> >>
<1>1. FlowSteps(order) = s
  <2>1. FlowSteps(order) = (SourceSteps \o SinkSteps) \o << <<"start">> >>
    BY DEF FlowSteps
  <2>2. s \in [1 .. 9 -> Names]
    BY StepNames
  <2>3. PICK p \in [1 .. 9 -> Names] : p = s
    BY <2>2
  <2>4. /\ SourceSteps = <<p[1], p[2], p[3], p[4]>> /\ SinkSteps = <<p[5], p[6], p[7], p[8]>>
        /\ <<"start">> = p[9]
    BY <2>3 DEF SourceSteps, SinkSteps
  <2>5. s = <<p[1], p[2], p[3], p[4], p[5], p[6], p[7], p[8], p[9]>>
    BY <2>3
  <2>. QED  BY <2>1, <2>4, <2>5, NineSteps
<1>2. DOMAIN s = 1 .. 9 /\ Len(s) = 9
  OBVIOUS
<1>3. \A j, k \in 1 .. 9 : s[j] = s[k] => j = k
  OBVIOUS
<1>4. ASSUME NEW k \in 1 .. 9
      PROVE  Position(s[k]) = k
  <2>. HIDE DEF s
  <2>. QED  BY <1>1, <1>2, <1>3, FoundOnce DEF Position
<1>5. /\ s[1] = <<"open", "ul">> /\ s[2] = <<"close", "ul">> /\ s[3] = <<"listen">>
      /\ s[4] = <<"accept">> /\ s[5] = <<"open", "dl">> /\ s[6] = <<"close", "dl">>
      /\ s[7] = <<"open", "sched">> /\ s[8] = <<"close", "sched">>
      /\ s[9] = <<"start">>
  OBVIOUS
<1>. HIDE DEF s
<1>. QED  BY <1>1, <1>2, <1>4, <1>5 DEF Positions

\* The places of the steps if the sink is constructed first.
LEMMA SinkFirst ==
  ASSUME order = "sink_first"
  PROVE  Positions(5, 6, 7, 8, 1, 2, 3, 4)
<1>. DEFINE s == << <<"open", "dl">>, <<"close", "dl">>, <<"open", "sched">>,
                    <<"close", "sched">>, <<"open", "ul">>, <<"close", "ul">>,
                    <<"listen">>, <<"accept">>, <<"start">> >>
<1>1. FlowSteps(order) = s
  <2>1. FlowSteps(order) = (SinkSteps \o SourceSteps) \o << <<"start">> >>
    BY DEF FlowSteps
  <2>2. s \in [1 .. 9 -> Names]
    BY StepNames
  <2>3. PICK p \in [1 .. 9 -> Names] : p = s
    BY <2>2
  <2>4. /\ SinkSteps = <<p[1], p[2], p[3], p[4]>> /\ SourceSteps = <<p[5], p[6], p[7], p[8]>>
        /\ <<"start">> = p[9]
    BY <2>3 DEF SourceSteps, SinkSteps
  <2>5. s = <<p[1], p[2], p[3], p[4], p[5], p[6], p[7], p[8], p[9]>>
    BY <2>3
  <2>. QED  BY <2>1, <2>4, <2>5, NineSteps
<1>2. DOMAIN s = 1 .. 9 /\ Len(s) = 9
  OBVIOUS
<1>3. \A j, k \in 1 .. 9 : s[j] = s[k] => j = k
  OBVIOUS
<1>4. ASSUME NEW k \in 1 .. 9
      PROVE  Position(s[k]) = k
  <2>. HIDE DEF s
  <2>. QED  BY <1>1, <1>2, <1>3, FoundOnce DEF Position
<1>5. /\ s[1] = <<"open", "dl">> /\ s[2] = <<"close", "dl">>
      /\ s[3] = <<"open", "sched">> /\ s[4] = <<"close", "sched">>
      /\ s[5] = <<"open", "ul">> /\ s[6] = <<"close", "ul">> /\ s[7] = <<"listen">>
      /\ s[8] = <<"accept">> /\ s[9] = <<"start">>
  OBVIOUS
<1>. HIDE DEF s
<1>. QED  BY <1>1, <1>2, <1>4, <1>5 DEF Positions

-----------------------------------------------------------------------------
(* What the rest needs to know of the places.                              *)

OpenAt(f)  == Position(<<"open", f>>)
CloseAt(f) == Position(<<"close", f>>)
ListenAt   == Position(<<"listen">>)
AcceptAt   == Position(<<"accept">>)

PlaceFacts ==
  /\ Len(FlowSteps(order)) = 9 /\ Position(<<"start">>) = 9
  /\ ListenAt \in 1 .. 7 /\ AcceptAt = ListenAt + 1
  /\ \A f \in Files :
       /\ OpenAt(f) \in 1 .. 7 /\ CloseAt(f) \in 2 .. 8 /\ CloseAt(f) = OpenAt(f) + 1
       /\ \A g \in Files : OpenAt(f) # CloseAt(g) /\ (f # g => CloseAt(f) # CloseAt(g))
       /\ ListenAt \notin {OpenAt(f), CloseAt(f)}
       /\ AcceptAt \notin {OpenAt(f), CloseAt(f)}
       /\ f = "ul" \/ order = "sink_first" => CloseAt(f) < ListenAt

\* In either order a file is closed after it is opened, and so on.
LEMMA Places == order \in Orders => PlaceFacts
<1>1. CASE order = "source_first"
  BY <1>1, SourceFirst DEF Positions, PlaceFacts, Files, OpenAt, CloseAt, ListenAt,
                              AcceptAt
<1>2. CASE order = "sink_first"
  BY <1>2, SinkFirst DEF Positions, PlaceFacts, Files, OpenAt, CloseAt, ListenAt,
                              AcceptAt
<1>. QED  BY <1>1, <1>2, StartupAssumption

\* A flowgraph that has taken no step.
AtItsStart ==
  /\ Len(FlowSteps(order)) = 9
  /\ ~Past(<<"accept">>)
  /\ \A f \in Files : ~Past(<<"close", f>>)

\* A flowgraph that has just been launched has done nothing.
LEMMA NothingPast == order \in Orders /\ flow_at = 0 => AtItsStart
<1>. SUFFICES ASSUME order \in Orders, flow_at = 0  PROVE AtItsStart
  OBVIOUS
<1>1. /\ Len(FlowSteps(order)) = 9 /\ AcceptAt \in 2 .. 8
      /\ \A f \in Files : CloseAt(f) \in 2 .. 8
  BY Places DEF PlaceFacts
<1>. QED  BY <1>1 DEF AtItsStart, Past, AcceptAt, CloseAt

\* As long as the flowgraph is the same, so are the places.
LEMMA SamePlaces ==
  ASSUME order' = order
  PROVE  \A step : Position(step)' = Position(step)
BY DEF Position, FlowSteps

-----------------------------------------------------------------------------
(* The inductive invariant.                                                *)

\* What the constructors have written is there.
FilesInv ==
  \A f \in Files \ unwritten : Past(<<"close", f>>) => files[f] = flow

\* A bridge that was launched for this flowgraph was so while its source listened.
LaunchInv ==
  /\ bridge_at # "down" => bridges > 0
  /\ for_flow <= flow
  /\ for_flow = flow => SourceListens

\* Where main() of the bridge is once it has read a file.
Loaded(f) ==
  {"connect_ul", "listen_dl", "accept_dl", "loop"} \cup
    (IF f = "sched" THEN {"load_ul", "load_dl"}
     ELSE IF f = "ul" THEN {"load_dl"} ELSE {})

\* What that bridge has read of the files written before the source listened.
ConfigInv ==
  for_flow = flow =>
    \A f \in Files \ unwritten :
      (f = "ul" \/ order = "sink_first") /\ bridge_at \in Loaded(f)
        => config[f] = flow

\* A flowgraph that a bridge has connected to is the peer of the running bridge,
\* if that is connected at all; only such a flowgraph reaches the bridge's socket.
PeerInv ==
  /\ (ul_backlog # <<>> \/ Past(<<"accept">>))
       /\ bridge_at \in {"listen_dl", "accept_dl", "loop"} => ul_peer = flow
  /\ ~DlListens => dl_backlog = <<>>
  /\ \A k \in 1 .. Len(dl_backlog) : dl_backlog[k] = ul_peer
  /\ bridge_at = "loop" => dl_peer = ul_peer

StartInv == StartTypeOK /\ FilesInv /\ LaunchInv /\ ConfigInv /\ PeerInv

\* Before anything is launched the invariant holds.
LEMMA StartStarts == StartInit => StartInv
<1>. SUFFICES ASSUME StartInit  PROVE StartInv
  OBVIOUS
<1>1. PlaceFacts
  BY Places DEF StartInit
<1>2. MaxFlows \in Nat /\ MaxFlows >= 2 /\ MaxBridges \in Nat /\ Backlog \in Nat
      /\ MaxFaults \in Nat
  BY StartupAssumption
<1>3. StartTypeOK
  <2>1. flow \in Flows /\ flow_at \in 0 .. Len(FlowSteps(order))
    BY <1>1, <1>2 DEF StartInit, PlaceFacts, Flows
  <2>2. files \in [Files -> {Absent, Empty} \cup Flows] /\ unwritten \subseteq Files
    BY <1>2 DEF StartInit, Flows
  <2>3. config \in [Files -> {Default} \cup Flows]
    BY DEF StartInit
  <2>4. /\ ul_backlog \in Seq(1 .. MaxBridges) /\ Len(ul_backlog) <= Backlog
        /\ dl_backlog \in Seq(Flows) /\ Len(dl_backlog) <= Backlog
    BY <1>2 DEF StartInit
  <2>5. order \in Orders /\ ul_peer = 0 /\ dl_peer = 0 /\ for_flow = 0
        /\ bridges \in 0 .. MaxBridges /\ faults \in 0 .. MaxFaults
        /\ bridge_at = "down" /\ ul_accepted = FALSE /\ sink_conn = FALSE
    BY <1>2 DEF StartInit
  <2>. QED  BY <2>1, <2>2, <2>3, <2>4, <2>5 DEF StartTypeOK
<1>4. FilesInv
  BY NothingPast DEF StartInit, FilesInv, AtItsStart
<1>5. LaunchInv /\ ConfigInv
  BY DEF StartInit, LaunchInv, ConfigInv
<1>6. PeerInv
  BY NothingPast DEF StartInit, PeerInv, AtItsStart, DlListens
<1>. QED  BY <1>3, <1>4, <1>5, <1>6 DEF StartInv

-----------------------------------------------------------------------------
(* The steps of the flowgraph.                                             *)

\* What the types say of the numbers, and the places that every step needs.
LEMMA StartNumbers ==
  ASSUME StartTypeOK
  PROVE  /\ PlaceFacts /\ flow_at \in 0 .. 9 /\ flow \in Nat /\ flow > 0
         /\ flow <= MaxFlows /\ Backlog \in Nat \ {0} /\ MaxFlows \in Nat
         /\ MaxBridges \in Nat /\ MaxFaults \in Nat /\ for_flow \in Nat
         /\ faults \in Nat /\ bridges \in Nat
<1>1. PlaceFacts
  BY Places DEF StartTypeOK
<1>2. Len(FlowSteps(order)) = 9
  BY <1>1 DEF PlaceFacts
<1>. QED  BY <1>1, <1>2, StartupAssumption DEF StartTypeOK, Flows

\* A step of the flowgraph passes its own place and no other.
LEMMA OnePlaceOn ==
  ASSUME StartTypeOK, NEW step, At(step), Goes(1), Position(step) \in 1 .. 9
  PROVE  /\ flow' = flow /\ order' = order /\ flow_at' \in 0 .. 9
         /\ \A other : Position(other) \in Nat =>
              (Past(other)' <=> Past(other) \/ Position(other) = Position(step))
<1>1. flow_at \in 0 .. 9
  BY StartNumbers
<1>2. flow' = flow /\ order' = order /\ flow_at' = flow_at + 1
      /\ flow_at + 1 = Position(step)
  BY DEF At, Goes
<1>3. ASSUME NEW other, Position(other) \in Nat
      PROVE  Past(other)' <=> Past(other) \/ Position(other) = Position(step)
  <2>1. Position(other)' = Position(other)
    BY <1>2, SamePlaces
  <2>2. Past(other)' <=> flow_at' >= Position(other)
    BY <2>1 DEF Past
  <2>. QED  BY <1>1, <1>2, <1>3, <2>2 DEF Past
<1>. QED  BY <1>1, <1>2, <1>3

\* The types of what the flowgraph does not touch stay.
LEMMA TypeStays ==
  ASSUME StartTypeOK, flow' = flow, order' = order, flow_at' \in 0 .. 9,
         UNCHANGED <<linkVars, bridgeVars>>, faults' \in 0 .. MaxFaults,
         files' \in [Files -> {Absent, Empty} \cup Flows], unwritten' \subseteq Files
  PROVE  StartTypeOK'
<1>1. Len(FlowSteps(order))' = 9
  <2>1. Len(FlowSteps(order)) = 9
    BY StartNumbers DEF PlaceFacts
  <2>. QED  BY <2>1 DEF FlowSteps
<1>. QED  BY <1>1 DEF StartTypeOK, linkVars, bridgeVars

\* A file that is opened, or cannot be, or is closed with its content.
LEMMA FileSteps ==
  ASSUME StartInv, NEW f \in Files,
         OpenConfig(f) \/ OpenConfigFails(f) \/ CloseConfig(f)
  PROVE  StartInv'
<1>1. /\ StartTypeOK /\ PlaceFacts /\ flow_at \in 0 .. 9
      /\ flow \in Flows /\ MaxFaults \in Nat /\ faults \in Nat
  BY StartNumbers DEF StartInv, StartTypeOK
<1>2. /\ flow' = flow /\ order' = order /\ UNCHANGED <<linkVars, bridgeVars>>
      /\ unwritten' \in {unwritten, unwritten \cup {f}}
      /\ faults' \in 0 .. MaxFaults
  <2>1. faults' = faults \/ (faults < MaxFaults /\ faults' = faults + 1)
    BY DEF OpenConfig, OpenConfigFails, CloseConfig
  <2>2. faults' \in 0 .. MaxFaults
    BY <1>1, <2>1 DEF StartTypeOK
  <2>. QED  BY <2>2 DEF OpenConfig, OpenConfigFails, CloseConfig, Goes
<1>3. /\ OpenAt(f) \in 1 .. 7 /\ CloseAt(f) = OpenAt(f) + 1
      /\ \A g \in Files : /\ CloseAt(g) \in 2 .. 8 /\ CloseAt(g) # OpenAt(f)
                          /\ g # f => CloseAt(g) # CloseAt(f)
      /\ ListenAt \in 1 .. 7 /\ ListenAt # OpenAt(f) /\ ListenAt # CloseAt(f)
      /\ AcceptAt \in 2 .. 8 /\ AcceptAt # OpenAt(f) /\ AcceptAt # CloseAt(f)
  BY <1>1 DEF PlaceFacts
<1>4. \A step : Position(step)' = Position(step)
  BY <1>2, SamePlaces
<1>5. \/ flow_at + 1 = OpenAt(f) /\ flow_at' = flow_at + 1
      \/ flow_at + 1 = OpenAt(f) /\ flow_at' = flow_at + 2
      \/ flow_at + 1 = CloseAt(f) /\ flow_at' = flow_at + 1
  BY DEF OpenConfig, OpenConfigFails, CloseConfig, At, Goes, OpenAt, CloseAt
<1>6. /\ flow_at' \in 0 .. 9
      /\ Past(<<"listen">>)' <=> Past(<<"listen">>)
      /\ Past(<<"accept">>)' <=> Past(<<"accept">>)
      /\ \A g \in Files : g # f => (Past(<<"close", g>>)' <=> Past(<<"close", g>>))
  <2>1. ASSUME NEW step, Position(step) \in 1 .. 8,
               Position(step) # OpenAt(f), Position(step) # CloseAt(f)
        PROVE  Past(step)' <=> Past(step)
    <3>1. Past(step)' <=> flow_at' >= Position(step)
      BY <1>4 DEF Past
    <3>2. flow_at' >= Position(step) <=> flow_at >= Position(step)
      BY <1>1, <1>3, <1>5, <2>1
    <3>. QED  BY <3>1, <3>2 DEF Past
  <2>2. flow_at' \in 0 .. 9
    BY <1>1, <1>3, <1>5
  <2>3. /\ Past(<<"listen">>)' <=> Past(<<"listen">>)
        /\ Past(<<"accept">>)' <=> Past(<<"accept">>)
    BY <1>3, <2>1 DEF ListenAt, AcceptAt
  <2>4. ASSUME NEW g \in Files, g # f
        PROVE  Past(<<"close", g>>)' <=> Past(<<"close", g>>)
    <3>1. CloseAt(g) \in 1 .. 8 /\ CloseAt(g) # OpenAt(f) /\ CloseAt(g) # CloseAt(f)
      BY <1>3, <2>4
    <3>. QED  BY <2>1, <3>1 DEF CloseAt
  <2>. QED  BY <2>2, <2>3, <2>4
<1>7. files' \in [Files -> {Absent, Empty} \cup Flows]
      /\ \A g \in Files : g # f => files'[g] = files[g]
  BY <1>1 DEF StartTypeOK, OpenConfig, OpenConfigFails, CloseConfig
<1>8. StartTypeOK'
  BY <1>1, <1>2, <1>6, <1>7, TypeStays DEF StartTypeOK
<1>9. FilesInv'
  <2>1. ASSUME NEW g \in Files \ unwritten', Past(<<"close", g>>)'
        PROVE  files'[g] = flow'
    <3>1. CASE g # f
      BY <1>2, <1>6, <1>7, <2>1, <3>1 DEF StartInv, FilesInv
    <3>2. CASE g = f
      <4>1. ~OpenConfigFails(f)
        BY <2>1, <3>2 DEF OpenConfigFails
      <4>2. ~OpenConfig(f)
        <5>1. SUFFICES ASSUME OpenConfig(f)  PROVE FALSE
          OBVIOUS
        <5>2. flow_at' = OpenAt(f)
          BY <1>1, <5>1 DEF OpenConfig, At, Goes, OpenAt
        <5>3. flow_at' >= CloseAt(f)
          BY <1>4, <2>1, <3>2 DEF Past, CloseAt
        <5>. QED  BY <1>3, <5>2, <5>3
      <4>3. files' = [files EXCEPT ![f] = flow]
        BY <4>1, <4>2 DEF CloseConfig
      <4>. QED  BY <1>1, <1>2, <3>2, <4>3 DEF StartTypeOK
    <3>. QED  BY <3>1, <3>2
  <2>. QED  BY <2>1 DEF FilesInv
<1>10. LaunchInv'
  BY <1>2, <1>6 DEF StartInv, LaunchInv, SourceListens, bridgeVars
<1>11. ConfigInv'
  BY <1>2 DEF StartInv, ConfigInv, Loaded, bridgeVars
<1>12. PeerInv'
  BY <1>2, <1>6 DEF StartInv, PeerInv, DlListens, bridgeVars, linkVars
<1>. QED  BY <1>8, <1>9, <1>10, <1>11, <1>12 DEF StartInv

\* The steps around the sockets of the two blocks, and what they pass.
LEMMA SocketPlaces ==
  ASSUME StartTypeOK, NEW step \in {<<"listen">>, <<"accept">>, <<"start">>},
         At(step), Goes(1)
  PROVE  /\ flow' = flow /\ order' = order /\ flow_at' \in 0 .. 9
         /\ Past(<<"listen">>) => Past(<<"listen">>)'
         /\ step # <<"accept">> => (Past(<<"accept">>)' <=> Past(<<"accept">>))
         /\ step = <<"start">> => Past(<<"accept">>)
         /\ \A g \in Files : Past(<<"close", g>>)' <=> Past(<<"close", g>>)
<1>1. PlaceFacts /\ flow_at \in 0 .. 9
  BY StartNumbers
<1>2. /\ ListenAt \in 1 .. 7 /\ AcceptAt = ListenAt + 1
      /\ Position(<<"start">>) = 9
      /\ \A g \in Files : CloseAt(g) \in 2 .. 8 /\ CloseAt(g) # ListenAt
                          /\ CloseAt(g) # AcceptAt
  BY <1>1 DEF PlaceFacts
<1>3. Position(step) \in 1 .. 9
  BY <1>2 DEF ListenAt, AcceptAt
<1>4. /\ flow' = flow /\ order' = order /\ flow_at' \in 0 .. 9
      /\ \A other : Position(other) \in Nat =>
           (Past(other)' <=> Past(other) \/ Position(other) = Position(step))
  BY <1>3, OnePlaceOn
<1>5. Past(<<"listen">>) => Past(<<"listen">>)'
  BY <1>2, <1>4 DEF ListenAt
<1>6. step # <<"accept">> => (Past(<<"accept">>)' <=> Past(<<"accept">>))
  <2>1. step # <<"accept">> => Position(<<"accept">>) # Position(step)
    BY <1>2 DEF ListenAt, AcceptAt
  <2>. QED  BY <1>2, <1>4, <2>1 DEF AcceptAt
<1>7. step = <<"start">> => Past(<<"accept">>)
  BY <1>1, <1>2 DEF At, Past, AcceptAt
<1>8. ASSUME NEW g \in Files
      PROVE  Past(<<"close", g>>)' <=> Past(<<"close", g>>)
  <2>1. CloseAt(g) \in Nat /\ CloseAt(g) # Position(step)
    BY <1>2 DEF ListenAt, AcceptAt
  <2>. QED  BY <1>4, <2>1 DEF CloseAt
<1>. QED  BY <1>4, <1>5, <1>6, <1>7, <1>8

\* The constructor of the source listens and accepts.
LEMMA SourceSocketSteps ==
  ASSUME StartInv, SourceListen \/ SourceAccept
  PROVE  StartInv'
<1>1. StartTypeOK
  BY DEF StartInv
<1>2. PICK step \in {<<"listen">>, <<"accept">>, <<"start">>} :
        /\ At(step) /\ Goes(1)
        /\ step = <<"accept">> => ul_backlog # <<>>
  BY DEF SourceListen, SourceAccept
<1>3. /\ flow' = flow /\ order' = order /\ flow_at' \in 0 .. 9
      /\ Past(<<"listen">>) => Past(<<"listen">>)'
      /\ Past(<<"accept">>)' => Past(<<"accept">>) \/ ul_backlog # <<>>
      /\ \A g \in Files : Past(<<"close", g>>)' <=> Past(<<"close", g>>)
  BY <1>1, <1>2, SocketPlaces
<1>4. /\ UNCHANGED <<files, unwritten, sink_conn, ul_peer, dl_backlog, bridgeVars, faults>>
      /\ \/ ul_backlog' = ul_backlog /\ ul_accepted' = ul_accepted
         \/ ul_backlog # <<>> /\ ul_backlog' = Tail(ul_backlog)
              /\ ul_accepted' = (Head(ul_backlog) = bridges)
  BY DEF SourceListen, SourceAccept, linkVars
<1>5. /\ ul_backlog' \in Seq(1 .. MaxBridges) /\ Len(ul_backlog') <= Backlog
      /\ ul_accepted' \in BOOLEAN
      /\ ul_backlog' # <<>> => ul_backlog # <<>>
  <2>1. ul_backlog \in Seq(1 .. MaxBridges) /\ Len(ul_backlog) <= Backlog
        /\ ul_accepted \in BOOLEAN /\ Backlog \in Nat
    BY <1>1, StartNumbers DEF StartTypeOK
  <2>2. ul_accepted' \in BOOLEAN
    BY <1>4, <2>1, Zenon
  <2>3. CASE ul_backlog' = ul_backlog
    BY <2>1, <2>2, <2>3
  <2>4. CASE ul_backlog # <<>> /\ ul_backlog' = Tail(ul_backlog)
    BY <2>1, <2>2, <2>4
  <2>. QED  BY <1>4, <2>3, <2>4
<1>6. StartTypeOK'
  <2>1. Len(FlowSteps(order))' = 9
    <3>1. Len(FlowSteps(order)) = 9
      BY <1>1, StartNumbers DEF PlaceFacts
    <3>. QED  BY <1>3, <3>1 DEF FlowSteps
  <2>. QED  BY <1>1, <1>3, <1>4, <1>5, <2>1 DEF StartTypeOK, bridgeVars
<1>7. FilesInv'
  BY <1>3, <1>4 DEF StartInv, FilesInv
<1>8. LaunchInv' /\ ConfigInv'
  BY <1>3, <1>4 DEF StartInv, LaunchInv, ConfigInv, SourceListens, Loaded, bridgeVars
<1>9. PeerInv'
  BY <1>3, <1>4, <1>5 DEF StartInv, PeerInv, DlListens, bridgeVars
<1>. QED  BY <1>6, <1>7, <1>8, <1>9 DEF StartInv

\* The sink connects when it starts, or later.
LEMMA SinkSocketSteps ==
  ASSUME StartInv, SinkStartConnected \/ SinkStartAlone \/ SinkReconnect
  PROVE  StartInv'
<1>1. StartTypeOK /\ PlaceFacts /\ flow_at \in 0 .. 9
  BY StartNumbers DEF StartInv
<1>2. /\ flow' = flow /\ order' = order /\ flow_at' \in 0 .. 9
      /\ Past(<<"listen">>) => Past(<<"listen">>)'
      /\ Past(<<"accept">>) /\ Past(<<"accept">>)'
      /\ \A g \in Files : Past(<<"close", g>>)' <=> Past(<<"close", g>>)
  <2>1. CASE SinkStartConnected \/ SinkStartAlone
    <3>1. At(<<"start">>) /\ Goes(1)
      BY <2>1 DEF SinkStartConnected, SinkStartAlone
    <3>. QED  BY <1>1, <3>1, SocketPlaces
  <2>2. CASE SinkReconnect
    <3>1. flow' = flow /\ order' = order /\ flow_at' = flow_at + 0
          /\ Past(<<"start">>)
      BY <2>2 DEF SinkReconnect, Goes
    <3>2. \A step : Past(step)' <=> Past(step)
      BY <1>1, <3>1, SamePlaces DEF Past
    <3>3. Past(<<"accept">>)
      BY <1>1, <3>1 DEF Past, PlaceFacts, AcceptAt
    <3>. QED  BY <1>1, <3>1, <3>2, <3>3
  <2>. QED  BY <2>1, <2>2
<1>3. /\ UNCHANGED <<files, unwritten, ul_backlog, ul_accepted, ul_peer, bridgeVars, faults>>
      /\ \/ dl_backlog' = dl_backlog /\ sink_conn' = sink_conn
         \/ DlListens /\ dl_backlog' = Append(dl_backlog, flow) /\ sink_conn' = TRUE
              /\ Len(dl_backlog) < Backlog
  BY DEF SinkStartConnected, SinkStartAlone, SinkReconnect, Connects, linkVars
<1>4. /\ dl_backlog \in Seq(Flows) /\ Len(dl_backlog) <= Backlog /\ flow \in Flows
      /\ Backlog \in Nat
  BY <1>1, StartNumbers DEF StartTypeOK
<1>5. /\ dl_backlog' \in Seq(Flows) /\ Len(dl_backlog') <= Backlog
      /\ sink_conn' \in BOOLEAN
      /\ \A k \in 1 .. Len(dl_backlog') : dl_backlog'[k] = ul_peer
      /\ ~DlListens => dl_backlog' = <<>>
  <2>1. CASE dl_backlog' = dl_backlog /\ sink_conn' = sink_conn
    BY <1>1, <1>4, <2>1 DEF StartInv, PeerInv, StartTypeOK
  <2>2. CASE /\ DlListens /\ dl_backlog' = Append(dl_backlog, flow) /\ sink_conn' = TRUE
             /\ Len(dl_backlog) < Backlog
    <3>1. flow = ul_peer
      BY <1>2, <2>2 DEF StartInv, PeerInv, DlListens
    <3>2. \A k \in 1 .. Len(dl_backlog) : dl_backlog[k] = ul_peer
      BY DEF StartInv, PeerInv
    <3>. QED  BY <1>4, <2>2, <3>1, <3>2
  <2>. QED  BY <1>3, <2>1, <2>2
<1>6. StartTypeOK'
  <2>1. Len(FlowSteps(order))' = 9
    <3>1. Len(FlowSteps(order)) = 9
      BY <1>1 DEF PlaceFacts
    <3>. QED  BY <1>2, <3>1 DEF FlowSteps
  <2>. QED  BY <1>1, <1>2, <1>3, <1>5, <2>1 DEF StartTypeOK, bridgeVars
<1>7. FilesInv'
  BY <1>2, <1>3 DEF StartInv, FilesInv
<1>8. LaunchInv' /\ ConfigInv'
  BY <1>2, <1>3 DEF StartInv, LaunchInv, ConfigInv, SourceListens, Loaded, bridgeVars
<1>9. PeerInv'
  BY <1>2, <1>3, <1>5 DEF StartInv, PeerInv, DlListens, bridgeVars
<1>. QED  BY <1>6, <1>7, <1>8, <1>9 DEF StartInv

\* A new flowgraph has written nothing and no bridge has connected to it.
LEMMA FlowRestarts == StartInv /\ FlowRestart => StartInv'
<1>. SUFFICES ASSUME StartInv, FlowRestart  PROVE StartInv'
  OBVIOUS
<1>1. /\ StartTypeOK /\ flow \in Nat /\ flow > 0 /\ MaxFlows \in Nat
      /\ for_flow \in Nat /\ for_flow <= flow /\ Backlog \in Nat
  BY StartNumbers DEF StartInv, LaunchInv
<1>2. /\ flow' = flow + 1 /\ flow < MaxFlows /\ order' \in Orders /\ flow_at' = 0
      /\ unwritten' = {} /\ ul_backlog' = <<>> /\ ul_accepted' = FALSE
      /\ sink_conn' = FALSE
      /\ UNCHANGED <<files, ul_peer, dl_backlog, bridgeVars, faults>>
  BY DEF FlowRestart
<1>3. AtItsStart'
  <2>1. (order \in Orders /\ flow_at = 0)' => AtItsStart'
    BY NothingPast, PTL
  <2>. QED  BY <1>2, <2>1
<1>4. StartTypeOK'
  <2>1. flow' \in Flows
    BY <1>1, <1>2 DEF Flows
  <2>2. flow_at' \in 0 .. Len(FlowSteps(order))'
    BY <1>2, <1>3 DEF AtItsStart
  <2>3. ul_backlog' \in Seq(1 .. MaxBridges) /\ Len(ul_backlog') <= Backlog
    BY <1>1, <1>2
  <2>. QED  BY <1>1, <1>2, <2>1, <2>2, <2>3 DEF StartTypeOK, bridgeVars
<1>5. /\ ~Past(<<"accept">>)'
      /\ \A g \in Files : ~Past(<<"close", g>>)'
  BY <1>3 DEF AtItsStart
<1>6. FilesInv'
  BY <1>5 DEF FilesInv
<1>7. for_flow' < flow'
  BY <1>1, <1>2 DEF bridgeVars
<1>8. LaunchInv' /\ ConfigInv'
  BY <1>1, <1>2, <1>7 DEF StartInv, LaunchInv, ConfigInv, bridgeVars
<1>9. PeerInv'
  BY <1>2, <1>5 DEF StartInv, PeerInv, DlListens, bridgeVars
<1>. QED  BY <1>4, <1>6, <1>8, <1>9 DEF StartInv

-----------------------------------------------------------------------------
(* The steps of the bridge.                                                *)

\* The flowgraph and its files stay.
LEMMA FlowSideStays ==
  ASSUME StartTypeOK, flow' = flow, order' = order, flow_at' = flow_at,
         unwritten' = unwritten, files' = files
  PROVE  /\ \A step : Past(step)' <=> Past(step)
         /\ SourceListens' <=> SourceListens
         /\ FilesInv => FilesInv'
         /\ flow_at' \in 0 .. Len(FlowSteps(order))'
<1>1. \A step : Past(step)' <=> Past(step)
  BY SamePlaces DEF Past
<1>2. flow_at' \in 0 .. Len(FlowSteps(order))'
  BY DEF StartTypeOK, FlowSteps
<1>. QED  BY <1>1, <1>2 DEF FilesInv, SourceListens

\* The bridge is launched, and the one that ran is gone.
LEMMA BridgeLaunches == StartInv /\ BridgeLaunch => StartInv'
<1>. SUFFICES ASSUME StartInv, BridgeLaunch  PROVE StartInv'
  OBVIOUS
<1>1. /\ StartTypeOK /\ bridges \in Nat /\ bridges < MaxBridges /\ MaxBridges \in Nat
      /\ Backlog \in Nat /\ flow \in Nat /\ flow > 0
  BY StartNumbers DEF StartInv, BridgeLaunch
<1>2. /\ bridges' = bridges + 1 /\ bridge_at' = "load_sched"
      /\ config' = [f \in Files |-> Default]
      /\ ul_accepted' = FALSE /\ sink_conn' = FALSE
      /\ ul_peer' = 0 /\ dl_backlog' = <<>> /\ dl_peer' = 0
      /\ for_flow' = (IF SourceListens THEN flow ELSE 0)
      /\ UNCHANGED <<flowVars, files, ul_backlog, faults>>
  BY DEF BridgeLaunch
<1>3. /\ flow' = flow /\ order' = order /\ flow_at' = flow_at /\ unwritten' = unwritten
      /\ files' = files /\ ul_backlog' = ul_backlog /\ faults' = faults
  BY <1>2 DEF flowVars
<1>4. /\ SourceListens' <=> SourceListens
      /\ FilesInv => FilesInv'
      /\ flow_at' \in 0 .. Len(FlowSteps(order))'
  BY <1>1, <1>3, FlowSideStays
<1>5. StartTypeOK'
  <2>1. bridges' \in 0 .. MaxBridges /\ for_flow' \in {0} \cup Flows
        /\ config' \in [Files -> {Default} \cup Flows]
    BY <1>1, <1>2 DEF StartTypeOK
  <2>2. dl_backlog' \in Seq(Flows) /\ Len(dl_backlog') <= Backlog
    BY <1>1, <1>2
  <2>. QED  BY <1>1, <1>2, <1>3, <1>4, <2>1, <2>2 DEF StartTypeOK
<1>6. LaunchInv'
  BY <1>1, <1>2, <1>3, <1>4 DEF LaunchInv
<1>7. ConfigInv'
  BY <1>2 DEF ConfigInv, Loaded
<1>8. PeerInv'
  BY <1>2 DEF PeerInv, DlListens
<1>. QED  BY <1>4, <1>5, <1>6, <1>7, <1>8 DEF StartInv

\* A step of main() that leaves the sockets: what it loads is what the files hold.
LEMMA BridgeLoads ==
  ASSUME StartInv, LoadSchedule \/ LoadUlNco \/ LoadDlNco
  PROVE  StartInv'
<1>1. StartTypeOK /\ flow \in Flows
  BY DEF StartInv, StartTypeOK
<1>2. PICK f \in Files : /\ Loads(f)
                         /\ \/ f = "sched" /\ bridge_at = "load_sched"
                                 /\ bridge_at' \in {"exited", "load_ul"}
                            \/ f = "ul" /\ bridge_at = "load_ul"
                                 /\ bridge_at' = "load_dl"
                            \/ f = "dl" /\ bridge_at = "load_dl"
                                 /\ bridge_at' = "connect_ul"
  BY DEF LoadSchedule, LoadUlNco, LoadDlNco, BridgeGoes, Files
<1>3. /\ flow' = flow /\ order' = order /\ flow_at' = flow_at /\ unwritten' = unwritten
      /\ files' = files /\ faults' = faults
      /\ bridges' = bridges /\ dl_peer' = dl_peer /\ for_flow' = for_flow
      /\ UNCHANGED linkVars
      /\ config' = [config EXCEPT ![f] = IF files[f] \in Flows THEN files[f] ELSE Default]
  BY <1>2 DEF LoadSchedule, LoadUlNco, LoadDlNco, BridgeGoes, Loads, flowVars
<1>4. /\ SourceListens' <=> SourceListens
      /\ \A step : Past(step)' <=> Past(step)
      /\ FilesInv => FilesInv'
      /\ flow_at' \in 0 .. Len(FlowSteps(order))'
  BY <1>1, <1>3, FlowSideStays
<1>5. /\ config' \in [Files -> {Default} \cup Flows]
      /\ config'[f] = (IF files[f] \in Flows THEN files[f] ELSE Default)
      /\ \A g \in Files : g # f => config'[g] = config[g]
  BY <1>1, <1>3 DEF StartTypeOK
<1>6. StartTypeOK'
  BY <1>1, <1>2, <1>3, <1>4, <1>5 DEF StartTypeOK, linkVars
<1>7. LaunchInv'
  BY <1>2, <1>3, <1>4 DEF StartInv, LaunchInv
<1>8. ConfigInv'
  <2>. SUFFICES ASSUME for_flow' = flow', NEW g \in Files \ unwritten',
                       g = "ul" \/ order' = "sink_first", bridge_at' \in Loaded(g)
       PROVE  config'[g] = flow'
    BY DEF ConfigInv
  <2>1. Past(<<"close", g>>)
    <3>1. CloseAt(g) < ListenAt /\ CloseAt(g) \in Nat /\ ListenAt \in Nat
          /\ flow_at \in Nat
      BY <1>1, <1>3, StartNumbers DEF PlaceFacts
    <3>2. Past(<<"listen">>)
      BY <1>3 DEF StartInv, LaunchInv, SourceListens
    <3>. QED  BY <3>1, <3>2 DEF Past, CloseAt, ListenAt
  <2>2. files[g] = flow
    BY <1>3, <2>1 DEF StartInv, FilesInv
  <2>3. CASE g = f
    BY <1>1, <1>3, <1>5, <2>2, <2>3
  <2>4. CASE g # f
    <3>1. bridge_at \in Loaded(g)
      BY <1>2, <2>4 DEF Loaded, Files
    <3>. QED  BY <1>3, <1>5, <2>4, <3>1 DEF StartInv, ConfigInv
  <2>. QED  BY <2>3, <2>4
<1>9. PeerInv'
  BY <1>2, <1>3 DEF StartInv, PeerInv, DlListens, linkVars
<1>. QED  BY <1>4, <1>6, <1>7, <1>8, <1>9 DEF StartInv

\* main() connects, listens and accepts.
LEMMA BridgeConnects ==
  ASSUME StartInv, ConnectUl \/ ListenDl \/ AcceptDl
  PROVE  StartInv'
<1>1. /\ StartTypeOK /\ flow \in Flows /\ bridges \in 1 .. MaxBridges
      /\ Backlog \in Nat /\ dl_backlog \in Seq(Flows) /\ Len(dl_backlog) <= Backlog
      /\ ul_backlog \in Seq(1 .. MaxBridges) /\ Len(ul_backlog) <= Backlog
      /\ ul_peer \in {0} \cup Flows /\ dl_peer \in {0} \cup Flows
      /\ PlaceFacts
  <2>1. bridge_at # "down"
    BY DEF ConnectUl, ListenDl, AcceptDl, BridgeGoes
  <2>. QED  BY <2>1, StartNumbers DEF StartInv, StartTypeOK, LaunchInv
<1>2. /\ flow' = flow /\ order' = order /\ flow_at' = flow_at /\ unwritten' = unwritten
      /\ files' = files /\ faults' = faults
      /\ bridges' = bridges /\ for_flow' = for_flow /\ config' = config
      /\ ul_accepted' = ul_accepted /\ sink_conn' = sink_conn
  BY DEF ConnectUl, ListenDl, AcceptDl, BridgeGoes, flowVars, linkVars
<1>3. /\ SourceListens' <=> SourceListens
      /\ \A step : Past(step)' <=> Past(step)
      /\ FilesInv => FilesInv'
      /\ flow_at' \in 0 .. Len(FlowSteps(order))'
  BY <1>1, <1>2, FlowSideStays
<1>4. /\ bridge_at \in {"connect_ul", "listen_dl", "accept_dl"}
      /\ bridge_at' \in {"listen_dl", "accept_dl", "loop"}
      /\ ul_backlog' \in Seq(1 .. MaxBridges) /\ Len(ul_backlog') <= Backlog
      /\ dl_backlog' \in Seq(Flows) /\ Len(dl_backlog') <= Backlog
      /\ ul_peer' \in {0} \cup Flows /\ dl_peer' \in {0} \cup Flows
      /\ PeerInv'
  <2>1. CASE ConnectUl
    <3>1. /\ bridge_at = "connect_ul" /\ bridge_at' = "listen_dl"
          /\ ul_backlog' = Append(ul_backlog, bridges) /\ ul_peer' = flow
          /\ Len(ul_backlog) < Backlog
          /\ dl_backlog' = dl_backlog /\ dl_peer' = dl_peer
      BY <2>1 DEF ConnectUl, BridgeGoes
    <3>2. ul_backlog' \in Seq(1 .. MaxBridges) /\ Len(ul_backlog') <= Backlog
      BY <1>1, <3>1
    <3>3. dl_backlog = <<>>
      BY <3>1 DEF StartInv, PeerInv, DlListens
    <3>4. PeerInv'
      BY <1>2, <3>1, <3>3 DEF PeerInv, DlListens
    <3>. QED  BY <1>1, <3>1, <3>2, <3>4
  <2>2. CASE ListenDl
    <3>1. /\ bridge_at = "listen_dl" /\ bridge_at' = "accept_dl"
          /\ ul_backlog' = ul_backlog /\ ul_peer' = ul_peer
          /\ dl_backlog' = dl_backlog /\ dl_peer' = dl_peer
      BY <2>2 DEF ListenDl, BridgeGoes, linkVars
    <3>2. PeerInv'
      BY <1>2, <1>3, <3>1 DEF StartInv, PeerInv, DlListens
    <3>. QED  BY <1>1, <3>1, <3>2
  <2>3. CASE AcceptDl
    <3>1. /\ bridge_at = "accept_dl" /\ bridge_at' = "loop"
          /\ ul_backlog' = ul_backlog /\ ul_peer' = ul_peer
          /\ dl_backlog # <<>> /\ dl_backlog' = Tail(dl_backlog)
          /\ dl_peer' = Head(dl_backlog)
      BY <2>3 DEF AcceptDl, BridgeGoes
    <3>2. /\ dl_backlog' \in Seq(Flows) /\ Len(dl_backlog') = Len(dl_backlog) - 1
          /\ \A k \in 1 .. Len(dl_backlog') : dl_backlog'[k] = dl_backlog[k + 1]
          /\ Len(dl_backlog) \in Nat \ {0} /\ Head(dl_backlog) = dl_backlog[1]
          /\ Head(dl_backlog) \in Flows
      BY <1>1, <3>1
    <3>3. \A k \in 1 .. Len(dl_backlog) : dl_backlog[k] = ul_peer
      BY DEF StartInv, PeerInv
    <3>4. dl_peer' = ul_peer /\ \A k \in 1 .. Len(dl_backlog') : dl_backlog'[k] = ul_peer
      BY <3>1, <3>2, <3>3
    <3>5. PeerInv'
      BY <1>2, <1>3, <3>1, <3>4 DEF StartInv, PeerInv, DlListens
    <3>6. Len(dl_backlog') <= Backlog
      BY <1>1, <3>2
    <3>. QED  BY <1>1, <3>1, <3>2, <3>5, <3>6
  <2>. QED  BY <2>1, <2>2, <2>3
<1>5. StartTypeOK'
  BY <1>1, <1>2, <1>3, <1>4 DEF StartTypeOK
<1>6. LaunchInv'
  BY <1>2, <1>3, <1>4 DEF StartInv, LaunchInv
<1>7. ConfigInv'
  BY <1>2, <1>4 DEF StartInv, ConfigInv, Loaded
<1>. QED  BY <1>3, <1>4, <1>5, <1>6, <1>7 DEF StartInv

-----------------------------------------------------------------------------
\* StartInv holds in every state.
LEMMA StartInvariance == StartSpec => []StartInv
<1>1. StartInv /\ [StartNext]_startVars => StartInv'
  <2>. SUFFICES ASSUME StartInv, [StartNext]_startVars  PROVE StartInv'
    OBVIOUS
  <2>1. CASE UNCHANGED startVars
    <3>1. /\ UNCHANGED <<flow, order, flow_at, unwritten, files, linkVars, bridgeVars>>
          /\ faults' = faults
      BY <2>1 DEF startVars, flowVars
    <3>2. /\ SourceListens' <=> SourceListens
          /\ \A step : Past(step)' <=> Past(step)
          /\ FilesInv => FilesInv'
          /\ flow_at' \in 0 .. Len(FlowSteps(order))'
      BY <3>1, FlowSideStays DEF StartInv
    <3>3. StartTypeOK'
      BY <3>1, <3>2 DEF StartInv, StartTypeOK, linkVars, bridgeVars
    <3>4. LaunchInv' /\ ConfigInv'
      BY <3>1, <3>2 DEF StartInv, LaunchInv, ConfigInv, Loaded, bridgeVars
    <3>5. PeerInv'
      BY <3>1, <3>2 DEF StartInv, PeerInv, DlListens, linkVars, bridgeVars
    <3>. QED  BY <3>2, <3>3, <3>4, <3>5 DEF StartInv
  <2>2. CASE StartNext
    BY <2>2, FileSteps, SourceSocketSteps, SinkSocketSteps, FlowRestarts,
       BridgeLaunches, BridgeLoads, BridgeConnects
       DEF StartNext, FlowStep, BridgeStep
  <2>. QED  BY <2>1, <2>2
<1>. QED  BY <1>1, StartStarts, PTL DEF StartSpec

-----------------------------------------------------------------------------
(* The theorems.                                                           *)

\* The bridge whose main loop runs has its uplink and its downlink from one
\* flowgraph: setup_server(), start() of the sink and main(), with any number of
\* restarts of either process.
THEOREM BridgeServesOne == StartSpec => []OneFlowgraph
<1>1. StartInv => OneFlowgraph
  BY DEF StartInv, PeerInv, OneFlowgraph
<1>. QED  BY <1>1, StartInvariance, PTL

\* A bridge that was launched while the source of its flowgraph listened has the
\* flowgraph's configuration: the UL frequency, and with the sink constructed first
\* all of it, but for the files that could not be written.
THEOREM ConfigIsOfPeer == StartSpec => []ConfigIsPeers
<1>1. StartInv => ConfigIsPeers
  <2>. SUFFICES ASSUME StartInv, ul_peer = for_flow, ul_peer = flow
       PROVE  /\ bridge_at \in {"listen_dl", "accept_dl", "loop"} /\ "ul" \notin unwritten
                   => config["ul"] = ul_peer
              /\ bridge_at = "loop" /\ order = "sink_first"
                   => \A f \in Files \ unwritten : config[f] = ul_peer
    BY DEF ConfigIsPeers
  <2>. QED  BY DEF StartInv, ConfigInv, Loaded, Files
<1>. QED  BY <1>1, StartInvariance, PTL

=============================================================================
