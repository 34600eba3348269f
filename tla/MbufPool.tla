------------------------------ MODULE MbufPool ------------------------------
(***************************************************************************)
(* Who owns the packet buffers of the bridge.  All of them come from       *)
(* mbuf_pool: the driver posts them to the receive ring, the main loop     *)
(* frees what it received, a control packet is allocated and handed to the *)
(* driver, which frees it once it is sent.  The buffers of DL data are     *)
(* allocated once and handed to the driver for every slot.                 *)
(*                                                                         *)
(* The pool and the driver are external: a free puts one more entry into   *)
(* the pool, and a buffer freed twice can be allocated twice.              *)
(***************************************************************************)
EXTENDS Naturals, FiniteSets

CONSTANTS
  Mbufs,        \* NUM_MBUFS buffers
  RxDescs,      \* RX_RING_SIZE, the buffers the driver posts
  MaxBurst,     \* MAX_BURST_SIZE
  DlMbufs,      \* the buffers of dl_mbufs that a frame fills
  MaxDlBursts   \* bound: slots of DL data

ASSUME MbufAssumption ==
  /\ IsFiniteSet(Mbufs)
  /\ {RxDescs, MaxBurst, DlMbufs} \subseteq Nat \ {0}
  /\ MaxDlBursts \in Nat

VARIABLES
  pool,       \* entries of the pool for each buffer
  posted,     \* the receive ring: buffers waiting for a packet,
  arrived,    \* ... and buffers with one
  rx_pkts,    \* the burst being processed
  tx_pkts,    \* the control packet being prepared
  dl_mbufs,   \* the array of DL buffers, empty before it is initialized
  dl_in_hand, \* DL buffers that were allocated and not handed to the driver
  tx_ring,    \* how many times each buffer is in the transmit ring
  init_state,
  bridge_pc,  \* where the bridge is
  dl_bursts   \* slots of DL data so far

mbufVars == <<pool, posted, arrived, rx_pkts, tx_pkts, dl_mbufs, dl_in_hand, tx_ring,
              init_state, bridge_pc, dl_bursts>>
rxVars   == <<posted, arrived, rx_pkts, init_state>>
dlVars   == <<dl_mbufs, dl_in_hand, dl_bursts>>

One(S) == [m \in Mbufs |-> IF m \in S THEN 1 ELSE 0]
Plus(f, S)  == [m \in Mbufs |-> f[m] + One(S)[m]]
Minus(f, S) == [m \in Mbufs |-> f[m] - One(S)[m]]

InPool == { m \in Mbufs : pool[m] > 0 }

Allocates(S) == S \subseteq InPool /\ pool' = Minus(pool, S)
Frees(S)     == pool' = Plus(pool, S)

-----------------------------------------------------------------------------
\* After port_init(): the driver has posted its buffers.
MbufInit ==
  /\ posted \in SUBSET Mbufs /\ Cardinality(posted) = RxDescs
  /\ pool = One(Mbufs \ posted)
  /\ arrived = {} /\ rx_pkts = {} /\ tx_pkts = {}
  /\ dl_mbufs = {} /\ dl_in_hand = {} /\ tx_ring = One({})
  /\ init_state = 0 /\ bridge_pc = "poll" /\ dl_bursts = 0

(* The driver.                                                             *)

Receive ==
  \E m \in posted :
    /\ posted' = posted \ {m} /\ arrived' = arrived \cup {m}
    /\ UNCHANGED <<pool, rx_pkts, tx_pkts, dlVars, tx_ring, init_state, bridge_pc>>

Refill ==
  /\ Cardinality(posted \cup arrived) < RxDescs
  /\ \E m \in InPool : Allocates({m}) /\ posted' = posted \cup {m}
  /\ UNCHANGED <<arrived, rx_pkts, tx_pkts, dlVars, tx_ring, init_state, bridge_pc>>

TransmitDone ==
  /\ \E m \in Mbufs : tx_ring[m] > 0 /\ tx_ring' = Minus(tx_ring, {m}) /\ Frees({m})
  /\ UNCHANGED <<rxVars, tx_pkts, dlVars, bridge_pc>>

-----------------------------------------------------------------------------
(* The main loop.                                                          *)

\* rte_eth_rx_burst() takes what has arrived, up to a full burst.
Takes(burst) ==
  /\ bridge_pc = "poll" /\ arrived # {}
  /\ Cardinality(burst) =
       IF Cardinality(arrived) < MaxBurst THEN Cardinality(arrived) ELSE MaxBurst
  /\ arrived' = arrived \ burst
  /\ UNCHANGED <<pool, posted, tx_pkts, dlVars, tx_ring>>

\* While it clears the ring the loop returns without a free.
ClearBurst ==
  \E burst \in SUBSET arrived :
    /\ Takes(burst)
    /\ init_state = 0 /\ Cardinality(burst) = MaxBurst
    /\ UNCHANGED <<rx_pkts, init_state, bridge_pc>>

TakeBurst ==
  \E burst \in SUBSET arrived :
    /\ Takes(burst)
    /\ init_state = 0 => Cardinality(burst) < MaxBurst
    /\ rx_pkts' = burst
    /\ init_state' = 1
    /\ bridge_pc' = "process"

Handler(from, to) ==
  /\ bridge_pc = from
  /\ bridge_pc' = to
  /\ UNCHANGED rxVars

\* A mutation: the burst is freed one buffer short.
BurstDoneShort ==
  /\ bridge_pc = "process"
  /\ \E m \in rx_pkts : Frees(rx_pkts \ {m})
  /\ rx_pkts' = {} /\ bridge_pc' = "poll"
  /\ UNCHANGED <<posted, arrived, tx_pkts, dlVars, tx_ring, init_state>>

BurstDone ==
  /\ bridge_pc = "process"
  /\ Frees(rx_pkts)
  /\ rx_pkts' = {} /\ bridge_pc' = "poll"
  /\ UNCHANGED <<posted, arrived, tx_pkts, dlVars, tx_ring, init_state>>

\* A control packet of a tick in the burst.
ControlAlloc ==
  /\ Handler("process", "control")
  /\ \E m \in InPool : Allocates({m}) /\ tx_pkts' = {m}
  /\ UNCHANGED <<dlVars, tx_ring>>

\* A mutation: the packet that the driver has taken is freed as well.
ControlSentAndFreed ==
  /\ Handler("control", "process")
  /\ tx_ring' = Plus(tx_ring, tx_pkts) /\ Frees(tx_pkts)
  /\ tx_pkts' = {}
  /\ UNCHANGED dlVars

ControlSent ==
  /\ Handler("control", "process")
  /\ tx_ring' = Plus(tx_ring, tx_pkts)
  /\ tx_pkts' = {}
  /\ UNCHANGED <<pool, dlVars>>

\* The transmit ring is full.
ControlDropped ==
  /\ Handler("control", "process")
  /\ Frees(tx_pkts) /\ tx_pkts' = {}
  /\ UNCHANGED <<dlVars, tx_ring>>

\* The first slot of DL data allocates the buffers; a later one takes them as they
\* are.  Without enough free buffers the slot is given up.
DlPrepare ==
  /\ dl_bursts < MaxDlBursts
  /\ Handler("process", "dl_write")
  /\ dl_bursts' = dl_bursts + 1
  /\ IF dl_mbufs = {}
       THEN /\ \E S \in SUBSET InPool : Cardinality(S) = DlMbufs /\ Allocates(S)
                                        /\ dl_mbufs' = S
            /\ dl_in_hand' = dl_mbufs'
       ELSE UNCHANGED <<pool, dl_mbufs, dl_in_hand>>
  /\ UNCHANGED <<tx_pkts, tx_ring>>

\* The frame is written into the buffers, and the driver is offered them until it
\* has taken all.
DlTransmit ==
  /\ Handler("dl_write", "process")
  /\ tx_ring' = Plus(tx_ring, dl_mbufs)
  /\ dl_in_hand' = {}
  /\ UNCHANGED <<pool, tx_pkts, dl_mbufs, dl_bursts>>

-----------------------------------------------------------------------------
Driver == Receive \/ Refill \/ TransmitDone

MainLoop == ClearBurst \/ TakeBurst \/ BurstDone \/ ControlAlloc \/ ControlSent
            \/ ControlDropped \/ DlPrepare \/ DlTransmit

MbufNext == Driver \/ MainLoop

MbufSpec == MbufInit /\ [][MbufNext]_mbufVars

-----------------------------------------------------------------------------
(* Properties.                                                             *)

Count(m, S) == IF m \in S THEN 1 ELSE 0

\* How many owners a buffer has.
Owners(m) == pool[m] + tx_ring[m] + Count(m, posted) + Count(m, arrived)
             + Count(m, rx_pkts) + Count(m, tx_pkts) + Count(m, dl_in_hand)

Lost == { m \in Mbufs : Owners(m) = 0 }

\* Up to the second slot of DL data a buffer has one owner at most, on every path
\* through the loop, the driver and the failures: nothing is freed twice, and
\* nothing is written that another owner has.
OneOwner == dl_bursts <= 1 => \A m \in Mbufs : Owners(m) <= 1

\* Once the ring is cleared no buffer is lost.
LeaksOnlyWhileClearing == [][Lost' \subseteq Lost \/ init_state = 0]_mbufVars

\* "DON'T free mbufs - we reuse them next slot! The NIC will automatically release
\* them": when a slot of DL data is written into its buffers, no one else has them.
DlMbufsExclusive ==
  bridge_pc = "dl_write" => \A m \in dl_mbufs : Owners(m) = Count(m, dl_in_hand)

=============================================================================
