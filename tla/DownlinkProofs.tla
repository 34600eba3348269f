--------------------------- MODULE DownlinkProofs ---------------------------
(***************************************************************************)
(* Proofs about DownlinkSink and DownlinkLink for every ring size, slot size, *)
(* input, socket buffer and number of connections:                         *)
(*   1. the types of the sink's variables, and that work() reaches the slot *)
(*      the sender thread is reading only through a full ring;             *)
(*   2. as long as work() has not copied into a full ring, the sink delivers *)
(*      the slots of its input in order;                                   *)
(*   3. the sink keeps what it promises when it is connected to the bridge, *)
(*      and what the bridge hands to the NIC is the first slot of the input. *)
(***************************************************************************)
EXTENDS DownlinkLink, TLAPS, SequenceTheorems

(***************************************************************************)
(* 1. Types, and where a slot can be overwritten.                          *)
(***************************************************************************)

-----------------------------------------------------------------------------
(* The inductive invariant.                                                *)

\* The indices agree with the count: d_write_idx is d_ring_count slots ahead.
RingAgrees ==
  \/ d_write_idx = d_read_idx + d_ring_count
  \/ d_write_idx = d_read_idx + d_ring_count - RingSize

\* Past its wait the sender has a slot and keeps it: only it lowers the count.
SenderHasSlot ==
  /\ SenderHoldsSlot => d_ring_count > 0
  /\ sender_pc = "awake" => d_ring_count > 0 \/ ~d_running

\* The part of the current frame that the kernel has taken.
SenderFrame ==
  /\ sender_pc = "connect" => frame_out = <<>>
  /\ sender_pc = "send" => Len(frame_out) < SlotUnits

\* A stopped block has no sender.
StoppedIsDone == ctl_pc = "stopped" => sender_pc = "done"

\* The input of the current call is within the bound.
InputLeft == taken + pending <= MaxUnits

IInv ==
  /\ TypeOK
  /\ RingAgrees
  /\ SenderHasSlot
  /\ SenderFrame
  /\ StoppedIsDone
  /\ InputLeft

-----------------------------------------------------------------------------
(* The invariant is inductive.                                             *)

\* The successor of an index in the ring.
LEMMA NextIndex ==
  ASSUME NEW N \in Nat \ {0}, NEW i \in 0 .. N - 1
  PROVE  (i + 1) % N = IF i + 1 = N THEN 0 ELSE i + 1
<1>1. CASE i + 1 = N
  BY <1>1, SMT
<1>2. CASE i + 1 < N
  BY <1>2, SMT
<1>. QED  BY <1>1, <1>2

\* The invariant holds when the block has been constructed.
LEMMA InitIInv == Init => IInv
<1>. SUFFICES ASSUME Init  PROVE IInv
  OBVIOUS
<1>1. TypeOK
  <2>1. d_ring \in [Slots -> [1 .. SlotUnits -> Units]]
    BY SinkAssumption DEF Init, Units
  <2>2. d_running \in BOOLEAN /\ d_connected \in BOOLEAN /\ overrun \in BOOLEAN
    BY DEF Init
  <2>3. /\ d_write_idx \in Slots /\ d_read_idx \in Slots
        /\ d_ring_count \in 0 .. RingSize /\ d_fill \in 0 .. SlotUnits
        /\ pending \in 0 .. MaxCall
        /\ taken \in Units /\ origin \in Units /\ faults \in 0 .. MaxFaults
    BY SinkAssumption DEF Init, Slots, Units
  <2>4. /\ frame_out \in Seq(Units) /\ Len(frame_out) <= SlotUnits
        /\ delivered \in Seq(Seq(Units))
    BY SinkAssumption DEF Init
  <2>. QED
    BY <2>1, <2>2, <2>3, <2>4 DEF Init, TypeOK, WorkPcs, SenderPcs, CtlPcs
<1>. QED
  BY <1>1, SinkAssumption DEF Init, IInv, SenderHoldsSlot, RingAgrees, SenderHasSlot, SenderFrame, StoppedIsDone, InputLeft

\* The steps of start() and stop() preserve the invariant.
LEMMA ControlIInv == IInv /\ Control => IInv'
<1>. SUFFICES ASSUME IInv, Control  PROVE IInv'
  OBVIOUS
<1>1. ASSUME NEW connects \in BOOLEAN, Start(connects)  PROVE IInv'
  <2>1. d_running' \in BOOLEAN /\ d_connected' \in BOOLEAN /\ overrun' \in BOOLEAN
    BY <1>1 DEF Start
  <2>2. faults' \in 0 .. MaxFaults
    BY <1>1, SinkAssumption DEF Start, Fault, IInv, TypeOK
  <2>3. /\ frame_out' \in Seq(Units) /\ Len(frame_out') <= SlotUnits
        /\ delivered' \in Seq(Seq(Units))
    BY <1>1, SinkAssumption DEF Start
  <2>4. TypeOK'
    BY <1>1, <2>1, <2>2, <2>3, SinkAssumption
    DEF Start, IInv, TypeOK, workVars, Slots, Units, SenderPcs, CtlPcs
  <2>. QED
    BY <1>1, <2>4, SinkAssumption
    DEF Start, workVars, IInv, SenderHoldsSlot, RingAgrees, SenderHasSlot, SenderFrame, StoppedIsDone, InputLeft
<1>2. CASE StopSignal
  <2>1. d_running' \in BOOLEAN
    BY <1>2 DEF StopSignal
  <2>2. TypeOK'
    BY <1>2, <2>1
    DEF StopSignal, IInv, TypeOK, ringVars, workVars, senderVars, history, CtlPcs
  <2>. QED
    BY <1>2, <2>2
    DEF StopSignal, ringVars, workVars, senderVars, history, IInv,
        SenderHoldsSlot, RingAgrees, SenderHasSlot, SenderFrame, StoppedIsDone, InputLeft
<1>3. CASE StopNotify
  BY <1>3
  DEF StopNotify, ringVars, workVars, history, TypeOK, SenderPcs, CtlPcs, IInv,
      SenderHoldsSlot, RingAgrees, SenderHasSlot, SenderFrame, StoppedIsDone, InputLeft
<1>4. CASE StopJoin
  <2>1. d_connected' \in BOOLEAN
    BY <1>4 DEF StopJoin
  <2>2. TypeOK'
    BY <1>4, <2>1
    DEF StopJoin, IInv, TypeOK, ringVars, workVars, senderVars, history, CtlPcs
  <2>. QED
    BY <1>4, <2>2
    DEF StopJoin, ringVars, workVars, senderVars, history, IInv, SenderHoldsSlot, RingAgrees, SenderHasSlot, SenderFrame, StoppedIsDone, InputLeft
<1>. QED  BY <1>1, <1>2, <1>3, <1>4 DEF Control

\* The steps of a call of work() preserve the invariant.
LEMMA WorkIInv == IInv /\ Work => IInv'
<1>. SUFFICES ASSUME IInv, Work  PROVE IInv'
  OBVIOUS
<1>1. ASSUME NEW n \in 1 .. MaxCall, WorkCall(n)  PROVE IInv'
  BY <1>1, SinkAssumption
  DEF WorkCall, ringVars, senderVars, history, TypeOK, WorkPcs, Units, IInv,
      SenderHoldsSlot, RingAgrees, SenderHasSlot, SenderFrame, StoppedIsDone, InputLeft
<1>2. CASE WorkCopy
  <2>. DEFINE chunk == Smaller(SlotUnits - d_fill, pending)
  <2>1. /\ chunk \in Nat /\ chunk <= pending /\ d_fill + chunk <= SlotUnits
        /\ taken \in Nat /\ taken + chunk <= MaxUnits
        /\ d_fill \in 0 .. SlotUnits /\ pending \in 0 .. MaxCall
    BY SinkAssumption DEF Smaller, IInv, TypeOK, Units, InputLeft
  <2>2. /\ d_fill' = d_fill + chunk /\ pending' = pending - chunk
        /\ taken' = taken + chunk
        /\ work_pc' \in {"room", "ready"}
        /\ overrun' = (overrun \/ d_ring_count = RingSize)
    BY <1>2 DEF WorkCopy
  <2>3. d_ring' \in [Slots -> [1 .. SlotUnits -> Units]]
    <3>. DEFINE slot == [u \in 1 .. SlotUnits |->
                           IF u \in d_fill + 1 .. d_fill + chunk
                           THEN taken + u - d_fill ELSE d_ring[d_write_idx][u]]
    <3>1. slot \in [1 .. SlotUnits -> Units]
      BY <2>1, SinkAssumption DEF IInv, TypeOK, Units
    <3>2. d_ring' = [d_ring EXCEPT ![d_write_idx] = slot]
      BY <1>2 DEF WorkCopy
    <3>. QED  BY <3>1, <3>2 DEF IInv, TypeOK
  <2>. HIDE DEF chunk
  <2>4. overrun' \in BOOLEAN
    BY <2>2 DEF IInv, TypeOK
  <2>5. TypeOK'
    <3>1. /\ d_fill' \in 0 .. SlotUnits /\ pending' \in 0 .. MaxCall
          /\ taken' \in Units
      BY <2>1, <2>2, SinkAssumption DEF Units
    <3>2. UNCHANGED <<d_write_idx, d_read_idx, d_ring_count, d_running, d_connected,
                      senderVars, ctl_pc, origin, delivered, faults>>
      BY <1>2 DEF WorkCopy
    <3>. QED
      BY <2>2, <2>3, <2>4, <3>1, <3>2 DEF senderVars, IInv, TypeOK, WorkPcs
  <2>. QED
    BY <1>2, <2>1, <2>2, <2>5
    DEF WorkCopy, senderVars, IInv, SenderHoldsSlot, RingAgrees, SenderHasSlot, SenderFrame, StoppedIsDone, InputLeft
<1>3. CASE WorkCommit
  <2>1. RingSize \in Nat \ {0} /\ d_write_idx \in 0 .. RingSize - 1
        /\ d_read_idx \in 0 .. RingSize - 1 /\ d_ring_count \in 0 .. RingSize - 1
    BY <1>3, SinkAssumption DEF WorkCommit, IInv, TypeOK, Slots
  <2>2. d_ring_count' = d_ring_count + 1 /\ d_read_idx' = d_read_idx
        /\ d_write_idx' = (d_write_idx + 1) % RingSize
    BY <1>3 DEF WorkCommit
  <2>3. d_write_idx' = IF d_write_idx + 1 = RingSize THEN 0 ELSE d_write_idx + 1
    BY <2>1, <2>2, NextIndex
  <2>4. TypeOK'
    <3>1. d_write_idx' \in Slots /\ d_ring_count' \in 0 .. RingSize
      BY <2>1, <2>2, <2>3 DEF Slots
    <3>. QED
      BY <1>3, <3>1 DEF WorkCommit, senderVars, history, IInv, TypeOK, WorkPcs
  <2>5. RingAgrees'
    BY <2>1, <2>2, <2>3 DEF IInv, RingAgrees
  <2>. QED
    BY <1>3, <2>1, <2>2, <2>4, <2>5
    DEF WorkCommit, senderVars, history, IInv, SenderHasSlot, SenderHoldsSlot,
        SenderFrame, StoppedIsDone, InputLeft
<1>4. CASE WorkAbandon
  BY <1>4, SinkAssumption
  DEF WorkAbandon, ringVars, senderVars, history, TypeOK, WorkPcs, Units, IInv,
      SenderHoldsSlot, RingAgrees, SenderHasSlot, SenderFrame, StoppedIsDone, InputLeft
<1>5. CASE WorkNotify
  BY <1>5, SinkAssumption
  DEF WorkNotify, history, TypeOK, WorkPcs, SenderPcs, IInv, SenderHoldsSlot, RingAgrees, SenderHasSlot, SenderFrame, StoppedIsDone, InputLeft
<1>. QED  BY <1>1, <1>2, <1>3, <1>4, <1>5 DEF Work

\* The steps of the sender thread preserve the invariant.
LEMMA SenderIInv == IInv /\ Sender => IInv'
<1>. SUFFICES ASSUME IInv, Sender  PROVE IInv'
  OBVIOUS
<1>1. CASE SenderLoop
  BY <1>1
  DEF SenderLoop, SenderMoves, ringVars, workVars, TypeOK, SenderPcs, IInv,
      SenderHoldsSlot, RingAgrees, SenderHasSlot, SenderFrame, StoppedIsDone, InputLeft
<1>2. CASE SenderPred
  BY <1>2
  DEF SenderPred, SenderMoves, ringVars, workVars, TypeOK, SenderPcs, IInv,
      SenderHoldsSlot, RingAgrees, SenderHasSlot, SenderFrame, StoppedIsDone, InputLeft
<1>3. CASE SenderPark
  BY <1>3
  DEF SenderPark, SenderMoves, ringVars, workVars, TypeOK, SenderPcs, IInv,
      SenderHoldsSlot, RingAgrees, SenderHasSlot, SenderFrame, StoppedIsDone, InputLeft
<1>4. CASE SenderSpurious
  BY <1>4
  DEF SenderSpurious, SenderMoves, ringVars, workVars, TypeOK, SenderPcs, IInv,
      SenderHoldsSlot, RingAgrees, SenderHasSlot, SenderFrame, StoppedIsDone, InputLeft
<1>5. CASE SenderAwake
  <2>1. frame_out' \in Seq(Units) /\ Len(frame_out') = 0 /\ frame_out' = <<>>
    BY <1>5 DEF SenderAwake
  <2>2. TypeOK'
    BY <1>5, <2>1, SinkAssumption
    DEF SenderAwake, SenderMoves, ringVars, workVars, IInv, TypeOK, SenderPcs
  <2>. QED
    BY <1>5, <2>1, <2>2, SinkAssumption
    DEF SenderAwake, SenderMoves, ringVars, workVars, IInv, SenderHoldsSlot, RingAgrees, SenderHasSlot, SenderFrame, StoppedIsDone, InputLeft
<1>6. ASSUME NEW connects \in BOOLEAN, SenderConnect(connects)  PROVE IInv'
  <2>1. d_connected' \in BOOLEAN
    BY <1>6 DEF SenderConnect
  <2>2. faults' \in 0 .. MaxFaults
    BY <1>6, SinkAssumption DEF SenderConnect, Fault, IInv, TypeOK
  <2>3. sender_pc' \in {"send", "loop"} /\ sender_pc = "connect"
    BY <1>6 DEF SenderConnect, SenderMoves
  <2>4. TypeOK'
    BY <1>6, <2>1, <2>2, <2>3
    DEF SenderConnect, SenderMoves, ringVars, workVars, IInv, TypeOK, SenderPcs
  <2>. QED
    BY <1>6, <2>3, <2>4, SinkAssumption
    DEF SenderConnect, SenderMoves, ringVars, workVars, IInv, SenderHoldsSlot, RingAgrees, SenderHasSlot, SenderFrame, StoppedIsDone, InputLeft
<1>7. CASE SendUnit
  <2>. DEFINE u == Len(frame_out) + 1
  <2>1. /\ sender_pc = "send" /\ u \in 1 .. SlotUnits
        /\ frame_out \in Seq(Units)
    BY <1>7, SinkAssumption DEF SendUnit, SenderMoves, IInv, TypeOK, SenderFrame
  <2>2. d_ring[d_read_idx][u] \in Units
    BY <2>1 DEF IInv, TypeOK
  <2>3. /\ frame_out' = Append(frame_out, d_ring[d_read_idx][u])
        /\ sender_pc' = IF u = SlotUnits THEN "ack" ELSE "send"
    BY <1>7 DEF SendUnit, SenderMoves
  <2>4. frame_out' \in Seq(Units) /\ Len(frame_out') = u
    BY <2>1, <2>2, <2>3, AppendProperties
  <2>. HIDE DEF u
  <2>5. TypeOK'
    BY <1>7, <2>1, <2>3, <2>4, SinkAssumption
    DEF SendUnit, SenderMoves, ringVars, workVars, IInv, TypeOK, SenderPcs
  <2>6. SenderFrame' /\ SenderHasSlot'
    BY <1>7, <2>1, <2>3, <2>4, SinkAssumption
    DEF SendUnit, SenderMoves, ringVars, IInv, SenderFrame, SenderHasSlot,
        SenderHoldsSlot
  <2>. QED
    BY <1>7, <2>1, <2>3, <2>5, <2>6
    DEF SendUnit, SenderMoves, ringVars, workVars, IInv, RingAgrees,
        StoppedIsDone, InputLeft
<1>8. CASE SendFail
  <2>1. d_connected' \in BOOLEAN
    BY <1>8 DEF SendFail
  <2>2. faults' \in 0 .. MaxFaults
    BY <1>8, SinkAssumption DEF SendFail, Fault, IInv, TypeOK
  <2>3. TypeOK'
    BY <1>8, <2>1, <2>2
    DEF SendFail, SenderMoves, ringVars, workVars, IInv, TypeOK, SenderPcs
  <2>. QED
    BY <1>8, <2>3
    DEF SendFail, SenderMoves, ringVars, workVars, IInv, SenderHoldsSlot, RingAgrees, SenderHasSlot, SenderFrame, StoppedIsDone, InputLeft
<1>9. CASE RecvAck
  <2>1. delivered' \in Seq(Seq(Units))
    BY <1>9, AppendProperties DEF RecvAck, IInv, TypeOK
  <2>2. TypeOK'
    BY <1>9, <2>1
    DEF RecvAck, SenderMoves, ringVars, workVars, IInv, TypeOK, SenderPcs
  <2>. QED
    BY <1>9, <2>2
    DEF RecvAck, SenderMoves, ringVars, workVars, IInv, SenderHoldsSlot, RingAgrees, SenderHasSlot, SenderFrame, StoppedIsDone, InputLeft
<1>10. CASE SenderAdvance
  <2>1. RingSize \in Nat \ {0} /\ d_write_idx \in 0 .. RingSize - 1
        /\ d_read_idx \in 0 .. RingSize - 1 /\ d_ring_count \in 1 .. RingSize
    BY <1>10, SinkAssumption
    DEF SenderAdvance, IInv, TypeOK, Slots, SenderHasSlot, SenderHoldsSlot
  <2>2. d_ring_count' = d_ring_count - 1 /\ d_write_idx' = d_write_idx
        /\ d_read_idx' = (d_read_idx + 1) % RingSize
    BY <1>10 DEF SenderAdvance
  <2>3. d_read_idx' = IF d_read_idx + 1 = RingSize THEN 0 ELSE d_read_idx + 1
    BY <2>1, <2>2, NextIndex
  <2>4. TypeOK'
    <3>1. d_read_idx' \in Slots /\ d_ring_count' \in 0 .. RingSize
      BY <2>1, <2>2, <2>3 DEF Slots
    <3>. QED
      BY <1>10, <3>1 DEF SenderAdvance, workVars, history, IInv, TypeOK, SenderPcs
  <2>5. RingAgrees'
    BY <2>1, <2>2, <2>3 DEF IInv, RingAgrees
  <2>. QED
    BY <1>10, <2>4, <2>5
    DEF SenderAdvance, workVars, history, IInv, SenderHasSlot, SenderHoldsSlot,
        SenderFrame, StoppedIsDone, InputLeft
<1>. QED
  BY <1>1, <1>2, <1>3, <1>4, <1>5, <1>6, <1>7, <1>8, <1>9, <1>10
  DEF Sender, SenderStep

\* A stuttering step preserves the invariant.
LEMMA StutterIInv == IInv /\ UNCHANGED vars => IInv'
BY DEF vars, ringVars, workVars, senderVars, history, IInv, TypeOK,
      SenderHoldsSlot, RingAgrees, SenderHasSlot, SenderFrame, StoppedIsDone, InputLeft

\* The strengthened invariant holds in every state of the block.
THEOREM Invariance == Spec => []IInv
<1>1. IInv /\ [Next]_vars => IInv'
  BY ControlIInv, WorkIInv, SenderIInv, StutterIInv DEF Next
<1>. QED  BY InitIInv, <1>1, PTL DEF Spec

-----------------------------------------------------------------------------
(* The theorems.                                                           *)

\* Every variable keeps its type: the indices and the count never leave the
\* ring, and no slot is filled or sent beyond its end.
THEOREM TypeCorrect == Spec => []TypeOK
<1>1. IInv => TypeOK
  BY DEF IInv
<1>. QED  BY Invariance, <1>1, PTL

\* The memcpy of work() meets the slot that send() reads only if the ring is
\* full, for any ring size: with the sender in a slot the count is positive, and
\* equal indices then leave only RingSize.
THEOREM OverwriteNeedsFullRing == Spec => []OverwriteOnlyWhenFull
<1>1. IInv => OverwriteOnlyWhenFull
  <2>. SUFFICES ASSUME IInv, SenderHoldsSlot, d_write_idx = d_read_idx
                PROVE  d_ring_count = RingSize
    BY DEF OverwriteOnlyWhenFull
  <2>1. d_ring_count \in 1 .. RingSize /\ d_read_idx \in Int /\ RingSize \in Int
    BY SinkAssumption DEF IInv, TypeOK, Slots, SenderHasSlot
  <2>. QED  BY <2>1 DEF IInv, RingAgrees
<1>. QED  BY Invariance, <1>1, PTL

(***************************************************************************)
(* 2. The order of delivery: where each unit of the input is at any moment. *)
(***************************************************************************)

-----------------------------------------------------------------------------
(* The inductive invariant.                                                *)

\* Slots that have left the ring: an acknowledged one leaves it a step later.
Released == IF sender_pc = "advance" THEN Len(delivered) - 1
            ELSE Len(delivered)

\* The index j slots after the one the sender takes.
After(j) == IF d_read_idx + j >= RingSize THEN d_read_idx + j - RingSize
            ELSE d_read_idx + j

\* Units in the slot being filled. Once committed it is a slot of the ring.
Filled == IF work_pc = "notify" THEN 0 ELSE d_fill

SlotIsFull == work_pc = "room" => d_fill = SlotUnits
AckedIsDelivered == sender_pc = "advance" => Len(delivered) > 0

\* Every unit taken has been released, is committed, or is being filled in.
UnitsAccounted ==
  taken = origin + (Released + d_ring_count) * SlotUnits + Filled

\* The committed slots are those of the input that follow the released ones.
CommittedAreInput ==
  ~overrun => \A j \in 0 .. RingSize - 1 :
                j < d_ring_count => d_ring[After(j)] = InputSlot(Released + j + 1)

\* The slot being filled is the beginning of the next one.
FilledIsInput ==
  ~overrun => \A u \in 1 .. SlotUnits :
                u <= Filled => d_ring[d_write_idx][u] =
                  origin + (Released + d_ring_count) * SlotUnits + u

\* The frame being sent is the beginning of the first slot of the ring.
FrameIsInput ==
  (~overrun /\ sender_pc \in {"send", "ack", "advance"}) =>
    /\ \A u \in 1 .. Len(frame_out) : frame_out[u] = InputSlot(Released + 1)[u]
    /\ sender_pc # "send" => Len(frame_out) = SlotUnits

FifoInv ==
  /\ SlotIsFull
  /\ AckedIsDelivered
  /\ UnitsAccounted
  /\ CommittedAreInput
  /\ FilledIsInput
  /\ FrameIsInput
  /\ FifoUnlessOverrun

-----------------------------------------------------------------------------
(* The invariant is inductive.                                             *)

\* Different numbers of slots below the size of the ring are different slots.
LEMMA AfterDiffers ==
  ASSUME TypeOK, NEW i \in 0 .. RingSize - 1, NEW j \in 0 .. RingSize - 1
  PROVE  /\ After(i) \in Slots
         /\ i # j => After(i) # After(j)
<1>1. RingSize \in Nat \ {0} /\ d_read_idx \in 0 .. RingSize - 1
  BY SinkAssumption DEF TypeOK, Slots
<1>. QED  BY <1>1 DEF Slots, After

\* The slot being filled is the one after the committed ones.
LEMMA WriteIsAfter ==
  ASSUME IInv, d_ring_count < RingSize
  PROVE  d_write_idx = After(d_ring_count)
BY SinkAssumption DEF IInv, TypeOK, Slots, RingAgrees, After

\* A step that leaves the ring and its history alone preserves what is said of
\* them.
LEMMA RingUntouched ==
  ASSUME IInv, FifoInv,
         UNCHANGED <<d_ring, d_write_idx, d_read_idx, d_ring_count, taken,
                     origin, delivered, overrun>>,
         Released' = Released, Filled' = Filled,
         SlotIsFull', AckedIsDelivered', FrameIsInput'
  PROVE  FifoInv'
<1>1. UnitsAccounted'
  BY DEF FifoInv, UnitsAccounted
<1>2. CommittedAreInput'
  BY DEF FifoInv, CommittedAreInput, After, InputSlot
<1>3. FilledIsInput'
  BY DEF FifoInv, FilledIsInput
<1>4. FifoUnlessOverrun'
  BY DEF FifoInv, FifoUnlessOverrun, InputSlot
<1>. QED  BY <1>1, <1>2, <1>3, <1>4 DEF FifoInv

\* A frame and a ring that stay leave the frame the beginning of its slot.
LEMMA FrameUntouched ==
  ASSUME FifoInv, UNCHANGED <<frame_out, origin, overrun, sender_pc>>,
         Released' = Released
  PROVE  FrameIsInput'
BY DEF FifoInv, FrameIsInput, InputSlot

\* The slot that begins after c slots of input.
LEMMA SlotAt ==
  ASSUME NEW k, NEW c, k - 1 = c
  PROVE  InputSlot(k) = [u \in 1 .. SlotUnits |-> origin + c * SlotUnits + u]
BY Zenon DEF InputSlot

\* The ring is empty at the start.
LEMMA InitFifo == Init => FifoInv
<1>. SUFFICES ASSUME Init  PROVE FifoInv
  OBVIOUS
<1>1. Len(delivered) = 0 /\ Released = 0 /\ Filled = 0
  BY DEF Init, Released, Filled
<1>2. UnitsAccounted
  BY <1>1, SinkAssumption DEF Init, UnitsAccounted
<1>. QED
  BY <1>1, <1>2, SinkAssumption
  DEF Init, FifoInv, SlotIsFull, AckedIsDelivered, CommittedAreInput,
      FilledIsInput, FrameIsInput, FifoUnlessOverrun

\* start() empties the ring, and counts the input from here; stop() touches
\* none of it.
LEMMA ControlFifo ==
  ASSUME IInv, FifoInv, Control  PROVE FifoInv'
<1>1. ASSUME NEW connects \in BOOLEAN, Start(connects)  PROVE FifoInv'
  <2>1. /\ Released' = 0 /\ Filled' = 0 /\ Len(delivered') = 0
        /\ d_ring_count' = 0 /\ work_pc' = "ready" /\ sender_pc' = "loop"
        /\ origin' = taken /\ taken' = taken
    BY <1>1 DEF Start, workVars, Released, Filled
  <2>2. UnitsAccounted'
    BY <2>1, SinkAssumption DEF UnitsAccounted, IInv, TypeOK, Units
  <2>. QED
    BY <2>1, <2>2, SinkAssumption
    DEF FifoInv, SlotIsFull, AckedIsDelivered, CommittedAreInput,
        FilledIsInput, FrameIsInput, FifoUnlessOverrun
<1>2. CASE StopSignal
  <2>1. /\ UNCHANGED <<d_ring, d_write_idx, d_read_idx, d_ring_count, d_fill,
                       taken, origin, delivered, overrun, work_pc, sender_pc,
                       frame_out>>
    BY <1>2 DEF StopSignal, ringVars, workVars, senderVars, history
  <2>2. Released' = Released /\ Filled' = Filled
    BY <2>1 DEF Released, Filled
  <2>3. FrameIsInput'
    BY <2>1, <2>2, FrameUntouched
  <2>. QED
    BY <2>1, <2>2, <2>3, RingUntouched
    DEF FifoInv, SlotIsFull, AckedIsDelivered
<1>3. CASE StopNotify
  <2>1. /\ UNCHANGED <<d_ring, d_write_idx, d_read_idx, d_ring_count, d_fill,
                       taken, origin, delivered, overrun, work_pc, frame_out>>
        /\ \/ UNCHANGED sender_pc
           \/ sender_pc = "waiting" /\ sender_pc' = "pred"
    BY <1>3 DEF StopNotify, ringVars, workVars, history
  <2>2. Released' = Released /\ Filled' = Filled
    BY <2>1 DEF Released, Filled
  <2>3. FrameIsInput'
    BY <2>1, <2>2, FrameUntouched DEF FrameIsInput
  <2>. QED
    BY <2>1, <2>2, <2>3, RingUntouched
    DEF FifoInv, SlotIsFull, AckedIsDelivered
<1>4. CASE StopJoin
  <2>1. /\ UNCHANGED <<d_ring, d_write_idx, d_read_idx, d_ring_count, d_fill,
                       taken, origin, delivered, overrun, work_pc, sender_pc,
                       frame_out>>
    BY <1>4 DEF StopJoin, ringVars, workVars, senderVars, history
  <2>2. Released' = Released /\ Filled' = Filled
    BY <2>1 DEF Released, Filled
  <2>3. FrameIsInput'
    BY <2>1, <2>2, FrameUntouched
  <2>. QED
    BY <2>1, <2>2, <2>3, RingUntouched
    DEF FifoInv, SlotIsFull, AckedIsDelivered
<1>. QED  BY <1>1, <1>2, <1>3, <1>4 DEF Control

\* work() adds units behind the committed slots, and commits what it has
\* filled.
LEMMA WorkFifo ==
  ASSUME IInv, FifoInv, Work  PROVE FifoInv'
<1>1. ASSUME NEW n \in 1 .. MaxCall, WorkCall(n)  PROVE FifoInv'
  <2>1. /\ UNCHANGED <<d_ring, d_write_idx, d_read_idx, d_ring_count, d_fill,
                       taken, origin, delivered, overrun, sender_pc, frame_out>>
        /\ work_pc = "ready" /\ work_pc' = "fill"
    BY <1>1 DEF WorkCall, ringVars, senderVars, history
  <2>2. Released' = Released /\ Filled' = Filled
    BY <2>1 DEF Released, Filled
  <2>3. FrameIsInput'
    BY <2>1, <2>2, FrameUntouched
  <2>. QED
    BY <2>1, <2>2, <2>3, RingUntouched
    DEF FifoInv, SlotIsFull, AckedIsDelivered
<1>2. CASE WorkCopy
  <2>. DEFINE chunk == Smaller(SlotUnits - d_fill, pending)
  <2>1. /\ chunk \in Nat /\ d_fill + chunk <= SlotUnits /\ d_fill \in Nat
        /\ SlotUnits \in Nat
    BY SinkAssumption DEF Smaller, IInv, TypeOK
  <2>2. /\ UNCHANGED <<d_write_idx, d_read_idx, d_ring_count, origin, delivered,
                       sender_pc, frame_out>>
        /\ d_fill' = d_fill + chunk
        /\ taken' = taken + chunk
        /\ work_pc = "fill"
        /\ work_pc' = IF d_fill' >= SlotUnits THEN "room" ELSE "ready"
        /\ overrun' = (overrun \/ d_ring_count = RingSize)
    BY <1>2 DEF WorkCopy, senderVars
  <2>3. /\ \A i \in Slots : i # d_write_idx => d_ring'[i] = d_ring[i]
        /\ \A u \in 1 .. SlotUnits :
             d_ring'[d_write_idx][u] =
               IF u \in d_fill + 1 .. d_fill + chunk
               THEN taken + u - d_fill ELSE d_ring[d_write_idx][u]
    <3>. DEFINE slot == [u \in 1 .. SlotUnits |->
                           IF u \in d_fill + 1 .. d_fill + chunk
                           THEN taken + u - d_fill ELSE d_ring[d_write_idx][u]]
    <3>1. d_ring' = [d_ring EXCEPT ![d_write_idx] = slot]
      BY <1>2 DEF WorkCopy
    <3>. QED  BY <3>1 DEF IInv, TypeOK
  <2>. HIDE DEF chunk
  <2>4. Released' = Released /\ Filled' = Filled + chunk /\ Filled = d_fill
    BY <2>1, <2>2 DEF Released, Filled
  <2>5. /\ Released \in Nat /\ d_ring_count \in Nat /\ origin \in Nat
        /\ taken \in Nat
    BY DEF Released, IInv, TypeOK, FifoInv, AckedIsDelivered, Units
  <2>6. UnitsAccounted'
    <3>. DEFINE committed == (Released + d_ring_count) * SlotUnits
    <3>1. committed \in Nat /\ committed' = committed
      BY <2>1, <2>2, <2>4, <2>5
    <3>2. taken = origin + committed + Filled
      BY DEF FifoInv, UnitsAccounted
    <3>3. taken' = origin' + committed' + Filled'
      BY <2>1, <2>2, <2>4, <2>5, <3>1, <3>2
    <3>. QED  BY <3>3 DEF UnitsAccounted
  <2>7. SlotIsFull' /\ AckedIsDelivered'
    BY <2>1, <2>2 DEF FifoInv, SlotIsFull, AckedIsDelivered
  <2>8. CommittedAreInput'
    <3>. SUFFICES ASSUME ~overrun', NEW j \in 0 .. RingSize - 1,
                         j < d_ring_count'
                  PROVE  d_ring'[After(j)] = InputSlot(Released + j + 1)
      BY <2>2, <2>4 DEF CommittedAreInput, After, InputSlot
    <3>0. ~overrun /\ d_ring_count # RingSize
      BY <2>2 DEF IInv, TypeOK
    <3>1. d_ring_count < RingSize /\ ~overrun
      BY <3>0, SinkAssumption DEF IInv, TypeOK
    <3>2. After(j) \in Slots /\ After(j) # d_write_idx
      BY <2>2, <2>5, <3>1, WriteIsAfter, AfterDiffers, SinkAssumption DEF IInv
    <3>. QED
      BY <2>2, <2>3, <3>1, <3>2 DEF FifoInv, CommittedAreInput
  <2>9. FilledIsInput'
    <3>. DEFINE committed == (Released + d_ring_count) * SlotUnits
    <3>. SUFFICES ASSUME ~overrun', NEW u \in 1 .. SlotUnits, u <= Filled'
                  PROVE  d_ring'[d_write_idx][u] = origin + committed + u
      BY <2>2, <2>4 DEF FilledIsInput
    <3>1. committed \in Nat
      BY <2>1, <2>5
    <3>2. taken = origin + committed + d_fill
      BY <2>4 DEF FifoInv, UnitsAccounted
    <3>3. u <= Filled => d_ring[d_write_idx][u] = origin + committed + u
      BY <2>2 DEF FifoInv, FilledIsInput
    <3>. HIDE DEF committed
    <3>. QED
      BY <2>1, <2>3, <2>4, <2>5, <3>1, <3>2, <3>3
  <2>10. FrameIsInput' /\ FifoUnlessOverrun'
    BY <2>2, <2>4
    DEF FifoInv, FrameIsInput, FifoUnlessOverrun, InputSlot
  <2>. QED  BY <2>6, <2>7, <2>8, <2>9, <2>10 DEF FifoInv
<1>3. CASE WorkCommit
  <2>1. /\ UNCHANGED <<d_ring, d_read_idx, d_fill, taken, origin, delivered,
                       overrun, sender_pc, frame_out>>
        /\ work_pc = "room" /\ work_pc' = "notify"
        /\ d_ring_count < RingSize /\ d_ring_count' = d_ring_count + 1
    BY <1>3 DEF WorkCommit, senderVars, history
  <2>2. Released' = Released /\ Filled' = 0 /\ Filled = SlotUnits
    BY <2>1 DEF Released, Filled, FifoInv, SlotIsFull
  <2>3. /\ Released \in Nat /\ d_ring_count \in Nat /\ origin \in Nat
        /\ SlotUnits \in Nat
    BY SinkAssumption
    DEF Released, IInv, TypeOK, FifoInv, AckedIsDelivered, Units
  <2>4. UnitsAccounted'
    <3>1. (Released + (d_ring_count + 1)) * SlotUnits
            = (Released + d_ring_count) * SlotUnits + SlotUnits
      BY <2>3
    <3>2. (Released + d_ring_count) * SlotUnits \in Nat
      BY <2>3
    <3>. QED
      BY <2>1, <2>2, <2>3, <3>1, <3>2 DEF FifoInv, UnitsAccounted
  <2>5. CommittedAreInput'
    <3>. SUFFICES ASSUME ~overrun, NEW j \in 0 .. RingSize - 1,
                         j < d_ring_count + 1
                  PROVE  d_ring[After(j)] = InputSlot(Released + j + 1)
      BY <2>1, <2>2 DEF CommittedAreInput, After, InputSlot
    <3>1. CASE j < d_ring_count
      BY <3>1 DEF FifoInv, CommittedAreInput
    <3>2. CASE j = d_ring_count
      <4>. DEFINE committed == (Released + d_ring_count) * SlotUnits
      <4>1. d_write_idx = After(j)
        BY <2>1, <3>2, WriteIsAfter
      <4>2. d_ring[d_write_idx] \in [1 .. SlotUnits -> Units]
        BY DEF IInv, TypeOK
      <4>3. \A u \in 1 .. SlotUnits : d_ring[d_write_idx][u] = origin + committed + u
        BY <2>2, <2>3 DEF FifoInv, FilledIsInput
      <4>4. (Released + j + 1) - 1 = Released + d_ring_count
        BY <2>3, <3>2
      <4>5. InputSlot(Released + j + 1)
              = [u \in 1 .. SlotUnits |-> origin + committed + u]
        BY <4>4, SlotAt
      <4>. HIDE DEF committed
      <4>6. d_ring[d_write_idx] = [u \in 1 .. SlotUnits |-> origin + committed + u]
        BY <4>2, <4>3
      <4>. QED  BY <4>1, <4>5, <4>6
    <3>. QED  BY <2>3, <3>1, <3>2
  <2>6. FrameIsInput' /\ FifoUnlessOverrun'
    BY <2>1, <2>2
    DEF FifoInv, FrameIsInput, FifoUnlessOverrun, InputSlot
  <2>. QED
    BY <2>1, <2>2, <2>4, <2>5, <2>6
    DEF FifoInv, SlotIsFull, AckedIsDelivered, FilledIsInput
<1>4. CASE WorkAbandon
  <2>1. /\ UNCHANGED <<d_ring, d_write_idx, d_read_idx, d_ring_count, d_fill,
                       taken, origin, delivered, overrun, sender_pc, frame_out>>
        /\ work_pc = "room" /\ work_pc' = "ready"
    BY <1>4 DEF WorkAbandon, ringVars, senderVars, history
  <2>2. Released' = Released /\ Filled' = Filled
    BY <2>1 DEF Released, Filled
  <2>3. FrameIsInput'
    BY <2>1, <2>2, FrameUntouched
  <2>. QED
    BY <2>1, <2>2, <2>3, RingUntouched
    DEF FifoInv, SlotIsFull, AckedIsDelivered
<1>5. CASE WorkNotify
  <2>1. /\ UNCHANGED <<d_ring, d_write_idx, d_read_idx, d_ring_count, taken,
                       origin, delivered, overrun, frame_out>>
        /\ \/ UNCHANGED sender_pc
           \/ sender_pc = "waiting" /\ sender_pc' = "pred"
        /\ work_pc = "notify" /\ work_pc' \in {"fill", "ready"} /\ d_fill' = 0
    BY <1>5 DEF WorkNotify, history
  <2>2. Released' = Released /\ Filled' = Filled
    BY <2>1 DEF Released, Filled
  <2>3. FrameIsInput'
    BY <2>1, <2>2, FrameUntouched DEF FrameIsInput
  <2>. QED
    BY <2>1, <2>2, <2>3, RingUntouched
    DEF FifoInv, SlotIsFull, AckedIsDelivered
<1>. QED  BY <1>1, <1>2, <1>3, <1>4, <1>5 DEF Work

\* The sender takes the first committed slot unit by unit, and releases it when
\* it is acknowledged.
LEMMA SenderFifo ==
  ASSUME IInv, FifoInv, Sender  PROVE FifoInv'
<1>. DEFINE Kept == UNCHANGED <<d_ring, d_write_idx, d_read_idx, d_ring_count,
                                taken, origin, overrun, d_fill, work_pc>>
<1>1. CASE SenderLoop \/ SenderPred \/ SenderPark \/ SenderSpurious
  <2>1. /\ Kept /\ UNCHANGED <<delivered, frame_out>>
        /\ sender_pc \in {"loop", "pred", "park", "waiting"}
        /\ sender_pc' \in {"pred", "done", "awake", "park", "waiting"}
    BY <1>1
    DEF SenderLoop, SenderPred, SenderPark, SenderSpurious, SenderMoves,
        ringVars, workVars
  <2>2. Released' = Released /\ Filled' = Filled
    BY <2>1 DEF Released, Filled
  <2>3. SlotIsFull' /\ AckedIsDelivered' /\ FrameIsInput'
    BY <2>1 DEF FifoInv, SlotIsFull, AckedIsDelivered, FrameIsInput
  <2>. QED  BY <2>1, <2>2, <2>3, RingUntouched
<1>2. CASE SenderAwake \/ (\E connects \in BOOLEAN : SenderConnect(connects))
  <2>1. /\ Kept /\ UNCHANGED delivered
        /\ sender_pc \in {"awake", "connect"}
        /\ sender_pc' \in {"done", "send", "connect", "loop"}
        /\ frame_out' = <<>>
    BY <1>2
    DEF SenderAwake, SenderConnect, SenderMoves, ringVars, workVars, IInv,
        SenderFrame
  <2>2. Released' = Released /\ Filled' = Filled
    BY <2>1 DEF Released, Filled
  <2>3. SlotIsFull' /\ AckedIsDelivered'
    BY <2>1 DEF FifoInv, SlotIsFull, AckedIsDelivered
  <2>4. FrameIsInput'
    <3>1. Len(frame_out') = 0
      BY <2>1
    <3>. QED  BY <2>1, <3>1 DEF FrameIsInput
  <2>. QED  BY <2>1, <2>2, <2>3, <2>4, RingUntouched
<1>3. CASE SendUnit
  <2>. DEFINE n == Len(frame_out) + 1
  <2>1. /\ Kept /\ UNCHANGED delivered
        /\ sender_pc = "send" /\ sender_pc' = IF n = SlotUnits THEN "ack" ELSE "send"
        /\ frame_out' = Append(frame_out, d_ring[d_read_idx][n])
    BY <1>3 DEF SendUnit, SenderMoves, ringVars, workVars
  <2>2. Released' = Released /\ Filled' = Filled
    BY <2>1 DEF Released, Filled
  <2>3. SlotIsFull' /\ AckedIsDelivered'
    BY <2>1 DEF FifoInv, SlotIsFull, AckedIsDelivered
  <2>4. FrameIsInput'
    <3>. SUFFICES ASSUME ~overrun
                  PROVE  /\ \A u \in 1 .. Len(frame_out') :
                              frame_out'[u] = InputSlot(Released + 1)[u]
                         /\ sender_pc' # "send" => Len(frame_out') = SlotUnits
      BY <2>1, <2>2 DEF FrameIsInput, InputSlot
    <3>1. /\ frame_out \in Seq(Units) /\ Len(frame_out) \in Nat
          /\ n \in 1 .. SlotUnits
      BY <2>1, SinkAssumption DEF IInv, TypeOK, SenderFrame
    <3>2. d_ring[d_read_idx] = InputSlot(Released + 1)
      <4>1. d_ring_count > 0 /\ 0 \in 0 .. RingSize - 1 /\ After(0) = d_read_idx
        BY <2>1, SinkAssumption
        DEF IInv, TypeOK, Slots, SenderHasSlot, SenderHoldsSlot, After
      <4>2. d_ring[After(0)] = InputSlot(Released + 0 + 1)
        BY <4>1 DEF FifoInv, CommittedAreInput
      <4>3. Released + 0 + 1 = Released + 1
        BY DEF Released, IInv, TypeOK
      <4>. QED  BY <4>1, <4>2, <4>3
    <3>3. d_ring[d_read_idx][n] \in Units
      BY <3>1 DEF IInv, TypeOK
    <3>4. /\ Len(frame_out') = n
          /\ \A u \in 1 .. n :
               frame_out'[u] = IF u = n THEN d_ring[d_read_idx][n] ELSE frame_out[u]
      BY <2>1, <3>1, <3>3, AppendProperties
    <3>5. \A u \in 1 .. Len(frame_out) : frame_out[u] = InputSlot(Released + 1)[u]
      BY <2>1 DEF FifoInv, FrameIsInput
    <3>. QED  BY <2>1, <3>1, <3>2, <3>4, <3>5
  <2>. QED  BY <2>1, <2>2, <2>3, <2>4, RingUntouched
<1>4. CASE SendFail
  <2>1. /\ Kept /\ UNCHANGED <<delivered, frame_out>>
        /\ sender_pc \in {"send", "ack"} /\ sender_pc' = "loop"
    BY <1>4 DEF SendFail, SenderMoves, ringVars, workVars
  <2>2. Released' = Released /\ Filled' = Filled
    BY <2>1 DEF Released, Filled
  <2>3. SlotIsFull' /\ AckedIsDelivered' /\ FrameIsInput'
    BY <2>1 DEF FifoInv, SlotIsFull, AckedIsDelivered, FrameIsInput
  <2>. QED  BY <2>1, <2>2, <2>3, RingUntouched
<1>5. CASE RecvAck
  <2>1. /\ Kept /\ UNCHANGED frame_out
        /\ sender_pc = "ack" /\ sender_pc' = "advance"
        /\ delivered' = Append(delivered, frame_out)
        /\ frame_out \in Seq(Units) /\ delivered \in Seq(Seq(Units))
    BY <1>5 DEF RecvAck, SenderMoves, ringVars, workVars, IInv, TypeOK
  <2>2. /\ Len(delivered') = Len(delivered) + 1 /\ Len(delivered) \in Nat
        /\ \A k \in 1 .. Len(delivered) : delivered'[k] = delivered[k]
        /\ delivered'[Len(delivered) + 1] = frame_out
    BY <2>1, AppendProperties
  <2>3. Released' = Released /\ Filled' = Filled /\ Released = Len(delivered)
    BY <2>1, <2>2 DEF Released, Filled
  <2>4. SlotIsFull' /\ AckedIsDelivered'
    BY <2>1, <2>2 DEF FifoInv, SlotIsFull, AckedIsDelivered
  <2>5. FrameIsInput'
    BY <2>1, <2>3 DEF FifoInv, FrameIsInput, InputSlot
  <2>6. UnitsAccounted' /\ CommittedAreInput' /\ FilledIsInput'
    BY <2>1, <2>3
    DEF FifoInv, UnitsAccounted, CommittedAreInput, FilledIsInput, After, InputSlot
  <2>7. FifoUnlessOverrun'
    <3>. SUFFICES ASSUME ~overrun, NEW k \in 1 .. Len(delivered')
                  PROVE  delivered'[k] = InputSlot(k)
      BY <2>1 DEF FifoUnlessOverrun, InputSlot
    <3>1. CASE k <= Len(delivered)
      BY <2>2, <3>1 DEF FifoInv, FifoUnlessOverrun
    <3>2. CASE k = Len(delivered) + 1
      <4>1. /\ Len(frame_out) = SlotUnits
            /\ \A u \in 1 .. SlotUnits : frame_out[u] = InputSlot(k)[u]
        BY <2>1, <2>3, <3>2 DEF FifoInv, FrameIsInput
      <4>2. frame_out = [u \in 1 .. SlotUnits |-> frame_out[u]]
        BY <2>1, <4>1
      <4>. QED  BY <2>2, <3>2, <4>1, <4>2 DEF InputSlot
    <3>. QED  BY <2>2, <3>1, <3>2
  <2>. QED  BY <2>4, <2>5, <2>6, <2>7 DEF FifoInv
<1>6. CASE SenderAdvance
  <2>1. /\ UNCHANGED <<d_ring, d_write_idx, taken, origin, overrun, delivered,
                       d_fill, work_pc, frame_out>>
        /\ sender_pc = "advance" /\ sender_pc' = "loop"
        /\ d_read_idx' = (d_read_idx + 1) % RingSize
        /\ d_ring_count' = d_ring_count - 1
    BY <1>6 DEF SenderAdvance, workVars, history
  <2>2. /\ RingSize \in Nat \ {0} /\ d_read_idx \in 0 .. RingSize - 1
        /\ d_ring_count \in 1 .. RingSize /\ Len(delivered) \in Nat
    BY <2>1, SinkAssumption
    DEF IInv, TypeOK, Slots, SenderHasSlot, SenderHoldsSlot
  <2>3. d_read_idx' = IF d_read_idx + 1 = RingSize THEN 0 ELSE d_read_idx + 1
    BY <2>1, <2>2, NextIndex
  <2>4. /\ Released' = Released + 1 /\ Filled' = Filled /\ Released \in Nat
        /\ Released' + d_ring_count' = Released + d_ring_count
    BY <2>1, <2>2 DEF Released, Filled, FifoInv, AckedIsDelivered
  <2>5. UnitsAccounted' /\ FilledIsInput'
    BY <2>1, <2>4 DEF FifoInv, UnitsAccounted, FilledIsInput
  <2>6. CommittedAreInput'
    <3>. SUFFICES ASSUME ~overrun, NEW j \in 0 .. RingSize - 1,
                         j < d_ring_count - 1
                  PROVE  d_ring[After(j)'] = InputSlot(Released + 1 + j + 1)
      BY <2>1, <2>4 DEF CommittedAreInput, After, InputSlot
    <3>1. After(j)' = After(j + 1) /\ j + 1 \in 0 .. RingSize - 1
          /\ j + 1 < d_ring_count
      BY <2>2, <2>3 DEF After
    <3>2. d_ring[After(j + 1)] = InputSlot(Released + (j + 1) + 1)
      BY <3>1 DEF FifoInv, CommittedAreInput
    <3>3. Released + (j + 1) + 1 = Released + 1 + j + 1
      BY <2>4
    <3>. QED  BY <3>1, <3>2, <3>3
  <2>. QED
    BY <2>1, <2>5, <2>6
    DEF FifoInv, SlotIsFull, AckedIsDelivered, FrameIsInput, FifoUnlessOverrun,
        InputSlot
<1>. QED
  BY <1>1, <1>2, <1>3, <1>4, <1>5, <1>6 DEF Sender, SenderStep

\* A step that changes nothing.
LEMMA StutterFifo ==
  ASSUME FifoInv, UNCHANGED vars  PROVE FifoInv'
BY DEF vars, ringVars, workVars, senderVars, history, FifoInv, SlotIsFull,
       AckedIsDelivered, UnitsAccounted, CommittedAreInput, FilledIsInput,
       FrameIsInput, FifoUnlessOverrun, Released, After, Filled, InputSlot

-----------------------------------------------------------------------------
(* The theorem.                                                            *)

\* Where each unit of the input is holds in every state of the sink.
THEOREM FifoInvariance == Spec => [](IInv /\ FifoInv)
<1>1. IInv /\ FifoInv /\ [Next]_vars => FifoInv'
  BY ControlFifo, WorkFifo, SenderFifo, StutterFifo DEF Next
<1>. QED  BY Invariance, InitFifo, <1>1, PTL DEF Spec

\* As long as work() has not copied into a full ring, the frames the peer has
\* acknowledged are the slots of the input since start(), in order, each once
\* and none torn: send() reads the ring without a lock, and retransmissions,
\* reconnects, stop() and start() do not change that.
THEOREM DeliveredInOrder == Spec => []FifoUnlessOverrun
<1>1. FifoInv => FifoUnlessOverrun
  BY DEF FifoInv
<1>. QED  BY FifoInvariance, <1>1, PTL

(***************************************************************************)
(* 3. The sink and the bridge.                                             *)
(***************************************************************************)

-----------------------------------------------------------------------------
(* The sink that is connected to the bridge is the sink alone.             *)

\* Every step of the link is a step of the sink, or leaves the sink alone.
LEMMA LinkStepIsSinkStep == [LinkNext]_allVars => [Next]_vars
<1>. SUFFICES ASSUME [LinkNext]_allVars  PROVE [Next]_vars
  OBVIOUS
<1>1. CASE SinkStart
  BY <1>1 DEF SinkStart, Next, Control
<1>2. CASE SinkReconnect
  BY <1>2 DEF SinkReconnect, Next, Sender, SenderStep
<1>3. CASE SinkStopJoin \/ SinkSend \/ SinkSendFail
  BY <1>3 DEF SinkStopJoin, SinkSend, SinkSendFail, Next, Control, Sender, SenderStep
<1>4. CASE SinkLocal
  BY <1>4 DEF SinkLocal, Next, Control, Sender, SenderStep
<1>5. CASE Bridge \/ BridgeDie
  BY <1>5
  DEF Bridge, BridgeDie, BridgeListen, BridgeAccept, BridgeTick, BridgeRecv,
      BridgeRecvFail, BridgeTransmit, BridgeAllocFail, BridgeMoves
<1>6. CASE UNCHANGED allVars
  BY <1>6 DEF allVars
<1>. QED  BY <1>1, <1>2, <1>3, <1>4, <1>5, <1>6 DEF LinkNext, Sink

\* What is proved of the sink with an unknown peer holds when the bridge is the
\* peer: whatever the bridge does is something the sink allows for.
THEOREM LinkIsASink == LinkSpec => Spec
<1>1. LinkInit => Init
  BY DEF LinkInit
<1>. QED  BY <1>1, LinkStepIsSinkStep, PTL DEF LinkSpec, Spec

-----------------------------------------------------------------------------
(* The inductive invariant.                                                *)

BridgePcs == {"startup", "accept", "loop", "recv", "transmit"}

LinkTypes ==
  /\ conns \in 0 .. MaxConns /\ sink_conn \in 0 .. MaxConns
  /\ backlog \in Seq(1 .. conns)
  /\ wire \in [Conns -> Seq(Units)]
  /\ bridge_conn \in 0 .. conns
  /\ bridge_pc \in BridgePcs
  /\ frame_in \in Seq(Units)
  /\ bursts \in Seq(Seq(Units))

\* The bridge never writes, so that no frame is acknowledged.
NothingAcked == delivered = <<>> /\ sender_pc # "advance"

BridgeHasConn == bridge_conn = 0 <=> bridge_pc \in {"startup", "accept"}

Sending == sender_pc \in {"send", "ack"}

\* What is in flight is the sink's current frame, and its bridge is alive.
WireIsSinks ==
  \A c \in Conns : wire[c] # <<>> => c = sink_conn /\ Alive /\ Sending

\* The bridge has read something: it is the sink's current frame.
FrameInIsSinks ==
  (bridge_pc \in {"recv", "transmit"} /\ frame_in # <<>>)
    => bridge_conn = sink_conn /\ Sending

FrameInLength ==
  /\ bridge_pc = "recv" => Len(frame_in) < SlotUnits
  /\ bridge_pc = "transmit" => Len(frame_in) = SlotUnits

AckLength == sender_pc = "ack" => Len(frame_out) = SlotUnits

\* The part of the sink's frame that the bridge has taken off the wire.
Consumed == IF bridge_conn = sink_conn /\ bridge_pc \in {"recv", "transmit"}
            THEN frame_in ELSE <<>>

\* What the sink has sent of its frame is with the bridge or on the wire, in
\* order, or it has been handed to the NIC.
FrameInFlight ==
  (Alive /\ Sending) =>
    \/ Consumed \o wire[sink_conn] = frame_out
    \/ Consumed = <<>> /\ wire[sink_conn] = <<>> /\ sender_pc = "ack"

LinkInv ==
  /\ LinkTypes
  /\ NothingAcked
  /\ BridgeHasConn
  /\ WireIsSinks
  /\ FrameInIsSinks
  /\ FrameInLength
  /\ AckLength
  /\ FrameInFlight
  /\ BurstsAreTheSlot

-----------------------------------------------------------------------------
(* The invariant is inductive.                                             *)

\* A unit that moves from the wire to the bridge's end of the frame.
LEMMA MoveUnit ==
  ASSUME NEW S, NEW s \in Seq(S), NEW t \in Seq(S), t # <<>>
  PROVE  /\ Append(s, Head(t)) \in Seq(S) /\ Len(Append(s, Head(t))) = Len(s) + 1
         /\ Append(s, Head(t)) # <<>>
         /\ Tail(t) \in Seq(S)
         /\ Append(s, Head(t)) \o Tail(t) = s \o t
<1>. DEFINE h == Head(t)
            a == Append(s, h)
            l == a \o Tail(t)
            r == s \o t
<1>1. /\ h \in S /\ Tail(t) \in Seq(S) /\ Len(Tail(t)) = Len(t) - 1
      /\ \A i \in 1 .. Len(t) - 1 : Tail(t)[i] = t[i + 1]
      /\ h = t[1] /\ Len(t) \in Nat \ {0} /\ Len(s) \in Nat
  BY HeadTailProperties, LenProperties
<1>2. /\ a \in Seq(S) /\ Len(a) = Len(s) + 1 /\ a # <<>>
      /\ \A i \in 1 .. Len(s) : a[i] = s[i]
      /\ a[Len(s) + 1] = h
  BY <1>1, AppendProperties
<1>. HIDE DEF h, a
<1>3. /\ l \in Seq(S) /\ Len(l) = Len(s) + Len(t)
      /\ \A i \in 1 .. Len(s) + Len(t) :
           l[i] = IF i <= Len(s) + 1 THEN a[i] ELSE Tail(t)[i - (Len(s) + 1)]
  <2>1. /\ l \in Seq(S) /\ Len(l) = Len(a) + Len(Tail(t))
        /\ \A i \in 1 .. Len(a) + Len(Tail(t)) :
             l[i] = IF i <= Len(a) THEN a[i] ELSE Tail(t)[i - Len(a)]
    BY <1>1, <1>2, ConcatProperties
  <2>2. Len(a) + Len(Tail(t)) = Len(s) + Len(t)
    BY <1>1, <1>2
  <2>. QED  BY <1>2, <2>1, <2>2
<1>4. /\ r \in Seq(S) /\ Len(r) = Len(s) + Len(t)
      /\ \A i \in 1 .. Len(s) + Len(t) :
           r[i] = IF i <= Len(s) THEN s[i] ELSE t[i - Len(s)]
  BY ConcatProperties
<1>. HIDE DEF l, r
<1>5. ASSUME NEW i \in 1 .. Len(s) + Len(t)  PROVE l[i] = r[i]
  <2>1. CASE i <= Len(s)
    BY <1>1, <1>2, <1>3, <1>4, <2>1
  <2>2. CASE i = Len(s) + 1
    <3>1. i - Len(s) = 1
      BY <1>1, <2>2
    <3>. QED  BY <1>1, <1>2, <1>3, <1>4, <2>2, <3>1
  <2>3. CASE i > Len(s) + 1
    <3>. DEFINE j == i - (Len(s) + 1)
    <3>1. j \in 1 .. Len(t) - 1 /\ j + 1 = i - Len(s)
      BY <1>1, <2>3
    <3>2. l[i] = Tail(t)[j] /\ r[i] = t[i - Len(s)]
      BY <1>1, <1>3, <1>4, <2>3
    <3>. QED  BY <1>1, <3>1, <3>2
  <2>. QED  BY <1>1, <2>1, <2>2, <2>3
<1>6. l = r
  BY <1>3, <1>4, <1>5, SeqEqual
<1>. QED  BY <1>1, <1>2, <1>6 DEF a, h, l, r

\* A unit that the sink puts behind what is on the wire.
LEMMA PutUnit ==
  ASSUME NEW S, NEW s \in Seq(S), NEW t \in Seq(S), NEW x \in S
  PROVE  s \o Append(t, x) = Append(s \o t, x)
<1>1. /\ Append(t, x) = t \o <<x>> /\ <<x>> \in Seq(S) /\ s \o t \in Seq(S)
  BY AppendIsConcat, ConcatProperties
<1>2. Append(s \o t, x) = (s \o t) \o <<x>>
  BY <1>1, AppendIsConcat
<1>. QED  BY <1>1, <1>2, ConcatAssociative

\* Nothing is connected or on the wire at the start.
LEMMA InitLink == LinkInit => LinkInv
<1>. SUFFICES ASSUME LinkInit  PROVE LinkInv
  OBVIOUS
<1>1. LinkTypes
  BY LinkAssumption DEF LinkInit, LinkTypes, BridgePcs, Conns
<1>2. WireIsSinks
  BY DEF LinkInit, WireIsSinks
<1>3. ~Sending /\ NothingAcked
  BY DEF LinkInit, Init, Sending, NothingAcked
<1>4. BurstsAreTheSlot
  BY DEF LinkInit, BurstsAreTheSlot
<1>. QED
  BY <1>1, <1>2, <1>3, <1>4
  DEF LinkInv, LinkInit, BridgeHasConn, FrameInIsSinks, FrameInLength,
      AckLength, FrameInFlight, Init

\* While the sink is not sending nothing is in flight, and the bridge has read
\* nothing of a frame.
LEMMA QuietLink ==
  ASSUME LinkInv, ~Sending
  PROVE  /\ \A c \in Conns : wire[c] = <<>>
         /\ bridge_pc = "recv" => frame_in = <<>>
         /\ bridge_pc # "transmit"
BY SinkAssumption
DEF LinkInv, WireIsSinks, FrameInIsSinks, FrameInLength, LinkTypes

\* The same when nobody hears the sink.
LEMMA DeadLink ==
  ASSUME LinkInv, ~Alive
  PROVE  /\ \A c \in Conns : wire[c] = <<>>
         /\ bridge_pc = "recv" => frame_in = <<>>
         /\ bridge_pc # "transmit"
<1>1. ~(bridge_pc \in {"recv", "transmit"} /\ frame_in # <<>>)
  BY DEF LinkInv, FrameInIsSinks, BridgeHasConn, Alive
<1>. QED
  BY <1>1, SinkAssumption DEF LinkInv, WireIsSinks, FrameInLength, LinkTypes

\* connect_socket() makes a new connection, or none.
LEMMA ConnectTypes ==
  ASSUME LinkInv, Connect \/ ConnectRefused
  PROVE  /\ conns' \in 0 .. MaxConns /\ conns <= conns' /\ sink_conn' \in 0 .. MaxConns
         /\ backlog' \in Seq(1 .. conns')
<1>1. CASE Connect
  <2>1. conns' = conns + 1 /\ sink_conn' = conns + 1 /\ conns + 1 \in 1 .. MaxConns
    BY <1>1, LinkAssumption DEF Connect, LinkInv, LinkTypes
  <2>2. backlog \in Seq(1 .. conns + 1)
    <3>1. 1 .. conns \subseteq 1 .. conns + 1
      BY DEF LinkInv, LinkTypes
    <3>2. backlog \in Seq(1 .. conns)
      BY DEF LinkInv, LinkTypes
    <3>. QED  BY <3>1, <3>2, SeqMonotonic
  <2>3. backlog' = Append(backlog, conns + 1) /\ conns + 1 \in 1 .. conns + 1
    BY <1>1, <2>1 DEF Connect, LinkInv, LinkTypes
  <2>. QED  BY <2>1, <2>2, <2>3, AppendProperties DEF LinkInv, LinkTypes
<1>2. CASE ConnectRefused
  BY <1>2, LinkAssumption DEF ConnectRefused, LinkInv, LinkTypes
<1>. QED  BY <1>1, <1>2

\* A step of the sink that leaves the socket alone and does not begin a frame.
LEMMA SocketUntouched ==
  ASSUME LinkInv, UNCHANGED <<linkVars, bridgeVars>>, NothingAcked',
         UNCHANGED origin, overrun => overrun',
         UNCHANGED frame_out, Sending => UNCHANGED sender_pc, ~Sending => ~Sending'
  PROVE  LinkInv'
<1>. USE DEF linkVars, bridgeVars
<1>1. LinkTypes' /\ BridgeHasConn' /\ FrameInLength'
  BY DEF LinkInv, LinkTypes, BridgeHasConn, FrameInLength
<1>2. Alive' = Alive /\ Sending' = Sending /\ Consumed' = Consumed
  BY DEF Alive, Sending, Consumed
<1>3. WireIsSinks' /\ FrameInIsSinks'
  BY <1>2 DEF LinkInv, WireIsSinks, FrameInIsSinks
<1>4. AckLength' /\ FrameInFlight'
  BY <1>2 DEF LinkInv, AckLength, FrameInFlight, Sending
<1>5. BurstsAreTheSlot'
  BY DEF LinkInv, BurstsAreTheSlot, InputSlot
<1>. QED  BY <1>1, <1>3, <1>4, <1>5 DEF LinkInv

\* start(), a reconnect and stop() change the connection of a sink that is not
\* sending.
LEMMA SinkLink ==
  ASSUME IInv, FifoInv, LinkInv, Sink  PROVE LinkInv'
<1>1. CASE SinkStart
  <2>1. /\ \E connects \in BOOLEAN : Start(connects)
        /\ UNCHANGED wire /\ bursts' = <<>>
        /\ UNCHANGED <<bridge_conn, bridge_pc, frame_in>>
        /\ \/ Connect
           \/ ConnectRefused
    BY <1>1 DEF SinkStart, Connect, ConnectRefused
  <2>2. ~Sending /\ ~Sending' /\ NothingAcked' /\ AckLength'
    BY <2>1
    DEF Start, IInv, StoppedIsDone, Sending, NothingAcked, AckLength
  <2>3. LinkTypes'
    <3>1. /\ conns' \in 0 .. MaxConns /\ conns <= conns' /\ sink_conn' \in 0 .. MaxConns
          /\ backlog' \in Seq(1 .. conns')
      BY <2>1, ConnectTypes
    <3>. QED  BY <2>1, <3>1 DEF LinkInv, LinkTypes
  <2>4. WireIsSinks' /\ FrameInIsSinks' /\ FrameInFlight'
    BY <2>1, <2>2, QuietLink
    DEF WireIsSinks, FrameInIsSinks, FrameInFlight, LinkInv, LinkTypes
  <2>5. BurstsAreTheSlot'
    BY <2>1 DEF BurstsAreTheSlot
  <2>. QED
    BY <2>1, <2>2, <2>3, <2>4, <2>5 DEF LinkInv, BridgeHasConn, FrameInLength
<1>2. CASE SinkReconnect
  <2>1. /\ sender_pc = "connect"
        /\ UNCHANGED <<frame_out, origin, overrun, delivered, wire>>
        /\ UNCHANGED <<bridge_conn, bridge_pc, frame_in, bursts>>
        /\ \/ Connect /\ sender_pc' = "send"
           \/ ConnectRefused /\ sender_pc' = "loop"
    BY <1>2
    DEF SinkReconnect, SenderConnect, SenderMoves, bridgeVars, Connect, ConnectRefused
  <2>2. ~Sending /\ NothingAcked' /\ AckLength' /\ frame_out' = <<>>
    BY <2>1
    DEF IInv, SenderFrame, Sending, LinkInv, NothingAcked, AckLength
  <2>3. LinkTypes'
    <3>1. /\ conns' \in 0 .. MaxConns /\ conns <= conns' /\ sink_conn' \in 0 .. MaxConns
          /\ backlog' \in Seq(1 .. conns')
      BY <2>1, ConnectTypes
    <3>. QED  BY <2>1, <3>1 DEF LinkInv, LinkTypes
  <2>4. WireIsSinks' /\ FrameInIsSinks'
    BY <2>1, <2>2, QuietLink
    DEF WireIsSinks, FrameInIsSinks, LinkInv, LinkTypes
  <2>5. FrameInFlight'
    <3>. SUFFICES ASSUME Alive', Sending'
                  PROVE  Consumed' \o wire'[sink_conn'] = <<>>
      BY <2>2 DEF FrameInFlight
    <3>1. sink_conn' \in Conns
      BY <2>3 DEF LinkTypes, Alive, Conns
    <3>2. wire'[sink_conn'] = <<>>
      BY <2>1, <2>2, <3>1, QuietLink
    <3>3. Consumed' = <<>>
      BY <2>1, <2>2, QuietLink DEF Consumed
    <3>. QED  BY <3>2, <3>3
  <2>6. BurstsAreTheSlot'
    BY <2>1 DEF LinkInv, BurstsAreTheSlot, InputSlot
  <2>. QED
    BY <2>1, <2>2, <2>3, <2>4, <2>5, <2>6
    DEF LinkInv, BridgeHasConn, FrameInLength
<1>3. CASE SinkStopJoin
  <2>1. /\ sender_pc = "done" /\ sink_conn' = 0
        /\ UNCHANGED <<sender_pc, frame_out, origin, overrun, delivered, wire>>
        /\ UNCHANGED <<conns, backlog, bridge_conn, bridge_pc, frame_in, bursts>>
    BY <1>3 DEF SinkStopJoin, StopJoin, senderVars, history, bridgeVars
  <2>2. ~Sending /\ ~Sending' /\ NothingAcked' /\ AckLength'
    BY <2>1 DEF Sending, LinkInv, NothingAcked, AckLength
  <2>3. LinkTypes'
    BY <2>1, LinkAssumption DEF LinkInv, LinkTypes
  <2>4. WireIsSinks' /\ FrameInIsSinks' /\ FrameInFlight'
    BY <2>1, <2>2, QuietLink
    DEF WireIsSinks, FrameInIsSinks, FrameInFlight, LinkInv, LinkTypes
  <2>5. BurstsAreTheSlot'
    BY <2>1 DEF LinkInv, BurstsAreTheSlot, InputSlot
  <2>. QED
    BY <2>1, <2>2, <2>3, <2>4, <2>5 DEF LinkInv, BridgeHasConn, FrameInLength
<1>4. CASE SinkSend
  <2>. DEFINE x == d_ring[d_read_idx][Len(frame_out) + 1]
  <2>1. /\ sender_pc = "send" /\ sender_pc' \in {"send", "ack"}
        /\ sender_pc' = (IF Len(frame_out) + 1 = SlotUnits THEN "ack" ELSE "send")
        /\ frame_out' = Append(frame_out, x)
        /\ Alive /\ wire' = [wire EXCEPT ![sink_conn] = Append(@, x)]
        /\ UNCHANGED <<origin, overrun, delivered>>
        /\ UNCHANGED <<conns, sink_conn, backlog>>
        /\ UNCHANGED <<bridge_conn, bridge_pc, frame_in, bursts>>
    BY <1>4 DEF SinkSend, SendUnit, SenderMoves, bridgeVars
  <2>2. /\ frame_out \in Seq(Units) /\ Len(frame_out) + 1 \in 1 .. SlotUnits
        /\ x \in Units
    <3>1. frame_out \in Seq(Units) /\ Len(frame_out) + 1 \in 1 .. SlotUnits
      BY <2>1, SinkAssumption DEF IInv, TypeOK, SenderFrame
    <3>. QED  BY <3>1 DEF IInv, TypeOK
  <2>. HIDE DEF x
  <2>3. /\ sink_conn \in Conns /\ wire[sink_conn] \in Seq(Units)
        /\ frame_in \in Seq(Units)
    <3>1. sink_conn \in Conns
      BY <2>1, LinkAssumption DEF Alive, LinkInv, LinkTypes, Conns
    <3>. QED  BY <3>1 DEF LinkInv, LinkTypes
  <2>4. /\ \A c \in Conns : wire'[c] = IF c = sink_conn
                                       THEN Append(wire[sink_conn], x) ELSE wire[c]
        /\ wire' \in [Conns -> Seq(Units)]
    <3>1. Append(wire[sink_conn], x) \in Seq(Units)
      BY <2>2, <2>3, AppendProperties
    <3>2. wire' = [wire EXCEPT ![sink_conn] = Append(wire[sink_conn], x)]
      BY <2>1
    <3>. QED  BY <3>1, <3>2 DEF LinkInv, LinkTypes
  <2>5. Alive' = Alive /\ Sending /\ Sending' /\ Consumed' = Consumed
    BY <2>1 DEF Alive, Sending, Consumed
  <2>6. LinkTypes'
    BY <2>1, <2>4 DEF LinkInv, LinkTypes
  <2>7. WireIsSinks' /\ FrameInIsSinks'
    BY <2>1, <2>4, <2>5 DEF LinkInv, WireIsSinks, FrameInIsSinks
  <2>8. AckLength' /\ NothingAcked'
    <3>1. Len(frame_out') = Len(frame_out) + 1
      BY <2>1, <2>2, AppendProperties
    <3>. QED  BY <2>1, <3>1 DEF AckLength, LinkInv, NothingAcked
  <2>9. FrameInFlight'
    <3>1. Consumed \in Seq(Units)
      BY <2>3 DEF Consumed
    <3>2. Consumed \o wire[sink_conn] = frame_out
      BY <2>1, <2>5 DEF LinkInv, FrameInFlight
    <3>3. Consumed \o Append(wire[sink_conn], x) = Append(frame_out, x)
      BY <2>2, <2>3, <3>1, <3>2, PutUnit, SMTT(40)
    <3>. QED  BY <2>1, <2>3, <2>4, <2>5, <3>3 DEF FrameInFlight
  <2>10. BurstsAreTheSlot'
    BY <2>1 DEF LinkInv, BurstsAreTheSlot, InputSlot
  <2>. QED
    BY <2>1, <2>6, <2>7, <2>8, <2>9, <2>10
    DEF LinkInv, BridgeHasConn, FrameInLength
<1>5. CASE SinkSendFail
  <2>1. /\ ~Alive /\ sender_pc' = "loop"
        /\ UNCHANGED <<frame_out, origin, overrun, delivered>>
        /\ UNCHANGED <<conns, sink_conn, backlog, wire>>
        /\ UNCHANGED <<bridge_conn, bridge_pc, frame_in, bursts>>
    BY <1>5 DEF SinkSendFail, SendFail, SenderMoves, linkVars, bridgeVars
  <2>2. LinkTypes'
    BY <2>1 DEF LinkInv, LinkTypes
  <2>3. WireIsSinks' /\ FrameInIsSinks'
    BY <2>1, DeadLink DEF WireIsSinks, FrameInIsSinks
  <2>4. NothingAcked' /\ AckLength' /\ FrameInFlight'
    BY <2>1 DEF LinkInv, NothingAcked, AckLength, FrameInFlight, Sending
  <2>5. BurstsAreTheSlot'
    BY <2>1 DEF LinkInv, BurstsAreTheSlot, InputSlot
  <2>. QED
    BY <2>1, <2>2, <2>3, <2>4, <2>5 DEF LinkInv, BridgeHasConn, FrameInLength
<1>6. CASE SinkLocal /\ SenderAwake
  <2>1. /\ sender_pc = "awake" /\ sender_pc' \in {"done", "send", "connect"}
        /\ frame_out' = <<>>
        /\ UNCHANGED <<origin, overrun, delivered>>
        /\ UNCHANGED <<conns, sink_conn, backlog, wire>>
        /\ UNCHANGED <<bridge_conn, bridge_pc, frame_in, bursts>>
    BY <1>6 DEF SinkLocal, SenderAwake, SenderMoves, linkVars, bridgeVars
  <2>2. ~Sending /\ NothingAcked' /\ AckLength'
    BY <2>1 DEF Sending, LinkInv, NothingAcked, AckLength
  <2>3. LinkTypes' /\ WireIsSinks' /\ FrameInIsSinks'
    BY <2>1, <2>2, QuietLink
    DEF LinkInv, LinkTypes, WireIsSinks, FrameInIsSinks
  <2>4. FrameInFlight'
    <3>. SUFFICES ASSUME Alive'  PROVE Consumed' \o wire'[sink_conn'] = <<>>
      BY <2>1 DEF FrameInFlight
    <3>1. sink_conn \in Conns
      BY <2>1 DEF LinkInv, LinkTypes, Alive, Conns
    <3>2. wire'[sink_conn'] = <<>> /\ Consumed' = <<>>
      BY <2>1, <2>2, <3>1, QuietLink DEF Consumed
    <3>. QED  BY <3>2
  <2>5. BurstsAreTheSlot'
    BY <2>1 DEF LinkInv, BurstsAreTheSlot, InputSlot
  <2>. QED
    BY <2>1, <2>2, <2>3, <2>4, <2>5 DEF LinkInv, BridgeHasConn, FrameInLength
<1>7. CASE SinkLocal /\ ~SenderAwake
  <2>1. /\ UNCHANGED <<linkVars, bridgeVars>>
        /\ UNCHANGED <<frame_out, origin, delivered>>
        /\ overrun => overrun'
        /\ \/ UNCHANGED sender_pc
           \/ /\ sender_pc \in {"loop", "pred", "park", "waiting"}
              /\ sender_pc' \in {"done", "pred", "awake", "park", "waiting"}
    <3>1. UNCHANGED <<linkVars, bridgeVars>>
      BY <1>7 DEF SinkLocal
    <3>2. CASE StopSignal \/ StopNotify
      BY <3>1, <3>2
      DEF StopSignal, StopNotify, ringVars, workVars, senderVars, history
    <3>3. CASE WorkCopy
      BY <3>1, <3>3 DEF WorkCopy, senderVars
    <3>4. CASE Work /\ ~WorkCopy
      BY <3>1, <3>4
      DEF Work, WorkCall, WorkCommit, WorkAbandon, WorkNotify, senderVars, history
    <3>5. CASE SenderLoop \/ SenderPred \/ SenderPark \/ SenderSpurious
      BY <3>1, <3>5
      DEF SenderLoop, SenderPred, SenderPark, SenderSpurious, SenderMoves
    <3>. QED  BY <1>7, <3>2, <3>3, <3>4, <3>5 DEF SinkLocal
  <2>2. /\ NothingAcked' /\ (Sending => UNCHANGED sender_pc)
        /\ ~Sending => ~Sending'
    BY <2>1 DEF Sending, LinkInv, NothingAcked
  <2>. QED  BY <2>1, <2>2, SocketUntouched
<1>. QED
  BY <1>1, <1>2, <1>3, <1>4, <1>5, <1>6, <1>7 DEF Sink

\* The bridge takes over a connection, reads a frame of it unit by unit, hands
\* it to the NIC or drops it, or dies.
LEMMA BridgeLink ==
  ASSUME IInv, FifoInv, LinkInv, Bridge \/ BridgeDie  PROVE LinkInv'
<1>1. /\ UNCHANGED <<sender_pc, frame_out, origin, delivered, overrun>>
      /\ UNCHANGED <<conns, sink_conn>>
  BY DEF Bridge, BridgeDie, BridgeListen, BridgeAccept, BridgeTick, BridgeRecv,
         BridgeRecvFail, BridgeTransmit, BridgeAllocFail, BridgeMoves, vars, senderVars,
         history
<1>2. NothingAcked' /\ AckLength' /\ Sending' = Sending
  BY <1>1 DEF LinkInv, NothingAcked, AckLength, Sending
<1>3. UNCHANGED bursts => BurstsAreTheSlot'
  BY <1>1 DEF LinkInv, BurstsAreTheSlot, InputSlot
<1>4. CASE BridgeListen
  <2>1. /\ bridge_pc = "startup" /\ bridge_pc' = "accept"
        /\ UNCHANGED <<backlog, bridge_conn, wire, frame_in, bursts>>
    BY <1>4 DEF BridgeListen, BridgeMoves, nicVars
  <2>2. LinkTypes' /\ BridgeHasConn' /\ FrameInIsSinks' /\ FrameInLength'
    BY <1>1, <2>1
    DEF LinkInv, LinkTypes, BridgePcs, BridgeHasConn, FrameInIsSinks, FrameInLength
  <2>3. Alive' = Alive /\ Consumed' = Consumed
    BY <1>1, <2>1 DEF Alive, Consumed
  <2>4. WireIsSinks' /\ FrameInFlight'
    BY <1>1, <1>2, <2>1, <2>3 DEF LinkInv, WireIsSinks, FrameInFlight
  <2>. QED  BY <1>2, <1>3, <2>1, <2>2, <2>4 DEF LinkInv
<1>5. CASE BridgeAccept
  <2>1. /\ bridge_pc = "accept" /\ bridge_pc' = "loop"
        /\ backlog # <<>> /\ bridge_conn' = Head(backlog) /\ backlog' = Tail(backlog)
        /\ UNCHANGED <<wire, frame_in, bursts>>
    BY <1>5 DEF BridgeAccept, BridgeMoves, nicVars
  <2>2. /\ backlog \in Seq(1 .. conns) /\ Len(backlog) \in Nat
        /\ bridge_conn' \in 1 .. conns /\ backlog' \in Seq(1 .. conns)
        /\ bridge_conn' = backlog[1] /\ Len(backlog') = Len(backlog) - 1
        /\ \A i \in 1 .. Len(backlog) - 1 : backlog'[i] = backlog[i + 1]
    BY <2>1, HeadTailProperties, LenProperties DEF LinkInv, LinkTypes
  <2>3. LinkTypes' /\ BridgeHasConn' /\ FrameInIsSinks' /\ FrameInLength'
    BY <1>1, <2>1, <2>2
    DEF LinkInv, LinkTypes, BridgePcs, BridgeHasConn, FrameInIsSinks, FrameInLength
  <2>4. Alive' = Alive
    <3>1. bridge_conn = 0
      BY <2>1 DEF LinkInv, BridgeHasConn
    <3>2. ASSUME NEW i \in 1 .. Len(backlog), backlog[i] = sink_conn
          PROVE  Alive'
      <4>1. CASE i = 1
        BY <1>1, <2>2, <3>2, <4>1 DEF Alive
      <4>2. CASE i # 1
        <5>1. i - 1 \in 1 .. Len(backlog) - 1 /\ backlog'[i - 1] = backlog[(i - 1) + 1]
              /\ (i - 1) + 1 = i
          BY <2>2, <4>2
        <5>2. sink_conn \in 1 .. conns
          BY <2>2, <3>2, ElementOfSeq
        <5>. QED  BY <1>1, <2>2, <3>2, <5>1, <5>2 DEF Alive, Contains
      <4>. QED  BY <4>1, <4>2
    <3>3. ASSUME NEW i \in 1 .. Len(backlog'), backlog'[i] = sink_conn, sink_conn # 0
          PROVE  Alive
      <4>1. i + 1 \in 1 .. Len(backlog) /\ backlog[i + 1] = sink_conn
        BY <2>2, <3>3
      <4>. QED  BY <3>3, <4>1 DEF Alive, Contains
    <3>4. ASSUME sink_conn = bridge_conn', sink_conn # 0  PROVE Alive
      <4>1. 1 \in 1 .. Len(backlog)
        BY <2>1, <2>2
      <4>. QED  BY <2>2, <3>4, <4>1 DEF Alive, Contains
    <3>5. Alive => Alive'
      BY <3>1, <3>2 DEF Alive, Contains
    <3>6. Alive' => Alive
      BY <1>1, <3>3, <3>4 DEF Alive, Contains
    <3>. QED  BY <3>5, <3>6 DEF Alive
  <2>5. Consumed' = Consumed
    BY <2>1 DEF Consumed
  <2>6. WireIsSinks' /\ FrameInFlight'
    BY <1>1, <1>2, <2>1, <2>4, <2>5 DEF LinkInv, WireIsSinks, FrameInFlight
  <2>. QED  BY <1>2, <1>3, <2>1, <2>3, <2>6 DEF LinkInv
<1>6. CASE BridgeTick
  <2>1. /\ bridge_pc = "loop" /\ bridge_pc' = "recv" /\ frame_in' = <<>>
        /\ UNCHANGED <<backlog, bridge_conn, wire, bursts>>
    BY <1>6 DEF BridgeTick, BridgeMoves, nicVars
  <2>2. LinkTypes' /\ BridgeHasConn' /\ FrameInIsSinks' /\ FrameInLength'
    BY <1>1, <2>1, SinkAssumption
    DEF LinkInv, LinkTypes, BridgePcs, BridgeHasConn, FrameInIsSinks, FrameInLength
  <2>3. Alive' = Alive /\ Consumed' = Consumed
    BY <1>1, <2>1 DEF Alive, Consumed
  <2>4. WireIsSinks' /\ FrameInFlight'
    BY <1>1, <1>2, <2>1, <2>3 DEF LinkInv, WireIsSinks, FrameInFlight
  <2>. QED  BY <1>2, <1>3, <2>1, <2>2, <2>4 DEF LinkInv
<1>7. CASE BridgeRecv
  <2>. DEFINE units == wire[bridge_conn]
              frame == Append(frame_in, Head(units))
  <2>1. /\ bridge_pc = "recv"
        /\ bridge_pc' = (IF Len(frame_in) + 1 = SlotUnits THEN "transmit" ELSE "recv")
        /\ units # <<>> /\ frame_in' = frame
        /\ wire' = [wire EXCEPT ![bridge_conn] = Tail(units)]
        /\ UNCHANGED <<backlog, bridge_conn, bursts>>
    BY <1>7 DEF BridgeRecv, BridgeMoves, nicVars
  <2>2. bridge_conn \in Conns
    BY <2>1, LinkAssumption DEF LinkInv, LinkTypes, BridgeHasConn, Conns
  <2>3. bridge_conn = sink_conn /\ Alive /\ Sending
    BY <2>1, <2>2 DEF LinkInv, WireIsSinks
  <2>4. units \in Seq(Units) /\ frame_in \in Seq(Units)
    BY <2>2 DEF LinkInv, LinkTypes
  <2>5. /\ frame \in Seq(Units) /\ Len(frame) = Len(frame_in) + 1 /\ frame # <<>>
        /\ Tail(units) \in Seq(Units) /\ frame \o Tail(units) = frame_in \o units
    BY <2>1, <2>4, MoveUnit
  <2>6. /\ \A c \in Conns : wire'[c] = IF c = bridge_conn THEN Tail(units) ELSE wire[c]
        /\ wire' \in [Conns -> Seq(Units)]
    <3>. HIDE DEF units
    <3>. QED  BY <2>1, <2>2, <2>5 DEF LinkInv, LinkTypes
  <2>7. frame_in \o units = frame_out
    BY <2>1, <2>3 DEF LinkInv, FrameInFlight, Consumed
  <2>. HIDE DEF units, frame
  <2>8. LinkTypes'
    BY <1>1, <2>1, <2>5, <2>6 DEF LinkInv, LinkTypes, BridgePcs
  <2>9. BridgeHasConn' /\ FrameInLength'
    BY <1>1, <2>1, <2>4, <2>5, SinkAssumption
    DEF LinkInv, BridgeHasConn, FrameInLength
  <2>10. Alive' /\ Alive
    BY <1>1, <2>1, <2>3 DEF Alive
  <2>11. FrameInIsSinks' /\ WireIsSinks'
    BY <1>1, <1>2, <2>1, <2>3, <2>6, <2>10 DEF LinkInv, FrameInIsSinks, WireIsSinks
  <2>12. FrameInFlight'
    BY <1>1, <2>1, <2>2, <2>3, <2>5, <2>6, <2>7 DEF FrameInFlight, Consumed
  <2>. QED
    BY <1>2, <1>3, <2>1, <2>8, <2>9, <2>11, <2>12 DEF LinkInv
<1>8. CASE BridgeRecvFail
  <2>1. /\ bridge_pc = "recv" /\ bridge_pc' = "loop" /\ sink_conn # bridge_conn
        /\ UNCHANGED <<backlog, bridge_conn, wire, frame_in, bursts>>
    BY <1>8 DEF BridgeRecvFail, BridgeMoves, nicVars
  <2>2. LinkTypes' /\ BridgeHasConn' /\ FrameInIsSinks' /\ FrameInLength'
    BY <1>1, <2>1
    DEF LinkInv, LinkTypes, BridgePcs, BridgeHasConn, FrameInIsSinks, FrameInLength
  <2>3. Alive' = Alive /\ Consumed' = Consumed
    BY <1>1, <2>1 DEF Alive, Consumed
  <2>4. WireIsSinks' /\ FrameInFlight'
    BY <1>1, <1>2, <2>1, <2>3 DEF LinkInv, WireIsSinks, FrameInFlight
  <2>. QED  BY <1>2, <1>3, <2>1, <2>2, <2>4 DEF LinkInv
<1>9. CASE BridgeTransmit \/ BridgeAllocFail
  <2>1. /\ bridge_pc = "transmit" /\ bridge_pc' = "loop"
        /\ bursts' = Append(bursts, frame_in) \/ UNCHANGED bursts
        /\ UNCHANGED <<backlog, bridge_conn, wire, frame_in>>
    BY <1>9 DEF BridgeTransmit, BridgeAllocFail, BridgeMoves
  <2>2. Len(frame_in) = SlotUnits /\ frame_in # <<>> /\ frame_in \in Seq(Units)
    BY <2>1, SinkAssumption DEF LinkInv, FrameInLength, LinkTypes
  <2>3. bridge_conn = sink_conn /\ Alive /\ Sending /\ sink_conn \in Conns
    BY <2>1, <2>2, LinkAssumption
    DEF LinkInv, FrameInIsSinks, BridgeHasConn, Alive, LinkTypes, Conns
  <2>4. frame_in \o wire[sink_conn] = frame_out
    BY <2>1, <2>2, <2>3 DEF LinkInv, FrameInFlight, Consumed
  <2>5. /\ wire[sink_conn] = <<>> /\ frame_out = frame_in /\ sender_pc = "ack"
    <3>. DEFINE w == wire[sink_conn]
    <3>1. w \in Seq(Units) /\ Len(frame_out) <= SlotUnits
      BY <2>3 DEF LinkInv, LinkTypes, IInv, TypeOK
    <3>2. Len(frame_out) = SlotUnits + Len(w) /\ Len(w) \in Nat
      BY <2>2, <2>4, <3>1, ConcatProperties, LenProperties
    <3>3. Len(w) = 0
      BY <3>1, <3>2, SinkAssumption
    <3>4. w = <<>>
      BY <3>1, <3>3
    <3>5. frame_out = frame_in
      BY <2>2, <2>4, <3>4, ConcatEmptySeq
    <3>6. sender_pc # "send"
      BY <2>2, <3>5, SinkAssumption DEF IInv, SenderFrame
    <3>. QED  BY <2>3, <3>4, <3>5, <3>6 DEF Sending
  <2>6. LinkTypes'
    <3>1. bursts \in Seq(Seq(Units))
      BY DEF LinkInv, LinkTypes
    <3>2. bursts' \in Seq(Seq(Units))
      BY <2>1, <2>2, <3>1, AppendProperties
    <3>. QED  BY <1>1, <2>1, <3>2 DEF LinkInv, LinkTypes, BridgePcs
  <2>7. BridgeHasConn' /\ FrameInIsSinks' /\ FrameInLength'
    BY <1>1, <2>1 DEF LinkInv, BridgeHasConn, FrameInIsSinks, FrameInLength
  <2>8. Alive' = Alive /\ Consumed' = <<>>
    BY <1>1, <2>1 DEF Alive, Consumed
  <2>9. WireIsSinks' /\ FrameInFlight'
    BY <1>1, <1>2, <2>1, <2>5, <2>8 DEF LinkInv, WireIsSinks, FrameInFlight
  <2>10. BurstsAreTheSlot'
    <3>. SUFFICES ASSUME bursts' = Append(bursts, frame_in), ~overrun,
                         NEW k \in 1 .. Len(bursts')
                  PROVE  bursts'[k] = InputSlot(1)
      BY <1>1, <1>3, <2>1 DEF BurstsAreTheSlot, InputSlot
    <3>1. /\ bursts \in Seq(Seq(Units)) /\ Len(bursts) \in Nat
          /\ Len(bursts') = Len(bursts) + 1
          /\ \A i \in 1 .. Len(bursts) : bursts'[i] = bursts[i]
          /\ bursts'[Len(bursts) + 1] = frame_in
      BY <2>2, AppendProperties, LenProperties DEF LinkInv, LinkTypes
    <3>2. CASE k <= Len(bursts)
      BY <3>1, <3>2 DEF LinkInv, BurstsAreTheSlot
    <3>3. CASE k = Len(bursts) + 1
      <4>1. Released + 1 = 1
        BY <2>5 DEF Released, LinkInv, NothingAcked
      <4>2. \A u \in 1 .. SlotUnits : frame_in[u] = InputSlot(1)[u]
        BY <2>2, <2>5, <4>1 DEF FifoInv, FrameIsInput
      <4>3. frame_in = [u \in 1 .. SlotUnits |-> frame_in[u]]
        BY <2>2
      <4>. QED  BY <3>1, <3>3, <4>2, <4>3 DEF InputSlot
    <3>. QED  BY <3>1, <3>2, <3>3
  <2>. QED  BY <1>2, <2>6, <2>7, <2>9, <2>10 DEF LinkInv
<1>10. CASE BridgeDie
  <2>1. /\ bridge_pc' = "startup" /\ bridge_conn' = 0 /\ frame_in' = <<>>
        /\ backlog' = <<>> /\ wire' = [c \in Conns |-> <<>>]
        /\ UNCHANGED bursts
    BY <1>10 DEF BridgeDie
  <2>2. LinkTypes'
    BY <1>1, <2>1 DEF LinkInv, LinkTypes, BridgePcs
  <2>3. ~Alive'
    BY <2>1 DEF Alive, Contains
  <2>4. WireIsSinks' /\ FrameInIsSinks' /\ FrameInLength' /\ BridgeHasConn'
        /\ FrameInFlight'
    BY <2>1, <2>3
    DEF WireIsSinks, FrameInIsSinks, FrameInLength, BridgeHasConn, FrameInFlight
  <2>. QED  BY <1>2, <1>3, <2>1, <2>2, <2>4 DEF LinkInv
<1>. QED
  BY <1>4, <1>5, <1>6, <1>7, <1>8, <1>9, <1>10 DEF Bridge

\* A step that changes nothing.
LEMMA StutterLink ==
  ASSUME LinkInv, UNCHANGED allVars  PROVE LinkInv'
<1>1. UNCHANGED <<sender_pc, frame_out, origin, delivered, overrun>>
  BY DEF allVars, vars, senderVars, history
<1>2. UNCHANGED <<linkVars, bridgeVars>>
  BY DEF allVars
<1>3. NothingAcked'
  BY <1>1 DEF LinkInv, NothingAcked
<1>. QED  BY <1>1, <1>2, <1>3, SocketUntouched DEF Sending

-----------------------------------------------------------------------------
(* The theorem.                                                            *)

\* Over every stop(), reconnect and death of the bridge, whatever the sizes of
\* the ring, the slot and the socket, what is handed to the NIC is the first
\* slot of this run's input, whole and unmixed, as long as work() has not copied
\* into a full ring.
THEOREM NicGetsTheSlot == LinkSpec => []BurstsAreTheSlot
<1>1. LinkSpec => [](IInv /\ FifoInv)
  BY LinkIsASink, FifoInvariance
<1>2. (IInv /\ FifoInv) /\ LinkInv /\ [LinkNext]_allVars => LinkInv'
  BY SinkLink, BridgeLink, StutterLink DEF LinkNext
<1>3. LinkInv => BurstsAreTheSlot
  BY DEF LinkInv
<1>. QED  BY InitLink, <1>1, <1>2, <1>3, PTL DEF LinkSpec

=============================================================================
