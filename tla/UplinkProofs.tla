---------------------------- MODULE UplinkProofs ----------------------------
(***************************************************************************)
(* Proofs about UplinkSource for every ring size, slot size and input:     *)
(*   1. the types of its variables, and that the reader never receives into*)
(*      the slot that work() is draining;                                  *)
(*   2. what work() produces is a prefix of what the reader has accepted;  *)
(*   3. work() pads with zeros only between slots, if frames are whole items;*)
(*   4. dpdk_uplink_source implements SlotStream.                          *)
(* Each part strengthens the invariant of the first two.                   *)
(*                                                                         *)
(* And about UplinkPath, whose ring is SlotStream, for every size of slot, *)
(* packet, ring and socket:                                                *)
(*   5. units come out of work() in the order of the FPGA whatever is lost, and*)
(*      without loss the frames are its slots.                             *)
(***************************************************************************)
EXTENDS UplinkSource, UplinkPath, TLAPS, SequenceTheorems

(***************************************************************************)
(* 1. Types, and exclusion of the slots.                                   *)
(***************************************************************************)

-----------------------------------------------------------------------------
(* The inductive invariant.                                                *)

\* Slots between the two indices: the reader moves d_write_idx one step before
\* it counts the slot.
Between == IF reader_pc = "count" THEN d_ring_count + 1 ELSE d_ring_count

\* The indices agree with the count: d_write_idx is Between slots ahead.
RingAgrees ==
  \/ d_write_idx = d_read_idx + Between
  \/ d_write_idx = d_read_idx + Between - RingSize

\* Where the reader has passed its wait, there is room for its slot, and it
\* keeps that room, because only the reader raises the count.
ReaderHasRoom ==
  /\ reader_pc \in {"recv", "payload", "publish", "count"}
       => d_ring_count < RingSize
  /\ reader_pc = "awake" => d_ring_count < RingSize \/ ~d_running

\* Where work() has seen a slot, the slot stays: only work() lowers the count.
WorkHasSlot == WorkInSlot => d_ring_count > 0

\* The offset stays within the slot it is an offset of.
OffsetInSlot ==
  work_pc # "notify" =>
    /\ d_drain_offset <= d_ring_lens[d_read_idx]
    /\ d_ring_count = 0 => d_drain_offset = 0

\* What is known of the frame being received.
FrameFits ==
  /\ reader_pc = "payload" =>
       /\ frame_len \in 1 .. SlotBytes
       /\ got < frame_len /\ got <= arrived
       /\ arrived + (frame_len - got) <= MaxBytes
  /\ reader_pc \in {"publish", "count"} =>
       /\ frame_len \in 1 .. SlotBytes
       /\ frame_len <= arrived

\* A stopped block has no reader.
StoppedIsDone == ctl_pc = "stopped" => reader_pc = "done"

\* A call produces no more than it was asked for.
CallFits == needed + produced <= CallBytes

IInv ==
  /\ TypeOK
  /\ RingAgrees
  /\ ReaderHasRoom
  /\ WorkHasSlot
  /\ OffsetInSlot
  /\ FrameFits
  /\ StoppedIsDone
  /\ CallFits

-----------------------------------------------------------------------------
(* Lemmas about the operators of the model.                                *)

\* The successor of an index in the ring.
LEMMA NextIndex ==
  ASSUME NEW N \in Nat \ {0}, NEW i \in 0 .. N - 1
  PROVE  (i + 1) % N = IF i + 1 = N THEN 0 ELSE i + 1
<1>1. CASE i + 1 = N
  BY <1>1, SMT
<1>2. CASE i + 1 < N
  BY <1>2, SMT
<1>. QED  BY <1>1, <1>2

\* The whole items in a number of bytes are at most that many bytes.
LEMMA WholeItems ==
  ASSUME NEW n \in Nat, NEW size \in Nat \ {0}
  PROVE  (n \div size) * size \in 0 .. n
<1>1. /\ n = size * (n \div size) + (n % size)
      /\ n % size \in 0 .. size - 1
      /\ n \div size \in Nat
  OBVIOUS
<1>2. (n \div size) * size = size * (n \div size) /\ size * (n \div size) \in Nat
  BY <1>1
<1>. QED  BY <1>1, <1>2

\* A call of at most MaxCall items asks for at most CallBytes bytes.
LEMMA ItemsFit ==
  ASSUME NEW n \in 1 .. MaxCall
  PROVE  n * SizeofShort \in 0 .. CallBytes
<1>1. MaxCall \in Nat /\ SizeofShort \in Nat
  BY SourceAssumption
<1>2. n \in Nat /\ n <= MaxCall
  BY <1>1
<1>3. n * SizeofShort \in Nat /\ MaxCall * SizeofShort \in Nat
      /\ n * SizeofShort <= MaxCall * SizeofShort
  BY <1>1, <1>2
<1>. QED  BY <1>3 DEF CallBytes

\* The bytes of the longest call are a number.
LEMMA CallBytesType == CallBytes \in Nat
BY SourceAssumption DEF CallBytes

-----------------------------------------------------------------------------
(* The invariant is inductive.                                             *)

\* The invariant holds when the block has been constructed.
LEMMA InitIInv == Init => IInv
<1>. SUFFICES ASSUME Init  PROVE IInv
  OBVIOUS
<1>1. TypeOK
  <2>1. /\ d_ring \in [Slots -> [1 .. SlotBytes -> Bytes]]
        /\ d_ring_lens \in [Slots -> 0 .. SlotBytes]
        /\ accepted \in Seq(Bytes) /\ out \in Seq(Bytes)
    BY SourceAssumption DEF Init, Bytes
  <2>2. d_running \in BOOLEAN /\ d_connected \in BOOLEAN
    BY DEF Init
  <2>3. /\ d_write_idx \in Slots /\ d_read_idx \in Slots
        /\ d_ring_count \in 0 .. RingSize
        /\ d_drain_offset \in 0 .. SlotBytes
        /\ needed \in 0 .. CallBytes /\ produced \in 0 .. CallBytes
        /\ frame_len \in FrameLens \cup {0} /\ got \in 0 .. SlotBytes
        /\ arrived \in Bytes
    BY SourceAssumption, CallBytesType DEF Init, Slots, Bytes
  <2>. QED
    BY <2>1, <2>2, <2>3 DEF Init, TypeOK, WorkPcs, ReaderPcs, CtlPcs
<1>2. d_ring_lens[d_read_idx] = 0
  BY SourceAssumption DEF Init, Slots
<1>. QED
  BY <1>1, <1>2, SourceAssumption, CallBytesType
  DEF Init, IInv, RingAgrees, Between, ReaderHasRoom, WorkHasSlot, WorkInSlot,
      OffsetInSlot, FrameFits, StoppedIsDone, CallFits

\* The steps of start() and stop() preserve the invariant.
LEMMA ControlIInv == IInv /\ Control => IInv'
<1>. SUFFICES ASSUME IInv, Control  PROVE IInv'
  OBVIOUS
<1>1. CASE Start
  <2>1. /\ d_running' = TRUE /\ reader_pc' = "loop" /\ ctl_pc' = "running"
        /\ d_drain_offset' = 0 /\ d_write_idx' = 0 /\ d_read_idx' = 0
        /\ d_ring_count' = 0 /\ accepted' = <<>> /\ out' = <<>>
        /\ UNCHANGED <<d_ring, d_ring_lens, d_connected, work_pc, needed,
                       produced, frame_len, got, arrived>>
        /\ work_pc = "ready"
    BY <1>1 DEF Start, workVars
  <2>2. TypeOK'
    <3>1. 0 \in Slots /\ 0 \in 0 .. RingSize /\ 0 \in 0 .. SlotBytes
      BY SourceAssumption DEF Slots
    <3>2. /\ d_write_idx' \in Slots /\ d_read_idx' \in Slots
          /\ d_ring_count' \in 0 .. RingSize /\ d_drain_offset' \in 0 .. SlotBytes
      BY <2>1, <3>1
    <3>3. accepted' \in Seq(Bytes) /\ out' \in Seq(Bytes)
      BY <2>1
    <3>4. d_running' \in BOOLEAN /\ reader_pc' \in ReaderPcs /\ ctl_pc' \in CtlPcs
      BY <2>1 DEF ReaderPcs, CtlPcs
    <3>. QED  BY <2>1, <3>2, <3>3, <3>4 DEF IInv, TypeOK
  <2>3. d_ring_lens'[d_read_idx'] \in Nat
    BY <2>1, SourceAssumption DEF IInv, TypeOK, Slots
  <2>4. RingAgrees' /\ ReaderHasRoom'
    BY <2>1, SourceAssumption DEF RingAgrees, Between, ReaderHasRoom
  <2>. QED
    BY <2>1, <2>2, <2>3, <2>4
    DEF IInv, WorkHasSlot, WorkInSlot, OffsetInSlot, FrameFits, StoppedIsDone,
        CallFits
<1>2. CASE StopSignal
  <2>1. d_running' \in BOOLEAN
    BY <1>2 DEF StopSignal
  <2>2. TypeOK'
    BY <1>2, <2>1
    DEF StopSignal, IInv, TypeOK, ringVars, workVars, readerVars, history, CtlPcs
  <2>. QED
    BY <1>2, <2>2
    DEF StopSignal, ringVars, workVars, readerVars, history, IInv, RingAgrees, Between, ReaderHasRoom, WorkHasSlot, WorkInSlot,
      OffsetInSlot, FrameFits, StoppedIsDone, CallFits
<1>3. CASE StopNotify
  BY <1>3
  DEF StopNotify, ringVars, workVars, history, TypeOK, ReaderPcs, CtlPcs, IInv,
      RingAgrees, Between, ReaderHasRoom, WorkHasSlot, WorkInSlot,
      OffsetInSlot, FrameFits, StoppedIsDone, CallFits
<1>4. CASE StopJoin
  BY <1>4
  DEF StopJoin, ringVars, workVars, readerVars, history, TypeOK, CtlPcs, IInv,
      RingAgrees, Between, ReaderHasRoom, WorkHasSlot, WorkInSlot,
      OffsetInSlot, FrameFits, StoppedIsDone, CallFits
<1>. QED  BY <1>1, <1>2, <1>3, <1>4 DEF Control

\* The steps of a call of work() preserve the invariant.
LEMMA WorkIInv == IInv /\ Work => IInv'
<1>. SUFFICES ASSUME IInv, Work  PROVE IInv'
  OBVIOUS
<1>. USE CallBytesType
<1>1. ASSUME NEW n \in 1 .. MaxCall, WorkCall(n)  PROVE IInv'
  <2>1. needed' \in 0 .. CallBytes /\ produced' = 0
    BY <1>1, ItemsFit DEF WorkCall
  <2>2. TypeOK'
    BY <1>1, <2>1 DEF WorkCall, WorkMoves, IInv, TypeOK, WorkPcs
  <2>. QED
    BY <1>1, <2>1, <2>2
    DEF WorkCall, WorkMoves, IInv, TypeOK, RingAgrees, Between, ReaderHasRoom, WorkHasSlot, WorkInSlot,
      OffsetInSlot, FrameFits, StoppedIsDone, CallFits
<1>2. CASE WorkPeek
  <2>1. TypeOK'
    BY <1>2 DEF WorkPeek, WorkMoves, IInv, TypeOK, WorkPcs
  <2>2. WorkHasSlot'
    BY <1>2 DEF WorkPeek, WorkMoves, IInv, TypeOK, WorkHasSlot, WorkInSlot
  <2>3. OffsetInSlot'
    BY <1>2 DEF WorkPeek, WorkMoves, IInv, TypeOK, OffsetInSlot
  <2>. QED
    BY <1>2, <2>1, <2>2, <2>3
    DEF WorkPeek, WorkMoves, IInv, RingAgrees, Between, ReaderHasRoom,
      FrameFits, StoppedIsDone, CallFits
<1>3. CASE WorkDrain
  <2>. DEFINE len == d_ring_lens[d_read_idx]
              chunk == DrainChunk
  <2>1. /\ len \in 0 .. SlotBytes /\ d_drain_offset \in 0 .. len
        /\ d_ring_count \in 1 .. RingSize
    BY <1>3, SourceAssumption
    DEF WorkDrain, WorkMoves, IInv, TypeOK, OffsetInSlot, WorkHasSlot, WorkInSlot, Slots
  <2>2. /\ chunk \in Nat /\ chunk <= len - d_drain_offset
        /\ chunk <= needed
    <3>. DEFINE most == Smaller(len - d_drain_offset, needed)
    <3>1. /\ most \in Nat
          /\ most <= len - d_drain_offset /\ most <= needed
      BY <2>1 DEF Smaller, IInv, TypeOK
    <3>2. chunk \in 0 .. most
      BY <3>1, WholeItems, SourceAssumption DEF DrainChunk
    <3>. QED  BY <2>1, <3>1, <3>2 DEF IInv, TypeOK
  <2>3. out' \in Seq(Bytes)
    <3>1. \A b \in d_drain_offset + 1 .. d_drain_offset + chunk :
            d_ring[d_read_idx][b] \in Bytes
      BY <2>1, <2>2, SourceAssumption DEF IInv, TypeOK
    <3>2. SubSeq(d_ring[d_read_idx], d_drain_offset + 1, d_drain_offset + chunk)
            \in Seq(Bytes)
      BY <2>1, <2>2, <3>1, SubSeqProperties
    <3>. QED  BY <1>3, <3>2, ConcatProperties DEF WorkDrain, IInv, TypeOK
  <2>4. /\ d_drain_offset' = d_drain_offset + chunk
        /\ needed' = needed - chunk /\ produced' = produced + chunk
        /\ work_pc' \in {"end", "free"}
    BY <1>3 DEF WorkDrain, WorkMoves
  <2>. HIDE DEF chunk
  <2>5. TypeOK'
    <3>1. /\ d_drain_offset' \in 0 .. SlotBytes
          /\ needed' \in 0 .. CallBytes /\ produced' \in 0 .. CallBytes
      BY <2>1, <2>2, <2>4, SourceAssumption DEF IInv, TypeOK, CallFits
    <3>2. work_pc' \in WorkPcs
      BY <2>4 DEF WorkPcs
    <3>3. UNCHANGED <<d_ring, d_ring_lens, d_write_idx, d_read_idx, d_ring_count,
                      d_running, d_connected, reader_pc, frame_len, got, ctl_pc,
                      arrived, accepted>>
      BY <1>3 DEF WorkDrain, WorkMoves
    <3>. QED  BY <2>3, <3>1, <3>2, <3>3 DEF IInv, TypeOK
  <2>6. OffsetInSlot'
    BY <1>3, <2>1, <2>2, <2>4 DEF WorkDrain, WorkMoves, OffsetInSlot
  <2>7. WorkHasSlot' /\ CallFits'
    BY <1>3, <2>1, <2>2, <2>4
    DEF WorkDrain, WorkMoves, IInv, TypeOK, WorkHasSlot, WorkInSlot, CallFits
  <2>. QED
    BY <1>3, <2>5, <2>6, <2>7
    DEF WorkDrain, WorkMoves, IInv, RingAgrees, Between, ReaderHasRoom, FrameFits,
        StoppedIsDone
<1>4. CASE WorkFree
  <2>1. d_ring_count \in 1 .. RingSize
    BY <1>4 DEF WorkFree, WorkMoves, IInv, TypeOK, WorkHasSlot, WorkInSlot
  <2>2. /\ d_read_idx' = IF d_read_idx + 1 = RingSize THEN 0 ELSE d_read_idx + 1
        /\ d_ring_count' = d_ring_count - 1
    BY <1>4, NextIndex, SourceAssumption DEF WorkFree, IInv, TypeOK, Slots
  <2>3. TypeOK'
    BY <1>4, <2>1, <2>2, SourceAssumption
    DEF WorkFree, WorkMoves, IInv, TypeOK, Slots, WorkPcs
  <2>4. RingAgrees'
    <3>1. Between \in 1 .. RingSize /\ Between' = Between - 1
      BY <1>4, <2>1, <2>2, SourceAssumption
      DEF WorkFree, IInv, Between, ReaderHasRoom
    <3>2. d_write_idx' = d_write_idx
      BY <1>4 DEF WorkFree, WorkMoves
    <3>3. d_read_idx \in 0 .. RingSize - 1 /\ d_write_idx \in 0 .. RingSize - 1
      BY DEF IInv, TypeOK, Slots
    <3>. QED
      BY <2>2, <3>1, <3>2, <3>3, SourceAssumption DEF IInv, RingAgrees
  <2>. QED
    BY <1>4, <2>1, <2>2, <2>3, <2>4, SourceAssumption
    DEF WorkFree, WorkMoves, IInv, TypeOK, ReaderHasRoom, WorkHasSlot, WorkInSlot,
        OffsetInSlot, FrameFits, StoppedIsDone, CallFits
<1>5. CASE WorkNotify
  BY <1>5, SourceAssumption
  DEF WorkNotify, WorkMoves, TypeOK, Slots, WorkPcs, ReaderPcs, IInv,
      RingAgrees, Between, ReaderHasRoom, WorkHasSlot, WorkInSlot,
      OffsetInSlot, FrameFits, StoppedIsDone, CallFits
<1>6. CASE WorkEnd
  <2>1. TypeOK' /\ CallFits'
    BY <1>6 DEF WorkEnd, WorkMoves, IInv, TypeOK, CallFits, WorkPcs
  <2>2. OffsetInSlot' /\ WorkHasSlot'
    BY <1>6
    DEF WorkEnd, WorkMoves, IInv, TypeOK, OffsetInSlot, WorkHasSlot, WorkInSlot
  <2>. QED
    BY <1>6, <2>1, <2>2
    DEF WorkEnd, WorkMoves, IInv, RingAgrees, Between, ReaderHasRoom, FrameFits,
        StoppedIsDone
<1>. QED
  BY <1>1, <1>2, <1>3, <1>4, <1>5, <1>6 DEF Work, WorkStep

\* The steps of the reader thread that move it only, and the peer's.
LEMMA WaitIInv ==
  ASSUME IInv,
         \/ ReaderLoop \/ ReaderPred \/ ReaderPark \/ ReaderSpurious
         \/ ReaderAwake \/ ReaderRetry \/ RecvFail
  PROVE  IInv'
<1>1. CASE ReaderLoop
  BY <1>1, SourceAssumption
  DEF ReaderLoop, ReaderMoves, workVars, TypeOK, ReaderPcs, IInv,
      RingAgrees, Between, ReaderHasRoom, WorkHasSlot, WorkInSlot,
      OffsetInSlot, FrameFits, StoppedIsDone, CallFits
<1>2. CASE ReaderPred
  BY <1>2, SourceAssumption
  DEF ReaderPred, ReaderMoves, workVars, TypeOK, ReaderPcs, IInv,
      RingAgrees, Between, ReaderHasRoom, WorkHasSlot, WorkInSlot,
      OffsetInSlot, FrameFits, StoppedIsDone, CallFits
<1>3. CASE ReaderPark
  BY <1>3, SourceAssumption
  DEF ReaderPark, ReaderMoves, workVars, TypeOK, ReaderPcs, IInv,
      RingAgrees, Between, ReaderHasRoom, WorkHasSlot, WorkInSlot,
      OffsetInSlot, FrameFits, StoppedIsDone, CallFits
<1>4. CASE ReaderSpurious
  BY <1>4, SourceAssumption
  DEF ReaderSpurious, ReaderMoves, workVars, TypeOK, ReaderPcs, IInv,
      RingAgrees, Between, ReaderHasRoom, WorkHasSlot, WorkInSlot,
      OffsetInSlot, FrameFits, StoppedIsDone, CallFits
<1>5. CASE ReaderAwake
  BY <1>5, SourceAssumption
  DEF ReaderAwake, ReaderMoves, workVars, TypeOK, ReaderPcs, IInv,
      RingAgrees, Between, ReaderHasRoom, WorkHasSlot, WorkInSlot,
      OffsetInSlot, FrameFits, StoppedIsDone, CallFits
<1>6. CASE ReaderRetry
  BY <1>6, SourceAssumption
  DEF ReaderRetry, ReaderMoves, workVars, TypeOK, ReaderPcs, IInv,
      RingAgrees, Between, ReaderHasRoom, WorkHasSlot, WorkInSlot,
      OffsetInSlot, FrameFits, StoppedIsDone, CallFits
<1>7. CASE RecvFail
  <2>1. d_connected' \in BOOLEAN
    BY <1>7 DEF RecvFail
  <2>2. TypeOK'
    BY <1>7, <2>1 DEF RecvFail, ReaderMoves, workVars, IInv, TypeOK, ReaderPcs
  <2>. QED
    BY <1>7, <2>2 DEF RecvFail, ReaderMoves, workVars, IInv,
      RingAgrees, Between, ReaderHasRoom, WorkHasSlot, WorkInSlot,
      OffsetInSlot, FrameFits, StoppedIsDone, CallFits
<1>. QED  BY <1>1, <1>2, <1>3, <1>4, <1>5, <1>6, <1>7

\* The steps that receive a frame and commit it preserve the invariant.
LEMMA ReceiveIInv ==
  ASSUME IInv,
         \/ \E len \in FrameLens : RecvHeader(len)
         \/ RecvByte \/ ReaderPublish \/ ReaderCount
  PROVE  IInv'
<1>1. ASSUME NEW len \in FrameLens, RecvHeader(len)  PROVE IInv'
  <2>1. len \in Nat \ {0} /\ SlotBytes \in Nat
    BY SourceAssumption
  <2>2. d_connected' \in BOOLEAN
    BY <1>1 DEF RecvHeader
  <2>3. reader_pc' = IF len > SlotBytes THEN "retry" ELSE "payload"
    BY <1>1 DEF RecvHeader, ReaderMoves
  <2>4. TypeOK'
    BY <1>1, <2>1, <2>2, <2>3
    DEF RecvHeader, ReaderMoves, workVars, IInv, TypeOK, ReaderPcs
  <2>5. FrameFits'
    BY <1>1, <2>1, <2>3, SourceAssumption
    DEF RecvHeader, IInv, TypeOK, Bytes, FrameFits
  <2>6. RingAgrees' /\ ReaderHasRoom'
    BY <1>1, <2>3
    DEF RecvHeader, ReaderMoves, IInv, RingAgrees, Between, ReaderHasRoom
  <2>. QED
    BY <1>1, <2>3, <2>4, <2>5, <2>6
    DEF RecvHeader, ReaderMoves, workVars, IInv, WorkHasSlot, WorkInSlot,
        OffsetInSlot, StoppedIsDone, CallFits
<1>2. CASE RecvByte
  <2>1. /\ frame_len \in 1 .. SlotBytes /\ got \in 0 .. SlotBytes
        /\ got < frame_len /\ got <= arrived
        /\ arrived \in 0 .. MaxBytes /\ arrived + (frame_len - got) <= MaxBytes
    BY <1>2 DEF RecvByte, ReaderMoves, IInv, TypeOK, Bytes, FrameFits
  <2>2. /\ got' = got + 1 /\ arrived' = arrived + 1
        /\ frame_len' = frame_len
        /\ reader_pc' = IF got + 1 = frame_len THEN "publish" ELSE "payload"
    BY <1>2 DEF RecvByte, ReaderMoves
  <2>3. d_ring' \in [Slots -> [1 .. SlotBytes -> Bytes]]
    <3>1. arrived + 1 \in Bytes
      BY <2>1, SourceAssumption DEF Bytes
    <3>. QED  BY <1>2, <3>1 DEF RecvByte, IInv, TypeOK
  <2>4. TypeOK'
    <3>1. got' \in 0 .. SlotBytes /\ arrived' \in Bytes
      BY <2>1, <2>2, SourceAssumption DEF Bytes
    <3>. QED
      BY <1>2, <2>2, <2>3, <3>1
      DEF RecvByte, ReaderMoves, workVars, IInv, TypeOK, ReaderPcs
  <2>5. FrameFits'
    BY <2>1, <2>2, SourceAssumption DEF FrameFits
  <2>6. RingAgrees' /\ ReaderHasRoom'
    BY <1>2, <2>2
    DEF RecvByte, ReaderMoves, IInv, RingAgrees, Between, ReaderHasRoom
  <2>. QED
    BY <1>2, <2>2, <2>4, <2>5, <2>6
    DEF RecvByte, ReaderMoves, workVars, IInv, WorkHasSlot, WorkInSlot,
        OffsetInSlot, StoppedIsDone, CallFits
<1>3. CASE ReaderPublish
  <2>1. /\ d_write_idx' = IF d_write_idx + 1 = RingSize THEN 0 ELSE d_write_idx + 1
        /\ d_write_idx \in 0 .. RingSize - 1 /\ d_write_idx' \in 0 .. RingSize - 1
    <3>1. RingSize \in Nat \ {0} /\ d_write_idx \in 0 .. RingSize - 1
      BY SourceAssumption DEF IInv, TypeOK, Slots
    <3>2. d_write_idx' = (d_write_idx + 1) % RingSize
      BY <1>3 DEF ReaderPublish
    <3>3. d_write_idx' = IF d_write_idx + 1 = RingSize THEN 0 ELSE d_write_idx + 1
      BY <3>1, <3>2, NextIndex
    <3>. QED  BY <3>1, <3>3
  <2>2. /\ reader_pc = "publish" /\ reader_pc' = "count"
        /\ d_ring_count' = d_ring_count /\ d_read_idx' = d_read_idx
        /\ d_ring_count \in 0 .. RingSize - 1
        /\ d_read_idx \in 0 .. RingSize - 1
    BY <1>3, SourceAssumption
    DEF ReaderPublish, ReaderMoves, IInv, TypeOK, Slots, ReaderHasRoom
  <2>3. /\ d_ring_lens' = [d_ring_lens EXCEPT ![d_write_idx] = frame_len]
        /\ frame_len \in 1 .. SlotBytes
    BY <1>3 DEF ReaderPublish, ReaderMoves, IInv, FrameFits
  <2>4. TypeOK'
    <3>1. d_ring_lens' \in [Slots -> 0 .. SlotBytes] /\ d_write_idx' \in Slots
      BY <2>1, <2>3, SourceAssumption DEF IInv, TypeOK, Slots
    <3>. QED
      BY <1>3, <3>1 DEF ReaderPublish, ReaderMoves, workVars, IInv, TypeOK, ReaderPcs
  <2>5. RingAgrees'
    BY <2>1, <2>2, SourceAssumption DEF IInv, RingAgrees, Between
  <2>6. OffsetInSlot'
    <3>1. d_write_idx = d_read_idx => d_ring_count = 0
      BY <2>1, <2>2, SourceAssumption DEF IInv, RingAgrees, Between
    <3>2. d_ring_lens'[d_read_idx] = IF d_write_idx = d_read_idx THEN frame_len
                                     ELSE d_ring_lens[d_read_idx]
      BY <2>2, <2>3 DEF IInv, TypeOK, Slots
    <3>. QED
      BY <1>3, <2>2, <2>3, <3>1, <3>2, SourceAssumption
      DEF ReaderPublish, ReaderMoves, workVars, IInv, OffsetInSlot
  <2>. QED
    BY <1>3, <2>2, <2>4, <2>5, <2>6, SourceAssumption
    DEF ReaderPublish, ReaderMoves, workVars, IInv, ReaderHasRoom, WorkHasSlot,
        WorkInSlot, FrameFits, StoppedIsDone, CallFits
<1>4. CASE ReaderCount
  <2>1. /\ reader_pc = "count" /\ reader_pc' = "loop"
        /\ d_ring_count \in 0 .. RingSize - 1 /\ d_ring_count' = d_ring_count + 1
        /\ frame_len \in 1 .. SlotBytes /\ frame_len <= arrived
        /\ arrived \in 0 .. MaxBytes
    BY <1>4, SourceAssumption
    DEF ReaderCount, ReaderMoves, IInv, TypeOK, Bytes, ReaderHasRoom, FrameFits
  <2>2. accepted' \in Seq(Bytes)
    <3>. DEFINE frame == [b \in 1 .. frame_len |-> arrived - frame_len + b]
    <3>1. frame \in Seq(Bytes)
      BY <2>1, SourceAssumption DEF Bytes
    <3>. QED  BY <1>4, <3>1, ConcatProperties DEF ReaderCount, IInv, TypeOK
  <2>3. TypeOK'
    BY <1>4, <2>1, <2>2, SourceAssumption
    DEF ReaderCount, ReaderMoves, workVars, IInv, TypeOK, ReaderPcs
  <2>4. RingAgrees'
    BY <1>4, <2>1 DEF ReaderCount, ReaderMoves, IInv, RingAgrees, Between
  <2>. QED
    BY <1>4, <2>1, <2>3, <2>4, SourceAssumption
    DEF ReaderCount, ReaderMoves, workVars, IInv, ReaderHasRoom, WorkHasSlot,
        WorkInSlot, OffsetInSlot, FrameFits, StoppedIsDone, CallFits
<1>. QED  BY <1>1, <1>2, <1>3, <1>4

\* A stuttering step preserves the invariant.
LEMMA StutterIInv == IInv /\ UNCHANGED vars => IInv'
BY DEF vars, ringVars, workVars, readerVars, history, IInv, TypeOK,
      RingAgrees, Between, ReaderHasRoom, WorkHasSlot, WorkInSlot,
      OffsetInSlot, FrameFits, StoppedIsDone, CallFits

\* The strengthened invariant holds in every state of the block.
THEOREM Invariance == Spec => []IInv
<1>1. IInv /\ [Next]_vars => IInv'
  BY ControlIInv, WorkIInv, WaitIInv, ReceiveIInv, StutterIInv
  DEF Next, ReaderStep, Peer
<1>. QED  BY InitIInv, <1>1, PTL DEF Spec

-----------------------------------------------------------------------------
(* The theorems.                                                           *)

\* Every variable keeps its type: the indices and the count never leave the
\* ring, a frame never runs over its slot, an offset never leaves its slot.
THEOREM TypeCorrect == Spec => []TypeOK
<1>1. IInv => TypeOK
  BY DEF IInv
<1>. QED  BY Invariance, <1>1, PTL

\* recv() never writes to the slot that memcpy() reads, for any ring size: where
\* both threads are in a slot, the ring is neither full nor empty, so that the
\* indices differ.
THEOREM SlotsExclusive == Spec => []SlotExclusion
<1>1. IInv => SlotExclusion
  <2>. SUFFICES ASSUME IInv, ReaderInSlot, WorkInSlot
                PROVE  d_write_idx # d_read_idx
    BY DEF SlotExclusion
  <2>1. /\ d_ring_count \in Nat /\ 0 < d_ring_count /\ d_ring_count < RingSize
        /\ d_read_idx \in Int /\ RingSize \in Int
    BY SourceAssumption
    DEF IInv, TypeOK, Slots, ReaderHasRoom, WorkHasSlot, ReaderInSlot
  <2>2. \/ d_write_idx = d_read_idx + d_ring_count
        \/ d_write_idx = d_read_idx + d_ring_count - RingSize
    BY DEF IInv, RingAgrees, Between, ReaderInSlot
  <2>. QED  BY <2>1, <2>2
<1>. QED  BY Invariance, <1>1, PTL

(***************************************************************************)
(* 2. The order of the output: where each accepted byte is at any moment.  *)
(***************************************************************************)

-----------------------------------------------------------------------------
(* The inductive invariant.                                                *)

\* The index j slots after the one work() drains.
After(j) == IF d_read_idx + j >= RingSize THEN d_read_idx + j - RingSize
            ELSE d_read_idx + j

\* Bytes gone of the slot at d_read_idx; the offset of a freed slot is reset
\* one step after the index has moved.
Drained == IF work_pc = "notify" THEN 0 ELSE d_drain_offset

FreeIsDrained == work_pc = "free" => d_drain_offset = d_ring_lens[d_read_idx]

\* The frame being received is in the slot after the committed ones.
FrameIsKept ==
  reader_pc \in {"payload", "publish", "count"} =>
    /\ got <= arrived
    /\ \A b \in 1 .. SlotBytes :
         b <= got => d_ring[After(d_ring_count)][b] = arrived - got + b
    /\ reader_pc # "payload" => got = frame_len
    /\ reader_pc = "count" => d_ring_lens[After(d_ring_count)] = frame_len

\* pos says how many accepted bytes precede the slot j after the first one:
\* the slots hold the accepted bytes that have not been produced, in order.
Places(pos) ==
  /\ pos[0] + Drained = Len(out)
  /\ pos[d_ring_count] = Len(accepted)
  /\ \A j \in 0 .. RingSize - 1 :
       j < d_ring_count =>
         /\ pos[j + 1] = pos[j] + d_ring_lens[After(j)]
         /\ pos[j + 1] <= Len(accepted)
         /\ \A b \in 1 .. SlotBytes :
              b <= d_ring_lens[After(j)] =>
                d_ring[After(j)][b] = accepted[pos[j] + b]

SlotsAreAccepted == \E pos \in [0 .. RingSize -> Nat] : Places(pos)

StreamInv ==
  /\ FreeIsDrained
  /\ FrameIsKept
  /\ SlotsAreAccepted
  /\ OutIsPrefix

-----------------------------------------------------------------------------
(* Lemmas.                                                                 *)

\* Different numbers of slots below the size of the ring are different slots.
LEMMA AfterDiffers ==
  ASSUME TypeOK, NEW i \in 0 .. RingSize - 1, NEW j \in 0 .. RingSize - 1
  PROVE  /\ After(i) \in Slots
         /\ i # j => After(i) # After(j)
<1>1. RingSize \in Nat \ {0} /\ d_read_idx \in 0 .. RingSize - 1
  BY SourceAssumption DEF TypeOK, Slots
<1>. QED  BY <1>1 DEF Slots, After

\* The slot being received into is the one after the committed ones.
LEMMA WriteIsAfter ==
  ASSUME IInv, d_ring_count < RingSize, reader_pc # "count"
  PROVE  d_write_idx = After(d_ring_count)
BY SourceAssumption DEF IInv, TypeOK, Slots, RingAgrees, Between, After

\* A step that leaves the ring and the histories alone preserves what is said
\* of them.
LEMMA RingUntouched ==
  ASSUME StreamInv,
         UNCHANGED <<d_ring, d_ring_lens, d_read_idx, d_ring_count, accepted, out>>,
         Drained' = Drained, FreeIsDrained', FrameIsKept'
  PROVE  StreamInv'
<1>1. SlotsAreAccepted'
  <2>1. PICK pos \in [0 .. RingSize -> Nat] : Places(pos)
    BY DEF StreamInv, SlotsAreAccepted
  <2>2. Places(pos)'
    BY <2>1 DEF Places, After
  <2>. QED  BY <2>2 DEF SlotsAreAccepted
<1>. QED  BY <1>1 DEF StreamInv, OutIsPrefix

\* So does a step of the reader or of stop() that keeps the frame, or drops it.
LEMMA ReaderUntouched ==
  ASSUME StreamInv,
         UNCHANGED <<d_ring, d_ring_lens, d_read_idx, d_ring_count, accepted, out,
                     work_pc, d_drain_offset, arrived>>,
         \/ UNCHANGED <<reader_pc, frame_len, got>>
         \/ reader_pc' \notin {"payload", "publish", "count"}
  PROVE  StreamInv'
<1>1. Drained' = Drained /\ FreeIsDrained'
  BY DEF Drained, StreamInv, FreeIsDrained
<1>2. FrameIsKept'
  BY DEF StreamInv, FrameIsKept, After
<1>. QED  BY <1>1, <1>2, RingUntouched

\* So does a step of work() that moves it between places where it holds no
\* drained slot.
LEMMA WorkUntouched ==
  ASSUME StreamInv,
         UNCHANGED <<d_ring, d_ring_lens, d_read_idx, d_ring_count, accepted, out,
                     d_drain_offset, arrived, reader_pc, frame_len, got>>,
         work_pc # "notify", work_pc' \notin {"free", "notify"}
  PROVE  StreamInv'
<1>1. Drained' = Drained /\ FreeIsDrained'
  BY DEF Drained, FreeIsDrained
<1>2. FrameIsKept'
  BY DEF StreamInv, FrameIsKept, After
<1>. QED  BY <1>1, <1>2, RingUntouched

\* The produced bytes end within what is accepted.
LEMMA OutWithinAccepted ==
  ASSUME IInv, FreeIsDrained,
         NEW pos \in [0 .. RingSize -> Nat], Places(pos)
  PROVE  Len(out) <= Len(accepted)
<1>1. /\ RingSize \in Nat \ {0} /\ d_ring_count \in 0 .. RingSize
      /\ Len(out) \in Nat /\ Len(accepted) \in Nat /\ d_drain_offset \in Nat
      /\ d_read_idx \in 0 .. RingSize - 1
  BY SourceAssumption DEF IInv, TypeOK, Slots
<1>2. CASE d_ring_count = 0
  <2>1. Drained = 0
    BY <1>2 DEF IInv, OffsetInSlot, Drained
  <2>. QED  BY <1>1, <1>2, <2>1 DEF Places
<1>3. CASE d_ring_count > 0
  <2>1. After(0) = d_read_idx
    BY <1>1 DEF After
  <2>2. Drained \in Nat /\ Drained <= d_ring_lens[d_read_idx]
        /\ d_ring_lens[d_read_idx] \in Nat
    BY <1>1, SourceAssumption DEF Drained, IInv, TypeOK, Slots, OffsetInSlot
  <2>3. pos[0] + d_ring_lens[d_read_idx] <= Len(accepted) /\ pos[0] \in Nat
    BY <1>1, <1>3, <2>1 DEF Places
  <2>. QED  BY <1>1, <2>2, <2>3 DEF Places
<1>. QED  BY <1>1, <1>2, <1>3

-----------------------------------------------------------------------------
(* The invariant is inductive.                                             *)

\* Nothing has been accepted at the start.
LEMMA InitStream == Init => StreamInv
<1>. SUFFICES ASSUME Init  PROVE StreamInv
  OBVIOUS
<1>1. SlotsAreAccepted
  <2>1. [j \in 0 .. RingSize |-> 0] \in [0 .. RingSize -> Nat]
    OBVIOUS
  <2>2. Places([j \in 0 .. RingSize |-> 0])
    BY SourceAssumption DEF Init, Places, Drained
  <2>. QED  BY <2>1, <2>2 DEF SlotsAreAccepted
<1>. QED
  BY <1>1, SourceAssumption
  DEF Init, StreamInv, FreeIsDrained, FrameIsKept, OutIsPrefix

\* start() forgets the slots; stop() touches none of them.
LEMMA ControlStream ==
  ASSUME IInv, StreamInv, Control  PROVE StreamInv'
<1>1. CASE Start
  <2>1. /\ d_ring_count' = 0 /\ d_drain_offset' = 0 /\ work_pc' = "ready"
        /\ reader_pc' = "loop" /\ accepted' = <<>> /\ out' = <<>>
    BY <1>1 DEF Start, workVars
  <2>2. SlotsAreAccepted'
    <3>1. [j \in 0 .. RingSize |-> 0] \in [0 .. RingSize -> Nat]
      OBVIOUS
    <3>2. Places([j \in 0 .. RingSize |-> 0])'
      BY <2>1, SourceAssumption DEF Places, Drained
    <3>. QED  BY <3>1, <3>2 DEF SlotsAreAccepted
  <2>. QED
    BY <2>1, <2>2 DEF StreamInv, FreeIsDrained, FrameIsKept, OutIsPrefix
<1>2. CASE StopSignal
  BY <1>2, ReaderUntouched
  DEF StopSignal, ringVars, workVars, readerVars, history
<1>3. CASE StopNotify
  BY <1>3, ReaderUntouched DEF StopNotify, ringVars, workVars, history
<1>4. CASE StopJoin
  BY <1>4, ReaderUntouched
  DEF StopJoin, ringVars, workVars, readerVars, history
<1>. QED  BY <1>1, <1>2, <1>3, <1>4 DEF Control

\* What a call of work() takes of a slot, and what it leaves of it.
LEMMA DrainFacts ==
  ASSUME IInv, WorkDrain
  PROVE  /\ DrainChunk \in Nat
         /\ d_drain_offset + DrainChunk <= d_ring_lens[d_read_idx]
         /\ d_ring_lens[d_read_idx] \in 0 .. SlotBytes
         /\ d_ring_count \in 1 .. RingSize
         /\ d_drain_offset \in 0 .. SlotBytes
<1>1. /\ d_ring_lens[d_read_idx] \in 0 .. SlotBytes
      /\ d_drain_offset \in 0 .. d_ring_lens[d_read_idx]
      /\ d_ring_count \in 1 .. RingSize
  BY SourceAssumption
  DEF WorkDrain, WorkMoves, IInv, TypeOK, OffsetInSlot, WorkHasSlot, WorkInSlot, Slots
<1>. DEFINE most == Smaller(d_ring_lens[d_read_idx] - d_drain_offset, needed)
<1>2. most \in Nat /\ most <= d_ring_lens[d_read_idx] - d_drain_offset
  BY <1>1 DEF Smaller, IInv, TypeOK
<1>3. DrainChunk \in 0 .. most
  BY <1>2, WholeItems, SourceAssumption DEF DrainChunk
<1>. QED  BY <1>1, <1>2, <1>3, SourceAssumption DEF IInv, TypeOK

\* work() produces the first bytes of the first slot, and frees it when they
\* are its last.
LEMMA WorkStream ==
  ASSUME IInv, StreamInv, Work  PROVE StreamInv'
<1>1. ASSUME NEW n \in 1 .. MaxCall, WorkCall(n)  PROVE StreamInv'
  BY <1>1, WorkUntouched DEF WorkCall, WorkMoves
<1>2. CASE WorkPeek
  BY <1>2, WorkUntouched DEF WorkPeek, WorkMoves
<1>3. CASE WorkDrain
  <2>. DEFINE chunk == DrainChunk
              len   == d_ring_lens[d_read_idx]
              piece == SubSeq(d_ring[d_read_idx], d_drain_offset + 1,
                              d_drain_offset + chunk)
  <2>1. /\ chunk \in Nat /\ d_drain_offset + chunk <= len
        /\ len \in 0 .. SlotBytes /\ d_ring_count \in 1 .. RingSize
        /\ d_drain_offset \in 0 .. SlotBytes
    BY <1>3, DrainFacts
  <2>2. /\ UNCHANGED <<d_ring, d_ring_lens, d_read_idx, d_ring_count, accepted,
                       arrived, reader_pc, frame_len, got>>
        /\ work_pc = "drain" /\ work_pc' \in {"end", "free"}
        /\ work_pc' = "free" => d_drain_offset + chunk >= len
        /\ d_drain_offset' = d_drain_offset + chunk
        /\ out' = out \o piece
    BY <1>3 DEF WorkDrain, WorkMoves
  <2>3. /\ out \in Seq(Bytes) /\ Len(out) \in Nat /\ Len(accepted) \in Nat
        /\ d_read_idx \in 0 .. RingSize - 1 /\ RingSize \in Nat \ {0}
    BY SourceAssumption DEF IInv, TypeOK, Slots
  <2>4. /\ piece \in Seq(Bytes) /\ Len(piece) = chunk
        /\ \A b \in 1 .. chunk : piece[b] = d_ring[d_read_idx][d_drain_offset + b]
    <3>1. \A b \in d_drain_offset + 1 .. d_drain_offset + chunk :
            d_ring[d_read_idx][b] \in Bytes
      BY <2>1, <2>3, SourceAssumption DEF IInv, TypeOK, Slots
    <3>. HIDE DEF chunk
    <3>2. piece \in Seq(Bytes)
      BY <2>1, <3>1, SubSeqProperties
    <3>3. Len(piece) = chunk
          /\ \A b \in 1 .. chunk : piece[b] = d_ring[d_read_idx][d_drain_offset + b]
      BY <2>1, <3>1, SubSeqProperties
    <3>. QED  BY <3>2, <3>3
  <2>. HIDE DEF piece, chunk
  <2>5. /\ Len(out') = Len(out) + chunk
        /\ \A b \in 1 .. Len(out) : out'[b] = out[b]
        /\ \A b \in 1 .. chunk : out'[Len(out) + b] = piece[b]
    <3>1. /\ Len(out \o piece) = Len(out) + Len(piece)
          /\ \A b \in 1 .. Len(out) + Len(piece) :
               (out \o piece)[b] = IF b <= Len(out) THEN out[b]
                                  ELSE piece[b - Len(out)]
      BY <2>3, <2>4, ConcatProperties
    <3>2. \A b \in 1 .. Len(out) : out'[b] = out[b]
      BY <2>1, <2>2, <2>3, <2>4, <3>1
    <3>3. ASSUME NEW b \in 1 .. chunk  PROVE out'[Len(out) + b] = piece[b]
      <4>1. Len(out) + b \in 1 .. Len(out) + Len(piece) /\ Len(out) + b > Len(out)
            /\ (Len(out) + b) - Len(out) = b
        BY <2>1, <2>3, <2>4
      <4>. QED  BY <2>2, <2>3, <3>1, <4>1
    <3>. QED  BY <2>2, <2>4, <3>1, <3>2, <3>3
  <2>6. PICK pos \in [0 .. RingSize -> Nat] : Places(pos)
    BY DEF StreamInv, SlotsAreAccepted
  <2>7. /\ After(0) = d_read_idx
        /\ pos[0] \in Nat /\ pos[0] + d_drain_offset = Len(out)
        /\ pos[0] + len <= Len(accepted)
        /\ \A b \in 1 .. SlotBytes : b <= len =>
             d_ring[d_read_idx][b] = accepted[pos[0] + b]
    <3>1. After(0) = d_read_idx
      BY <2>3 DEF After
    <3>2. /\ pos[0] + Drained = Len(out)
          /\ pos[0 + 1] = pos[0] + d_ring_lens[After(0)]
          /\ pos[0 + 1] <= Len(accepted)
          /\ \A b \in 1 .. SlotBytes :
               b <= d_ring_lens[After(0)] => d_ring[After(0)][b] = accepted[pos[0] + b]
      BY <2>1, <2>3, <2>6 DEF Places
    <3>3. pos[0] \in Nat /\ Drained = d_drain_offset
      BY <2>2, <2>3 DEF Drained
    <3>. QED  BY <3>1, <3>2, <3>3
  <2>8. Places(pos)'
    <3>1. pos[0] + Drained' = Len(out')
      BY <2>1, <2>2, <2>3, <2>5, <2>7 DEF Drained
    <3>. QED  BY <2>2, <2>6, <3>1 DEF Places, After
  <2>9. OutIsPrefix'
    <3>1. Len(out') <= Len(accepted')
      BY <2>1, <2>2, <2>3, <2>5, <2>7
    <3>2. ASSUME NEW b \in 1 .. Len(out')  PROVE out'[b] = accepted[b]
      <4>1. CASE b <= Len(out)
        <5>1. b \in 1 .. Len(out)
          BY <2>3, <4>1
        <5>2. out'[b] = out[b]
          BY <2>5, <5>1
        <5>3. out[b] = accepted[b]
          BY <5>1 DEF StreamInv, OutIsPrefix
        <5>. QED  BY <5>2, <5>3
      <4>2. CASE b > Len(out)
        <5>. DEFINE c == b - Len(out)
        <5>1. c \in 1 .. chunk /\ b = Len(out) + c
          BY <2>1, <2>3, <2>5, <4>2
        <5>2. out'[b] = d_ring[d_read_idx][d_drain_offset + c]
          BY <2>4, <2>5, <5>1
        <5>3. /\ d_drain_offset + c \in 1 .. SlotBytes /\ d_drain_offset + c <= len
              /\ pos[0] + (d_drain_offset + c) = b
          <6>1. pos[0] \in Nat /\ pos[0] + d_drain_offset = Len(out)
            BY <2>7
          <6>2. c \in Nat /\ 1 <= c /\ c <= chunk /\ chunk \in Nat
            BY <2>1, <5>1
          <6>. HIDE DEF c, len
          <6>3. d_drain_offset + c <= len /\ len <= SlotBytes
            BY <2>1, <6>2, SourceAssumption
          <6>. QED  BY <2>1, <2>3, <5>1, <6>1, <6>2, <6>3, SourceAssumption
        <5>. QED  BY <2>7, <5>2, <5>3
      <4>. QED  BY <2>3, <2>5, <4>1, <4>2
    <3>. QED  BY <2>2, <3>1, <3>2 DEF OutIsPrefix
  <2>10. FreeIsDrained' /\ FrameIsKept'
    <3>1. FreeIsDrained'
      BY <2>1, <2>2 DEF FreeIsDrained
    <3>2. FrameIsKept'
      BY <2>2 DEF StreamInv, FrameIsKept, After
    <3>. QED  BY <3>1, <3>2
  <2>. QED  BY <2>8, <2>9, <2>10 DEF StreamInv, SlotsAreAccepted
<1>4. CASE WorkFree
  <2>1. /\ UNCHANGED <<d_ring, d_ring_lens, d_drain_offset, accepted, out,
                       arrived, reader_pc, frame_len, got>>
        /\ work_pc = "free" /\ work_pc' = "notify"
        /\ d_read_idx' = (d_read_idx + 1) % RingSize
        /\ d_ring_count' = d_ring_count - 1
    BY <1>4 DEF WorkFree, WorkMoves
  <2>2. /\ RingSize \in Nat \ {0} /\ d_read_idx \in 0 .. RingSize - 1
        /\ d_ring_count \in 1 .. RingSize
        /\ d_read_idx' = IF d_read_idx + 1 = RingSize THEN 0 ELSE d_read_idx + 1
    <3>1. /\ RingSize \in Nat \ {0} /\ d_read_idx \in 0 .. RingSize - 1
          /\ d_ring_count \in 1 .. RingSize
      BY <2>1, SourceAssumption
      DEF IInv, TypeOK, Slots, WorkHasSlot, WorkInSlot
    <3>. QED  BY <2>1, <3>1, NextIndex
  <2>3. /\ \A j \in 0 .. RingSize - 1 :
             j + 1 <= RingSize - 1 => After(j)' = After(j + 1)
        /\ After(0) = d_read_idx
    BY <2>2 DEF After
  <2>4. PICK pos \in [0 .. RingSize -> Nat] : Places(pos)
    BY DEF StreamInv, SlotsAreAccepted
  <2>. DEFINE next == [j \in 0 .. RingSize |-> IF j < RingSize THEN pos[j + 1] ELSE 0]
  <2>5. next \in [0 .. RingSize -> Nat]
    BY <2>2, <2>4
  <2>6. Places(next)'
    <3>1. next[0] + Drained' = Len(out')
      <4>1. pos[1] = pos[0] + d_ring_lens[d_read_idx]
        <5>1. pos[0 + 1] = pos[0] + d_ring_lens[After(0)]
          BY <2>2, <2>4 DEF Places
        <5>. QED  BY <2>3, <5>1
      <4>2. pos[0] + d_drain_offset = Len(out)
            /\ d_drain_offset = d_ring_lens[d_read_idx]
        BY <2>1, <2>4 DEF Places, Drained, StreamInv, FreeIsDrained
      <4>3. Drained' = 0 /\ next[0] = pos[1] /\ pos[1] \in Nat
        BY <2>1, <2>2, <2>4 DEF Drained
      <4>. QED  BY <2>1, <4>1, <4>2, <4>3
    <3>2. next[d_ring_count'] = Len(accepted')
      BY <2>1, <2>2, <2>4 DEF Places
    <3>3. ASSUME NEW j \in 0 .. RingSize - 1, j < d_ring_count'
          PROVE  /\ next[j + 1] = next[j] + d_ring_lens[After(j)']
                 /\ next[j + 1] <= Len(accepted)
                 /\ \A b \in 1 .. SlotBytes :
                      b <= d_ring_lens[After(j)'] =>
                        d_ring[After(j)'][b] = accepted[next[j] + b]
      <4>1. /\ j + 1 \in 0 .. RingSize - 1 /\ j + 1 < d_ring_count
            /\ After(j)' = After(j + 1)
        BY <2>1, <2>2, <2>3, <3>3
      <4>2. next[j] = pos[j + 1] /\ next[j + 1] = pos[(j + 1) + 1]
        BY <2>2, <4>1
      <4>. QED  BY <2>4, <4>1, <4>2 DEF Places
    <3>. HIDE DEF next
    <3>. QED  BY <2>1, <3>1, <3>2, <3>3 DEF Places
  <2>7. FrameIsKept'
    <3>1. reader_pc \in {"payload", "publish", "count"} =>
            After(d_ring_count)' = After(d_ring_count)
      BY <2>1, <2>2, <2>3 DEF IInv, ReaderHasRoom, After
    <3>. QED  BY <2>1, <3>1 DEF StreamInv, FrameIsKept
  <2>. QED
    BY <2>1, <2>5, <2>6, <2>7
    DEF StreamInv, FreeIsDrained, SlotsAreAccepted, OutIsPrefix
<1>5. CASE WorkNotify
  <2>1. /\ UNCHANGED <<d_ring, d_ring_lens, d_read_idx, d_ring_count, accepted,
                       out, arrived, frame_len, got>>
        /\ work_pc = "notify" /\ work_pc' \in {"peek", "end"}
        /\ d_drain_offset' = 0
        /\ \/ UNCHANGED reader_pc
           \/ reader_pc' \notin {"payload", "publish", "count"}
    BY <1>5 DEF WorkNotify, WorkMoves
  <2>2. Drained' = Drained /\ FreeIsDrained'
    BY <2>1 DEF Drained, FreeIsDrained
  <2>3. FrameIsKept'
    BY <2>1 DEF StreamInv, FrameIsKept, After
  <2>. QED  BY <2>1, <2>2, <2>3, RingUntouched
<1>6. CASE WorkEnd
  BY <1>6, WorkUntouched DEF WorkEnd, WorkMoves
<1>. QED
  BY <1>1, <1>2, <1>3, <1>4, <1>5, <1>6 DEF Work, WorkStep

\* The reader fills the slot after the committed ones, and commits it with the
\* bytes it adds to the accepted ones.
LEMMA ReaderStream ==
  ASSUME IInv, StreamInv, ReaderStep \/ ReaderSpurious \/ Peer
  PROVE  StreamInv'
<1>1. CASE ReaderLoop \/ ReaderPred \/ ReaderPark \/ ReaderSpurious
           \/ ReaderAwake \/ ReaderRetry \/ RecvFail
  <2>1. /\ UNCHANGED <<d_ring, d_ring_lens, d_read_idx, d_ring_count, accepted,
                       out, work_pc, d_drain_offset, arrived>>
        /\ \/ UNCHANGED <<reader_pc, frame_len, got>>
           \/ reader_pc' \notin {"payload", "publish", "count"}
    BY <1>1
    DEF ReaderLoop, ReaderPred, ReaderPark, ReaderSpurious, ReaderAwake,
        ReaderRetry, RecvFail, ReaderMoves, workVars
  <2>. QED  BY <2>1, ReaderUntouched
<1>2. ASSUME NEW len \in FrameLens, RecvHeader(len)  PROVE StreamInv'
  <2>1. /\ UNCHANGED <<d_ring, d_ring_lens, d_read_idx, d_ring_count, accepted,
                       out, work_pc, d_drain_offset, arrived>>
        /\ got' = 0 /\ reader_pc' \in {"retry", "payload"}
    BY <1>2 DEF RecvHeader, ReaderMoves, workVars
  <2>2. Drained' = Drained /\ FreeIsDrained'
    BY <2>1 DEF Drained, StreamInv, FreeIsDrained
  <2>3. FrameIsKept'
    BY <2>1 DEF FrameIsKept, IInv, TypeOK, Bytes
  <2>. QED  BY <2>1, <2>2, <2>3, RingUntouched
<1>3. CASE RecvByte
  <2>1. /\ UNCHANGED <<d_ring_lens, d_read_idx, d_ring_count, accepted, out,
                       work_pc, d_drain_offset, frame_len>>
        /\ reader_pc = "payload"
        /\ reader_pc' = IF got + 1 = frame_len THEN "publish" ELSE "payload"
        /\ d_ring' = [d_ring EXCEPT ![d_write_idx][got + 1] = arrived + 1]
        /\ got' = got + 1 /\ arrived' = arrived + 1
    BY <1>3 DEF RecvByte, ReaderMoves, workVars
  <2>2. /\ RingSize \in Nat \ {0} /\ d_ring_count \in 0 .. RingSize - 1
        /\ d_read_idx \in 0 .. RingSize - 1
        /\ frame_len \in 1 .. SlotBytes /\ got \in Nat /\ got < frame_len
        /\ arrived \in Nat /\ SlotBytes \in Nat
    BY <2>1, SourceAssumption
    DEF IInv, TypeOK, Slots, Bytes, ReaderHasRoom, FrameFits
  <2>3. d_write_idx = After(d_ring_count)
    BY <2>1, <2>2, WriteIsAfter
  <2>4. /\ \A i \in Slots : i # d_write_idx => d_ring'[i] = d_ring[i]
        /\ \A b \in 1 .. SlotBytes :
             d_ring'[d_write_idx][b] = IF b = got + 1 THEN arrived + 1
                                       ELSE d_ring[d_write_idx][b]
    BY <2>1, <2>2 DEF IInv, TypeOK
  <2>5. \A j \in 0 .. RingSize - 1 :
          j < d_ring_count => d_ring'[After(j)] = d_ring[After(j)]
    <3>. SUFFICES ASSUME NEW j \in 0 .. RingSize - 1, j < d_ring_count
                  PROVE  d_ring'[After(j)] = d_ring[After(j)]
      OBVIOUS
    <3>1. After(j) \in Slots /\ After(j) # d_write_idx
      BY <2>2, <2>3, AfterDiffers DEF IInv
    <3>. QED  BY <2>4, <3>1
  <2>6. SlotsAreAccepted'
    <3>1. PICK pos \in [0 .. RingSize -> Nat] : Places(pos)
      BY DEF StreamInv, SlotsAreAccepted
    <3>2. Places(pos)'
      BY <2>1, <2>5, <3>1 DEF Places, After, Drained
    <3>. QED  BY <3>2 DEF SlotsAreAccepted
  <2>7. FrameIsKept'
    <3>1. ASSUME NEW b \in 1 .. SlotBytes, b <= got'
          PROVE  d_ring'[d_write_idx][b] = arrived' - got' + b
      <4>1. got <= arrived
            /\ (b <= got => d_ring[d_write_idx][b] = arrived - got + b)
        BY <2>1, <2>3 DEF StreamInv, FrameIsKept
      <4>. QED  BY <2>1, <2>2, <2>4, <3>1, <4>1
    <3>2. got' <= arrived' /\ After(d_ring_count)' = d_write_idx
      BY <2>1, <2>2, <2>3 DEF StreamInv, FrameIsKept, After
    <3>. QED  BY <2>1, <2>2, <3>1, <3>2 DEF FrameIsKept
  <2>. QED
    BY <2>1, <2>6, <2>7 DEF StreamInv, FreeIsDrained, OutIsPrefix
<1>4. CASE ReaderPublish
  <2>1. /\ UNCHANGED <<d_ring, d_read_idx, d_ring_count, accepted, out, arrived,
                       work_pc, d_drain_offset, frame_len, got>>
        /\ reader_pc = "publish" /\ reader_pc' = "count"
        /\ d_ring_lens' = [d_ring_lens EXCEPT ![d_write_idx] = frame_len]
    BY <1>4 DEF ReaderPublish, ReaderMoves, workVars
  <2>2. /\ RingSize \in Nat \ {0} /\ d_ring_count \in 0 .. RingSize - 1
        /\ d_read_idx \in 0 .. RingSize - 1 /\ d_write_idx \in Slots
    BY <2>1, SourceAssumption DEF IInv, TypeOK, Slots, ReaderHasRoom
  <2>3. d_write_idx = After(d_ring_count)
    BY <2>1, <2>2, WriteIsAfter
  <2>4. /\ d_ring_lens'[d_write_idx] = frame_len
        /\ \A i \in Slots : i # d_write_idx => d_ring_lens'[i] = d_ring_lens[i]
    BY <2>1, <2>2 DEF IInv, TypeOK
  <2>5. \A j \in 0 .. RingSize - 1 :
          j < d_ring_count => d_ring_lens'[After(j)] = d_ring_lens[After(j)]
    <3>. SUFFICES ASSUME NEW j \in 0 .. RingSize - 1, j < d_ring_count
                  PROVE  d_ring_lens'[After(j)] = d_ring_lens[After(j)]
      OBVIOUS
    <3>1. After(j) \in Slots /\ After(j) # d_write_idx
      BY <2>2, <2>3, AfterDiffers DEF IInv
    <3>. QED  BY <2>4, <3>1
  <2>6. SlotsAreAccepted'
    <3>1. PICK pos \in [0 .. RingSize -> Nat] : Places(pos)
      BY DEF StreamInv, SlotsAreAccepted
    <3>2. Places(pos)'
      BY <2>1, <2>5, <3>1 DEF Places, After, Drained
    <3>. QED  BY <3>2 DEF SlotsAreAccepted
  <2>7. FrameIsKept'
    BY <2>1, <2>3, <2>4 DEF StreamInv, FrameIsKept, After
  <2>8. FreeIsDrained'
    <3>1. work_pc = "free" => d_read_idx = After(0) /\ d_ring_count > 0
      BY <2>2 DEF After, IInv, WorkHasSlot, WorkInSlot
    <3>2. work_pc = "free" => d_ring_lens'[d_read_idx] = d_ring_lens[d_read_idx]
      BY <2>2, <2>5, <3>1
    <3>. QED  BY <2>1, <3>2 DEF StreamInv, FreeIsDrained
  <2>. QED  BY <2>1, <2>6, <2>7, <2>8 DEF StreamInv, OutIsPrefix
<1>5. CASE ReaderCount
  <2>. DEFINE frame == [b \in 1 .. frame_len |-> arrived - frame_len + b]
              last  == Len(accepted)
  <2>1. /\ UNCHANGED <<d_ring, d_ring_lens, d_read_idx, out, arrived, work_pc,
                       d_drain_offset, frame_len, got>>
        /\ reader_pc = "count" /\ reader_pc' = "loop"
        /\ d_ring_count' = d_ring_count + 1
        /\ accepted' = accepted \o frame
    BY <1>5 DEF ReaderCount, ReaderMoves, workVars
  <2>2. /\ RingSize \in Nat \ {0} /\ d_ring_count \in 0 .. RingSize - 1
        /\ frame_len \in 1 .. SlotBytes /\ frame_len <= arrived
        /\ arrived \in 0 .. MaxBytes /\ SlotBytes \in Nat /\ MaxBytes \in Nat
        /\ accepted \in Seq(Bytes) /\ out \in Seq(Bytes)
    BY <2>1, SourceAssumption
    DEF IInv, TypeOK, Slots, Bytes, ReaderHasRoom, FrameFits
  <2>3. frame \in Seq(Bytes) /\ Len(frame) = frame_len
    BY <2>2 DEF Bytes
  <2>. HIDE DEF frame
  <2>4. /\ last \in Nat /\ Len(accepted') = last + frame_len
        /\ \A b \in 1 .. last : accepted'[b] = accepted[b]
        /\ \A b \in 1 .. frame_len : accepted'[last + b] = frame[b]
    <3>1. /\ Len(accepted \o frame) = Len(accepted) + Len(frame)
          /\ \A b \in 1 .. Len(accepted) + Len(frame) :
               (accepted \o frame)[b] = IF b <= Len(accepted) THEN accepted[b]
                                        ELSE frame[b - Len(accepted)]
      BY <2>2, <2>3, ConcatProperties
    <3>2. last \in Nat /\ frame_len \in Nat
      BY <2>2
    <3>3. \A b \in 1 .. last : accepted'[b] = accepted[b]
      BY <2>1, <2>3, <3>1, <3>2
    <3>4. ASSUME NEW b \in 1 .. frame_len
          PROVE  accepted'[last + b] = frame[b]
      <4>1. last + b \in 1 .. last + frame_len /\ ~(last + b <= last)
            /\ (last + b) - last = b
        BY <3>2
      <4>. QED  BY <2>1, <2>3, <3>1, <4>1
    <3>. QED  BY <2>1, <2>3, <3>1, <3>2, <3>3, <3>4
  <2>5. /\ d_ring_lens[After(d_ring_count)] = frame_len
        /\ \A b \in 1 .. frame_len :
             d_ring[After(d_ring_count)][b] = frame[b]
    BY <2>1, <2>2 DEF StreamInv, FrameIsKept, frame
  <2>6. PICK pos \in [0 .. RingSize -> Nat] : Places(pos)
    BY DEF StreamInv, SlotsAreAccepted
  <2>7. SlotsAreAccepted'
    <3>1. PICK next \in [0 .. RingSize -> Nat] :
            /\ next[d_ring_count + 1] = last + frame_len
            /\ \A j \in 0 .. RingSize : j # d_ring_count + 1 => next[j] = pos[j]
      <4>. DEFINE longer == [pos EXCEPT ![d_ring_count + 1] = last + frame_len]
      <4>1. /\ longer \in [0 .. RingSize -> Nat]
            /\ longer[d_ring_count + 1] = last + frame_len
            /\ \A j \in 0 .. RingSize : j # d_ring_count + 1 => longer[j] = pos[j]
        BY <2>2, <2>4, <2>6
      <4>. HIDE DEF longer
      <4>. QED  BY <4>1
    <3>2. next[0] + Drained' = Len(out')
      <4>1. next[0] = pos[0]
        BY <2>2, <3>1
      <4>2. pos[0] + Drained = Len(out) /\ Drained' = Drained
        BY <2>1, <2>6 DEF Places, Drained
      <4>. QED  BY <2>1, <4>1, <4>2
    <3>3. next[d_ring_count'] = Len(accepted')
      BY <2>1, <2>4, <3>1
    <3>4. ASSUME NEW j \in 0 .. RingSize - 1, j < d_ring_count'
          PROVE  /\ next[j + 1] = next[j] + d_ring_lens[After(j)]
                 /\ next[j + 1] <= Len(accepted')
                 /\ \A b \in 1 .. SlotBytes :
                      b <= d_ring_lens[After(j)] =>
                        d_ring[After(j)][b] = accepted'[next[j] + b]
      <4>1. CASE j < d_ring_count
        <5>1. /\ next[j] = pos[j] /\ next[j + 1] = pos[j + 1]
              /\ pos[j] \in Nat /\ pos[j + 1] \in Nat
          BY <2>2, <2>6, <3>1, <4>1
        <5>2. /\ pos[j + 1] = pos[j] + d_ring_lens[After(j)]
              /\ pos[j + 1] <= last
              /\ \A b \in 1 .. SlotBytes : b <= d_ring_lens[After(j)] =>
                   d_ring[After(j)][b] = accepted[pos[j] + b]
          BY <2>6, <4>1 DEF Places
        <5>3. d_ring_lens[After(j)] \in Nat
          BY AfterDiffers, SourceAssumption DEF IInv, TypeOK
        <5>4. \A b \in 1 .. SlotBytes : b <= d_ring_lens[After(j)] =>
                pos[j] + b \in 1 .. last
          BY <2>4, <5>1, <5>2, <5>3
        <5>5. next[j + 1] <= Len(accepted')
          BY <2>2, <2>4, <5>1, <5>2
        <5>. QED  BY <2>4, <5>1, <5>2, <5>4, <5>5
      <4>2. CASE j = d_ring_count
        <5>1. next[j] = last /\ next[j + 1] = last + frame_len
          <6>1. next[j] = pos[j] /\ j + 1 = d_ring_count + 1
            BY <2>2, <3>1, <4>2
          <6>2. pos[j] = last
            BY <2>6, <4>2 DEF Places
          <6>. QED  BY <3>1, <6>1, <6>2
        <5>2. next[j + 1] = next[j] + d_ring_lens[After(j)]
              /\ next[j + 1] <= Len(accepted')
          <6>1. d_ring_lens[After(j)] = frame_len
            BY <2>5, <4>2
          <6>2. last \in Nat /\ frame_len \in Nat /\ Len(accepted') = last + frame_len
            BY <2>2, <2>4
          <6>. QED  BY <5>1, <6>1, <6>2
        <5>3. ASSUME NEW b \in 1 .. SlotBytes, b <= d_ring_lens[After(j)]
              PROVE  d_ring[After(j)][b] = accepted'[next[j] + b]
          <6>1. b \in 1 .. frame_len
            BY <2>2, <2>5, <4>2, <5>3
          <6>. QED  BY <2>4, <2>5, <4>2, <5>1, <6>1
        <5>. QED  BY <5>2, <5>3
      <4>3. j < d_ring_count \/ j = d_ring_count
        BY <2>1, <2>2, <3>4
      <4>. QED  BY <4>1, <4>2, <4>3
    <3>5. Places(next)'
      BY <2>1, <3>2, <3>3, <3>4 DEF Places, After
    <3>. QED  BY <3>1, <3>5 DEF SlotsAreAccepted
  <2>8. OutIsPrefix'
    <3>1. /\ Len(out) \in Nat /\ Len(out) <= last
          /\ \A b \in 1 .. Len(out) : out[b] = accepted[b]
      BY <2>2 DEF StreamInv, OutIsPrefix
    <3>2. \A b \in 1 .. Len(out) : b \in 1 .. last
      BY <2>4, <3>1
    <3>3. \A b \in 1 .. Len(out) : out[b] = accepted'[b]
      BY <2>4, <3>1, <3>2
    <3>4. Len(out) <= Len(accepted')
      <4>1. frame_len \in Nat /\ last \in Nat /\ Len(accepted') = last + frame_len
        BY <2>2, <2>4
      <4>. HIDE DEF last
      <4>. QED  BY <3>1, <4>1
    <3>. QED  BY <2>1, <3>3, <3>4 DEF OutIsPrefix
  <2>. QED
    BY <2>1, <2>7, <2>8 DEF StreamInv, FreeIsDrained, FrameIsKept
<1>. QED
  BY <1>1, <1>2, <1>3, <1>4, <1>5 DEF ReaderStep, Peer

\* A step that changes nothing.
LEMMA StutterStream ==
  ASSUME StreamInv, UNCHANGED vars  PROVE StreamInv'
BY ReaderUntouched DEF vars, ringVars, workVars, readerVars, history

-----------------------------------------------------------------------------
(* The theorems.                                                           *)

\* The strengthened invariant holds in every state of the block.
THEOREM StreamInvariance == Spec => [](IInv /\ StreamInv)
<1>1. IInv /\ StreamInv /\ [Next]_vars => StreamInv'
  BY ControlStream, WorkStream, ReaderStream, StutterStream DEF Next
<1>. QED  BY Invariance, InitStream, <1>1, PTL DEF Spec

\* Over any cut of frames into slots and of slots into calls, what work()
\* produces is what the reader accepted since start(), in order and without a
\* gap: no byte of a frame cut short, of an earlier run or of a slot that is
\* being received into comes out.
THEOREM ProducedInOrder == Spec => []OutIsPrefix
<1>1. StreamInv => OutIsPrefix
  BY DEF StreamInv
<1>. QED  BY StreamInvariance, <1>1, PTL

(***************************************************************************)
(* 3. Zeros only between slots.                                            *)
(***************************************************************************)

-----------------------------------------------------------------------------
(* The inductive invariant.                                                *)

\* A number of bytes that is a number of whole items.
IsItems(n) == \E k \in Nat : n = k * SizeofShort

\* What every frame of the bridge is: its payload is made of whole samples.
FramesAreItems == \A len \in FrameLens : IsItems(len)

\* Every length that work() subtracts from another is in whole items.
LengthsAreItems ==
  /\ IsItems(needed) /\ IsItems(d_drain_offset) /\ IsItems(frame_len)
  /\ \A i \in Slots : IsItems(d_ring_lens[i])

\* A committed slot is never empty, and work() leaves none read to its end.
SlotsAreLeft ==
  /\ \A j \in 0 .. RingSize - 1 : j < d_ring_count => d_ring_lens[After(j)] > 0
  /\ (work_pc \notin {"free", "notify"} /\ d_ring_count > 0)
       => d_drain_offset < d_ring_lens[d_read_idx]

NeedsMore == work_pc \in {"peek", "drain"} => needed > 0

PadInv == LengthsAreItems /\ SlotsAreLeft /\ NeedsMore /\ PaddingBetweenSlots

-----------------------------------------------------------------------------
(* Lemmas.                                                                 *)

\* Whole items are not rounded.
LEMMA ItemsAreWhole ==
  ASSUME NEW n \in Nat, NEW size \in Nat \ {0}, NEW k \in Nat, n = k * size
  PROVE  (n \div size) * size = n
<1>. DEFINE q == n \div size
            r == n % size
<1>1. q \in Nat /\ r \in 0 .. size - 1 /\ n = size * q + r
  OBVIOUS
<1>. HIDE DEF q, r
<1>2. r = size * (k - q)
  BY <1>1
<1>3. CASE k - q = 0
  BY <1>1, <1>2, <1>3
<1>4. CASE k - q >= 1
  <2>1. size * (k - q) >= size
    BY <1>1, <1>4
  <2>. QED  BY <1>1, <1>2, <2>1
<1>5. CASE k - q <= -1
  <2>1. size * (k - q) <= -size
    BY <1>1, <1>5
  <2>. QED  BY <1>1, <1>2, <2>1
<1>6. q * size = n
  BY <1>1, <1>3, <1>4, <1>5
<1>. QED  BY <1>6 DEF q

\* Whole items more or less are whole items.
LEMMA ItemsAddUp ==
  ASSUME NEW m \in Nat, NEW n \in Nat, IsItems(m), IsItems(n)
  PROVE  /\ IsItems(m + n)
         /\ n <= m => IsItems(m - n)
<1>1. PICK i \in Nat : m = i * SizeofShort
  BY DEF IsItems
<1>2. PICK j \in Nat : n = j * SizeofShort
  BY DEF IsItems
<1>3. SizeofShort \in Nat \ {0}
  BY SourceAssumption
<1>4. m + n = (i + j) * SizeofShort /\ i + j \in Nat
  BY <1>1, <1>2, <1>3
<1>5. m - n = (i - j) * SizeofShort
  BY <1>1, <1>2, <1>3
<1>6. ASSUME n <= m  PROVE i - j \in Nat
  <2>1. CASE i - j <= -1
    <3>1. (i - j) * SizeofShort <= -SizeofShort
      BY <1>3, <2>1
    <3>. QED  BY <1>3, <1>5, <1>6, <3>1
  <2>. QED  BY <2>1
<1>. QED  BY <1>4, <1>5, <1>6 DEF IsItems

\* No item is no bytes.
LEMMA NoneIsItems == IsItems(0)
<1>1. 0 = 0 * SizeofShort
  BY SourceAssumption
<1>. QED  BY <1>1 DEF IsItems

\* Where work() is in a slot, it takes all it can of it, and that is something.
LEMMA DrainIsWhole ==
  ASSUME IInv, PadInv, WorkDrain
  PROVE  /\ DrainChunk = Smaller(d_ring_lens[d_read_idx] - d_drain_offset, needed)
         /\ DrainChunk \in Nat /\ DrainChunk > 0
         /\ IsItems(DrainChunk)
<1>. DEFINE len  == d_ring_lens[d_read_idx]
            most == Smaller(len - d_drain_offset, needed)
<1>1. /\ len \in Nat /\ d_drain_offset \in Nat /\ needed \in Nat
      /\ d_drain_offset < len /\ needed > 0
      /\ IsItems(len) /\ IsItems(d_drain_offset) /\ IsItems(needed)
  <2>1. /\ d_read_idx \in Slots /\ len \in Nat /\ d_drain_offset \in Nat
        /\ needed \in Nat
    BY SourceAssumption, CallBytesType DEF IInv, TypeOK, Slots
  <2>2. work_pc = "drain" /\ d_ring_count > 0
    BY DEF WorkDrain, WorkMoves, IInv, WorkHasSlot, WorkInSlot
  <2>. QED
    BY <2>1, <2>2 DEF PadInv, LengthsAreItems, SlotsAreLeft, NeedsMore
<1>2. IsItems(len - d_drain_offset) /\ len - d_drain_offset \in Nat
      /\ len - d_drain_offset > 0
  <2>1. IsItems(len - d_drain_offset)
    BY <1>1, ItemsAddUp, SMTT(40)
  <2>. QED  BY <1>1, <2>1
<1>. HIDE DEF len
<1>3. most \in Nat /\ most > 0 /\ IsItems(most)
  BY <1>1, <1>2 DEF Smaller
<1>. HIDE DEF most
<1>4. (most \div SizeofShort) * SizeofShort = most
  <2>1. PICK k \in Nat : most = k * SizeofShort
    BY <1>3 DEF IsItems
  <2>. QED  BY <1>3, <2>1, ItemsAreWhole, SourceAssumption
<1>5. DrainChunk = most
  BY <1>4 DEF DrainChunk, most, len
<1>. QED  BY <1>3, <1>5 DEF most, len

\* A step that leaves the ring and the calls alone preserves the invariant.
LEMMA PadUntouched ==
  ASSUME PadInv,
         UNCHANGED <<d_ring_lens, d_read_idx, d_ring_count, d_drain_offset,
                     work_pc, needed, produced>>,
         IsItems(frame_len')
  PROVE  PadInv'
BY DEF PadInv, LengthsAreItems, SlotsAreLeft, NeedsMore, PaddingBetweenSlots,
       After, IsItems

-----------------------------------------------------------------------------
(* The invariant is inductive.                                             *)

\* Nothing has been produced at the start.
LEMMA InitPad == Init => PadInv
<1>. SUFFICES ASSUME Init  PROVE PadInv
  OBVIOUS
<1>. QED
  BY NoneIsItems, SourceAssumption
  DEF Init, PadInv, LengthsAreItems, SlotsAreLeft, NeedsMore, PaddingBetweenSlots

\* start() and stop() produce nothing.
LEMMA ControlPad ==
  ASSUME IInv, PadInv, Control  PROVE PadInv'
<1>1. CASE Start
  <2>1. /\ d_ring_count' = 0 /\ d_drain_offset' = 0 /\ work_pc' = "ready"
        /\ UNCHANGED <<d_ring_lens, needed, produced, frame_len>>
    BY <1>1 DEF Start, workVars
  <2>2. LengthsAreItems'
    BY <2>1, NoneIsItems DEF PadInv, LengthsAreItems, IsItems
  <2>. QED
    BY <2>1, <2>2, SourceAssumption
    DEF PadInv, SlotsAreLeft, NeedsMore, PaddingBetweenSlots
<1>2. CASE StopSignal \/ StopNotify \/ StopJoin
  BY <1>2, PadUntouched
  DEF StopSignal, StopNotify, StopJoin, ringVars, workVars, readerVars, PadInv,
      LengthsAreItems
<1>. QED  BY <1>1, <1>2 DEF Control

\* Whatever work() takes it takes in whole items, and it ends a call with
\* nothing only where there is no slot.
LEMMA WorkPad ==
  ASSUME IInv, StreamInv, PadInv, Work  PROVE PadInv'
<1>0. RingSize \in Nat \ {0} /\ SizeofShort \in Nat \ {0} /\ MaxCall \in Nat \ {0}
  BY SourceAssumption
<1>1. ASSUME NEW n \in 1 .. MaxCall, WorkCall(n)  PROVE PadInv'
  <2>1. /\ UNCHANGED <<d_ring_lens, d_read_idx, d_ring_count, d_drain_offset,
                       frame_len>>
        /\ work_pc = "ready" /\ work_pc' = "peek"
        /\ needed' = n * SizeofShort
    BY <1>1 DEF WorkCall, WorkMoves
  <2>2. IsItems(needed')
    BY <1>0, <2>1 DEF IsItems
  <2>3. needed' > 0
    <3>1. n * SizeofShort = SizeofShort + (n - 1) * SizeofShort
          /\ (n - 1) * SizeofShort >= 0
      BY <1>0
    <3>. QED  BY <1>0, <2>1, <3>1
  <2>4. LengthsAreItems'
    BY <2>1, <2>2 DEF PadInv, LengthsAreItems, IsItems
  <2>. QED
    BY <2>1, <2>3, <2>4
    DEF PadInv, SlotsAreLeft, NeedsMore, PaddingBetweenSlots, After
<1>2. CASE WorkPeek
  <2>1. /\ UNCHANGED <<d_ring_lens, d_read_idx, d_ring_count, d_drain_offset,
                       frame_len, needed, produced>>
        /\ work_pc = "peek"
        /\ work_pc' = IF d_ring_count = 0 THEN "end" ELSE "drain"
    BY <1>2 DEF WorkPeek, WorkMoves
  <2>2. PaddingBetweenSlots'
    BY <2>1 DEF PaddingBetweenSlots, IInv, OffsetInSlot
  <2>. QED
    BY <2>1, <2>2
    DEF PadInv, LengthsAreItems, SlotsAreLeft, NeedsMore, After, IsItems
<1>3. CASE WorkDrain
  <2>. DEFINE chunk == DrainChunk
              len   == d_ring_lens[d_read_idx]
  <2>1. /\ chunk \in Nat /\ chunk > 0 /\ IsItems(chunk)
        /\ chunk = Smaller(len - d_drain_offset, needed)
    BY <1>3, DrainIsWhole
  <2>2. /\ UNCHANGED <<d_ring_lens, d_read_idx, d_ring_count, frame_len>>
        /\ work_pc = "drain"
        /\ work_pc' = IF chunk = 0 THEN "end"
                      ELSE IF d_drain_offset + chunk >= len THEN "free" ELSE "end"
        /\ d_drain_offset' = d_drain_offset + chunk
        /\ needed' = needed - chunk
        /\ produced' = produced + chunk
    BY <1>3 DEF WorkDrain, WorkMoves
  <2>3. /\ d_drain_offset \in Nat /\ needed \in Nat /\ produced \in Nat
        /\ len \in Nat
    BY SourceAssumption, CallBytesType DEF IInv, TypeOK, Slots
  <2>. HIDE DEF chunk, len
  <2>4. chunk <= needed
    BY <2>1, <2>3 DEF Smaller
  <2>5. LengthsAreItems'
    <3>1. IsItems(d_drain_offset + chunk) /\ IsItems(needed - chunk)
      BY <2>1, <2>3, <2>4, ItemsAddUp DEF PadInv, LengthsAreItems
    <3>. QED  BY <2>2, <3>1 DEF PadInv, LengthsAreItems, IsItems
  <2>6. SlotsAreLeft'
    BY <2>1, <2>2, <2>3 DEF PadInv, SlotsAreLeft, After, len
  <2>7. NeedsMore' /\ PaddingBetweenSlots'
    BY <2>1, <2>2, <2>3 DEF NeedsMore, PaddingBetweenSlots
  <2>. QED  BY <2>5, <2>6, <2>7 DEF PadInv
<1>4. CASE WorkFree
  <2>1. /\ UNCHANGED <<d_ring_lens, d_drain_offset, frame_len, needed, produced>>
        /\ work_pc = "free" /\ work_pc' = "notify"
        /\ d_read_idx' = (d_read_idx + 1) % RingSize
        /\ d_ring_count' = d_ring_count - 1
    BY <1>4 DEF WorkFree, WorkMoves
  <2>2. /\ d_read_idx \in 0 .. RingSize - 1 /\ d_ring_count \in 1 .. RingSize
        /\ d_read_idx' = IF d_read_idx + 1 = RingSize THEN 0 ELSE d_read_idx + 1
    <3>1. d_read_idx \in 0 .. RingSize - 1 /\ d_ring_count \in 1 .. RingSize
      BY <1>0, <2>1 DEF IInv, TypeOK, Slots, WorkHasSlot, WorkInSlot
    <3>. QED  BY <1>0, <2>1, <3>1, NextIndex
  <2>3. SlotsAreLeft'
    <3>. SUFFICES ASSUME NEW j \in 0 .. RingSize - 1, j < d_ring_count - 1
                  PROVE  d_ring_lens[After(j)'] > 0
      BY <2>1 DEF SlotsAreLeft
    <3>1. After(j)' = After(j + 1) /\ j + 1 \in 0 .. RingSize - 1
          /\ j + 1 < d_ring_count
      BY <1>0, <2>2 DEF After
    <3>. QED  BY <3>1 DEF PadInv, SlotsAreLeft
  <2>. QED
    BY <2>1, <2>3 DEF PadInv, LengthsAreItems, NeedsMore, PaddingBetweenSlots, IsItems
<1>5. CASE WorkNotify
  <2>1. /\ UNCHANGED <<d_ring_lens, d_read_idx, d_ring_count, frame_len, needed,
                       produced>>
        /\ work_pc = "notify" /\ d_drain_offset' = 0
        /\ work_pc' = IF needed > 0 THEN "peek" ELSE "end"
    BY <1>5 DEF WorkNotify, WorkMoves
  <2>2. LengthsAreItems'
    BY <2>1, NoneIsItems DEF PadInv, LengthsAreItems, IsItems
  <2>3. SlotsAreLeft'
    <3>1. After(0) = d_read_idx /\ 0 \in 0 .. RingSize - 1
      BY <1>0 DEF IInv, TypeOK, Slots, After
    <3>2. d_ring_count > 0 => d_ring_lens[d_read_idx] > 0
      BY <3>1 DEF PadInv, SlotsAreLeft
    <3>. QED  BY <2>1, <3>2 DEF PadInv, SlotsAreLeft, After
  <2>. QED
    BY <2>1, <2>2, <2>3 DEF PadInv, NeedsMore, PaddingBetweenSlots
<1>6. CASE WorkEnd
  <2>1. /\ UNCHANGED <<d_ring_lens, d_read_idx, d_ring_count, d_drain_offset,
                       frame_len, produced>>
        /\ work_pc = "end" /\ work_pc' = "ready" /\ needed' = 0
    BY <1>6 DEF WorkEnd, WorkMoves
  <2>2. LengthsAreItems'
    BY <2>1, NoneIsItems DEF PadInv, LengthsAreItems, IsItems
  <2>. QED
    BY <2>1, <2>2
    DEF PadInv, SlotsAreLeft, NeedsMore, PaddingBetweenSlots, After
<1>. QED
  BY <1>1, <1>2, <1>3, <1>4, <1>5, <1>6 DEF Work, WorkStep

\* The reader commits whole items, and only slots that hold some.
LEMMA ReaderPad ==
  ASSUME FramesAreItems, IInv, StreamInv, PadInv,
         ReaderStep \/ ReaderSpurious \/ Peer
  PROVE  PadInv'
<1>1. CASE ReaderLoop \/ ReaderPred \/ ReaderPark \/ ReaderSpurious
           \/ ReaderAwake \/ ReaderRetry \/ RecvFail \/ RecvByte
  <2>1. UNCHANGED <<d_ring_lens, d_read_idx, d_ring_count, d_drain_offset,
                    work_pc, needed, produced, frame_len>>
    BY <1>1
    DEF ReaderLoop, ReaderPred, ReaderPark, ReaderSpurious, ReaderAwake,
        ReaderRetry, RecvFail, RecvByte, ReaderMoves, workVars
  <2>. QED  BY <2>1, PadUntouched DEF PadInv, LengthsAreItems
<1>2. ASSUME NEW l \in FrameLens, RecvHeader(l)  PROVE PadInv'
  <2>1. /\ UNCHANGED <<d_ring_lens, d_read_idx, d_ring_count, d_drain_offset,
                       work_pc, needed, produced>>
        /\ frame_len' = l
    BY <1>2 DEF RecvHeader, ReaderMoves, workVars
  <2>. QED  BY <2>1, PadUntouched DEF FramesAreItems
<1>3. CASE ReaderPublish
  <2>1. /\ UNCHANGED <<d_read_idx, d_ring_count, d_drain_offset, work_pc, needed,
                       produced, frame_len>>
        /\ reader_pc = "publish"
        /\ d_ring_lens' = [d_ring_lens EXCEPT ![d_write_idx] = frame_len]
    BY <1>3 DEF ReaderPublish, ReaderMoves, workVars
  <2>2. /\ RingSize \in Nat \ {0} /\ d_ring_count \in 0 .. RingSize - 1
        /\ d_read_idx \in 0 .. RingSize - 1 /\ d_write_idx \in Slots
    BY <2>1, SourceAssumption DEF IInv, TypeOK, Slots, ReaderHasRoom
  <2>3. \A i \in Slots : d_ring_lens'[i] = IF i = d_write_idx THEN frame_len
                                           ELSE d_ring_lens[i]
    BY <2>1 DEF IInv, TypeOK
  <2>4. LengthsAreItems'
    BY <2>1, <2>3 DEF PadInv, LengthsAreItems, IsItems
  <2>5. \A j \in 0 .. RingSize - 1 :
          j < d_ring_count => d_ring_lens'[After(j)] = d_ring_lens[After(j)]
    <3>. SUFFICES ASSUME NEW j \in 0 .. RingSize - 1, j < d_ring_count
                  PROVE  d_ring_lens'[After(j)] = d_ring_lens[After(j)]
      OBVIOUS
    <3>1. d_write_idx = After(d_ring_count)
      BY <2>1, <2>2, WriteIsAfter
    <3>2. After(j) \in Slots /\ After(j) # d_write_idx
      BY <2>2, <3>1, AfterDiffers DEF IInv
    <3>. QED  BY <2>3, <3>2
  <2>6. SlotsAreLeft'
    <3>1. After(0) = d_read_idx
      BY <2>2 DEF After
    <3>2. d_ring_count > 0 => d_ring_lens'[d_read_idx] = d_ring_lens[d_read_idx]
      BY <2>2, <2>5, <3>1
    <3>. QED  BY <2>1, <2>5, <3>2 DEF PadInv, SlotsAreLeft, After
  <2>. QED
    BY <2>1, <2>4, <2>6 DEF PadInv, NeedsMore, PaddingBetweenSlots
<1>4. CASE ReaderCount
  <2>1. /\ UNCHANGED <<d_ring_lens, d_read_idx, d_drain_offset, work_pc, needed,
                       produced, frame_len>>
        /\ reader_pc = "count" /\ d_ring_count' = d_ring_count + 1
    BY <1>4 DEF ReaderCount, ReaderMoves, workVars
  <2>2. /\ RingSize \in Nat \ {0} /\ d_ring_count \in 0 .. RingSize - 1
        /\ d_read_idx \in 0 .. RingSize - 1
        /\ frame_len > 0 /\ d_ring_lens[After(d_ring_count)] = frame_len
    BY <2>1, SourceAssumption
    DEF IInv, TypeOK, Slots, ReaderHasRoom, FrameFits, StreamInv, FrameIsKept
  <2>3. LengthsAreItems'
    BY <2>1 DEF PadInv, LengthsAreItems, IsItems
  <2>4. SlotsAreLeft'
    <3>1. \A j \in 0 .. RingSize - 1 :
            j < d_ring_count + 1 => d_ring_lens[After(j)] > 0
      <4>. SUFFICES ASSUME NEW j \in 0 .. RingSize - 1, j < d_ring_count + 1
                    PROVE  d_ring_lens[After(j)] > 0
        OBVIOUS
      <4>1. j < d_ring_count \/ j = d_ring_count
        BY <2>2
      <4>. QED  BY <2>2, <4>1 DEF PadInv, SlotsAreLeft
    <3>2. (d_ring_count = 0 /\ work_pc # "notify") => d_drain_offset = 0
      BY DEF IInv, OffsetInSlot
    <3>3. After(0) = d_read_idx
      BY <2>2 DEF After
    <3>4. work_pc \notin {"free", "notify"} =>
            d_drain_offset < d_ring_lens[d_read_idx]
      BY <2>2, <3>2, <3>3 DEF PadInv, SlotsAreLeft
    <3>. QED  BY <2>1, <3>1, <3>4 DEF SlotsAreLeft, After
  <2>. QED
    BY <2>1, <2>3, <2>4 DEF PadInv, NeedsMore, PaddingBetweenSlots
<1>. QED  BY <1>1, <1>2, <1>3, <1>4 DEF ReaderStep, Peer

\* A step that changes nothing.
LEMMA StutterPad ==
  ASSUME PadInv, UNCHANGED vars  PROVE PadInv'
BY PadUntouched
DEF vars, ringVars, workVars, readerVars, PadInv, LengthsAreItems

-----------------------------------------------------------------------------
(* The theorem.                                                            *)

\* If the frames of the peer hold whole samples, a call of work() that returns
\* nothing but zeros does so between two slots: bytes of a slot are never torn
\* apart by padding, however the scheduler cuts its calls.
THEOREM PaddingIsBetweenSlots == FramesAreItems /\ Spec => []PaddingBetweenSlots
<1>. SUFFICES ASSUME FramesAreItems  PROVE Spec => []PaddingBetweenSlots
  OBVIOUS
<1>1. IInv /\ StreamInv /\ PadInv /\ [Next]_vars => PadInv'
  BY ControlPad, WorkPad, ReaderPad, StutterPad DEF Next
<1>2. PadInv => PaddingBetweenSlots
  BY DEF PadInv
<1>. QED  BY StreamInvariance, InitPad, <1>1, <1>2, PTL DEF Spec

(***************************************************************************)
(* 4. The ring with its two threads is a bounded queue of whole frames, which *)
(* start() empties.                                                        *)
(***************************************************************************)

-----------------------------------------------------------------------------
(* The mapping.                                                            *)

\* A drained slot that is still counted is not in the queue.
First == IF work_pc = "free" THEN 1 ELSE 0

Queued == d_ring_count - First

\* What is unread of a committed slot is the end of its bytes.
UnreadFacts ==
  \A j \in 0 .. RingSize - 1 :
    j < d_ring_count =>
      /\ Unread(j) = SubSeq(d_ring[After(j)], Gone(j) + 1, d_ring_lens[After(j)])
      /\ Unread(j) \in Seq(Bytes)
      /\ Gone(j) \in Nat /\ Gone(j) <= d_ring_lens[After(j)]
      /\ d_ring_lens[After(j)] \in 0 .. SlotBytes
      /\ Len(Unread(j)) = d_ring_lens[After(j)] - Gone(j)
      /\ \A b \in 1 .. d_ring_lens[After(j)] - Gone(j) :
           Unread(j)[b] = d_ring[After(j)][Gone(j) + b]

\* The queue is the sequence of what is unread of the queued slots.
QueueFacts ==
  /\ QueueOfRing \in Seq(Seq(Bytes))
  /\ Queued \in Nat /\ Len(QueueOfRing) = Queued
  /\ \A k \in 1 .. Queued : QueueOfRing[k] = Unread(First + k - 1)

\* What is left of a slot is a part of it.
LEMMA UnreadType == IInv => UnreadFacts
<1>. SUFFICES ASSUME IInv, NEW j \in 0 .. RingSize - 1, j < d_ring_count
     PROVE  /\ Unread(j) = SubSeq(d_ring[After(j)], Gone(j) + 1, d_ring_lens[After(j)])
            /\ Unread(j) \in Seq(Bytes)
            /\ Gone(j) \in Nat /\ Gone(j) <= d_ring_lens[After(j)]
            /\ d_ring_lens[After(j)] \in 0 .. SlotBytes
            /\ Len(Unread(j)) = d_ring_lens[After(j)] - Gone(j)
            /\ \A b \in 1 .. d_ring_lens[After(j)] - Gone(j) :
                 Unread(j)[b] = d_ring[After(j)][Gone(j) + b]
  BY DEF UnreadFacts
<1>1. RingSize \in Nat \ {0} /\ d_read_idx \in 0 .. RingSize - 1 /\ SlotBytes \in Nat
  BY SourceAssumption DEF IInv, TypeOK, Slots
<1>2. (d_read_idx + j) % RingSize = After(j)
  <2>1. CASE d_read_idx + j < RingSize
    BY <1>1, <2>1 DEF After
  <2>2. CASE d_read_idx + j >= RingSize
    <3>. DEFINE i == d_read_idx + j - RingSize
    <3>1. i \in 0 .. RingSize - 1 /\ d_read_idx + j = i + RingSize
      BY <1>1, <2>2
    <3>2. (i + RingSize) % RingSize = i
      BY <1>1, <3>1
    <3>. QED  BY <1>1, <2>2, <3>1, <3>2 DEF After
  <2>. QED  BY <1>1, <2>1, <2>2
<1>3. After(j) \in Slots /\ After(0) = d_read_idx
  BY <1>1, AfterDiffers DEF IInv, After
<1>. DEFINE len == d_ring_lens[After(j)]
            gone == Gone(j)
            slot == d_ring[After(j)]
<1>4. len \in 0 .. SlotBytes /\ slot \in [1 .. SlotBytes -> Bytes]
  BY <1>3 DEF IInv, TypeOK
<1>5. gone \in Nat /\ gone <= len
  BY <1>1, <1>3, <1>4 DEF Gone, IInv, TypeOK, OffsetInSlot
<1>6. Unread(j) = SubSeq(slot, gone + 1, len)
  BY <1>2 DEF Unread
<1>. HIDE DEF len, gone, slot
<1>7. \A b \in gone + 1 .. len : slot[b] \in Bytes
  BY <1>1, <1>4, <1>5
<1>8. /\ SubSeq(slot, gone + 1, len) \in Seq(Bytes)
      /\ Len(SubSeq(slot, gone + 1, len)) =
           IF gone + 1 <= len THEN len - (gone + 1) + 1 ELSE 0
      /\ \A b \in 1 .. len - (gone + 1) + 1 :
           SubSeq(slot, gone + 1, len)[b] = slot[(gone + 1) + b - 1]
  BY <1>4, <1>5, <1>7, SubSeqProperties
<1>9. Len(Unread(j)) = len - gone
  BY <1>4, <1>5, <1>6, <1>8
<1>10. \A b \in 1 .. len - gone : Unread(j)[b] = slot[gone + b]
  <2>. SUFFICES ASSUME NEW b \in 1 .. len - gone
                PROVE  Unread(j)[b] = slot[gone + b]
    OBVIOUS
  <2>1. b \in 1 .. len - (gone + 1) + 1 /\ (gone + 1) + b - 1 = gone + b
    BY <1>4, <1>5
  <2>. QED  BY <1>6, <1>8, <2>1
<1>. QED  BY <1>4, <1>5, <1>6, <1>8, <1>9, <1>10 DEF len, gone, slot

\* The slots with something left are a queue of frames.
LEMMA QueueType == IInv => QueueFacts
<1>. SUFFICES ASSUME IInv  PROVE QueueFacts
  OBVIOUS
<1>1. /\ RingSize \in Nat \ {0} /\ d_ring_count \in 0 .. RingSize
      /\ First \in {0, 1} /\ Queued \in Nat
  BY SourceAssumption DEF IInv, TypeOK, First, Queued, WorkHasSlot, WorkInSlot
<1>2. \A k \in 1 .. Queued : Unread(First + k - 1) \in Seq(Bytes)
  <2>. SUFFICES ASSUME NEW k \in 1 .. Queued
                PROVE  Unread(First + k - 1) \in Seq(Bytes)
    OBVIOUS
  <2>1. First + k - 1 \in 0 .. RingSize - 1 /\ First + k - 1 < d_ring_count
    BY <1>1 DEF Queued
  <2>. QED  BY <2>1, UnreadType DEF UnreadFacts
<1>3. QueueOfRing = [k \in 1 .. Queued |-> Unread(First + k - 1)]
  BY DEF QueueOfRing, First, Queued
<1>. QED  BY <1>1, <1>2, <1>3 DEF QueueFacts

\* A piece of a slot, and what is left of a frame.
LEMMA PieceOfSlot ==
  ASSUME NEW slot, NEW n \in Nat, NEW off \in Nat, NEW chunk \in Nat,
         off + chunk <= n, slot \in [1 .. n -> Bytes]
  PROVE  LET piece == SubSeq(slot, off + 1, off + chunk)
         IN  /\ piece \in Seq(Bytes) /\ Len(piece) = chunk
             /\ \A b \in 1 .. chunk : piece[b] = slot[off + b]
<1>1. \A b \in off + 1 .. off + chunk : slot[b] \in Bytes
  OBVIOUS
<1>2. /\ SubSeq(slot, off + 1, off + chunk) \in Seq(Bytes)
      /\ Len(SubSeq(slot, off + 1, off + chunk)) =
           IF off + 1 <= off + chunk THEN (off + chunk) - (off + 1) + 1 ELSE 0
      /\ \A b \in 1 .. (off + chunk) - (off + 1) + 1 :
           SubSeq(slot, off + 1, off + chunk)[b] = slot[(off + 1) + b - 1]
  BY <1>1, SubSeqProperties
<1>3. \A b \in 1 .. chunk : b \in 1 .. (off + chunk) - (off + 1) + 1
                            /\ (off + 1) + b - 1 = off + b
  OBVIOUS
<1>. QED  BY <1>2, <1>3

\* What is left of a frame once a chunk of it is gone.
LEMMA RestOfFrame ==
  ASSUME NEW frame \in Seq(Bytes), NEW chunk \in 0 .. Len(frame)
  PROVE  LET rest == SubSeq(frame, chunk + 1, Len(frame))
         IN  /\ rest \in Seq(Bytes) /\ Len(rest) = Len(frame) - chunk
             /\ \A b \in 1 .. Len(frame) - chunk : rest[b] = frame[chunk + b]
<1>1. frame \in [1 .. Len(frame) -> Bytes] /\ Len(frame) \in Nat
  OBVIOUS
<1>2. chunk + (Len(frame) - chunk) = Len(frame) /\ Len(frame) - chunk \in Nat
  BY <1>1
<1>. DEFINE left == Len(frame) - chunk
            rest == SubSeq(frame, chunk + 1, Len(frame))
<1>3. /\ SubSeq(frame, chunk + 1, chunk + left) \in Seq(Bytes)
      /\ Len(SubSeq(frame, chunk + 1, chunk + left)) = left
      /\ \A b \in 1 .. left :
           SubSeq(frame, chunk + 1, chunk + left)[b] = frame[chunk + b]
  <2>1. left \in Nat /\ chunk + left <= Len(frame) /\ chunk \in Nat
    BY <1>1, <1>2
  <2>. HIDE DEF left
  <2>. QED  BY <1>1, <2>1, PieceOfSlot
<1>4. SubSeq(frame, chunk + 1, chunk + left) = rest
  BY <1>2
<1>. QED  BY <1>3, <1>4

\* A step that leaves the unread bytes of every slot alone leaves the queue.
LEMMA QueueKept ==
  ASSUME UNCHANGED <<d_ring_count, First>>, IInv,
         \A j \in 0 .. RingSize - 1 :
           j < d_ring_count => Unread(j)' = Unread(j)
  PROVE  QueueOfRing' = QueueOfRing
<1>1. /\ RingSize \in Nat \ {0} /\ d_ring_count \in 0 .. RingSize
      /\ First \in {0, 1}
  BY SourceAssumption DEF IInv, TypeOK, First
<1>2. /\ QueueOfRing = [k \in 1 .. Queued |-> Unread(First + k - 1)]
      /\ QueueOfRing' = [k \in 1 .. Queued |-> Unread(First + k - 1)']
  BY DEF QueueOfRing, First, Queued
<1>3. \A k \in 1 .. Queued : First + k - 1 \in 0 .. RingSize - 1
                             /\ First + k - 1 < d_ring_count
  BY <1>1 DEF Queued
<1>. QED  BY <1>2, <1>3

\* A step that leaves ring, index, count and offset alone leaves the queue.
LEMMA RingKept ==
  ASSUME IInv,
         UNCHANGED <<d_ring, d_ring_lens, d_read_idx, d_ring_count>>,
         UNCHANGED <<First, Gone(0)>>
  PROVE  QueueOfRing' = QueueOfRing
<1>1. \A j \in 0 .. RingSize - 1 : Unread(j)' = Unread(j)
  BY DEF Unread, Gone
<1>. QED  BY <1>1, QueueKept

-----------------------------------------------------------------------------
(* The initial states and the steps of the block are those of SlotStream.  *)

\* The ring at the start is the empty queue.
LEMMA InitMaps == Init => Stream!StreamInit
<1>. SUFFICES ASSUME Init  PROVE Stream!StreamInit
  OBVIOUS
<1>1. First = 0 /\ d_ring_count = 0
  BY DEF Init, First
<1>2. QueueOfRing = <<>>
  BY <1>1 DEF QueueOfRing, First
<1>. QED  BY <1>2 DEF Init, Stream!StreamInit

\* start() is the restart of the queue; stop() is no step of it.
LEMMA ControlMaps ==
  ASSUME IInv, Control
  PROVE  Stream!Restart \/ UNCHANGED <<QueueOfRing, out>>
<1>1. CASE Start
  <2>1. d_ring_count' = 0 /\ work_pc' = "ready" /\ out' = <<>>
    BY <1>1 DEF Start, workVars
  <2>2. QueueOfRing' = <<>>
    BY <2>1 DEF QueueOfRing
  <2>. QED  BY <2>1, <2>2 DEF Stream!Restart
<1>2. CASE StopSignal \/ StopNotify \/ StopJoin
  <2>1. UNCHANGED <<d_ring, d_ring_lens, d_read_idx, d_ring_count, work_pc,
                    d_drain_offset, out>>
    BY <1>2 DEF StopSignal, StopNotify, StopJoin, ringVars, workVars, history
  <2>2. UNCHANGED <<First, Gone(0)>>
    BY <2>1 DEF First, Gone
  <2>. QED  BY <2>1, <2>2, RingKept
<1>. QED  BY <1>1, <1>2 DEF Control

\* Committing a slot accepts its frame; every other step of the reader works on
\* a slot that is not in the queue.
LEMMA ReaderMaps ==
  ASSUME IInv, StreamInv, IInv', ReaderStep \/ ReaderSpurious \/ Peer
  PROVE  \/ \E f \in InputFrames : Stream!Accept(f)
         \/ UNCHANGED <<QueueOfRing, out>>
<1>0. UnreadFacts /\ UnreadFacts' /\ QueueFacts /\ QueueFacts'
  BY UnreadType, QueueType, PTL
<1>1. CASE ReaderLoop \/ ReaderPred \/ ReaderPark \/ ReaderSpurious
           \/ ReaderAwake \/ ReaderRetry \/ RecvFail
           \/ (\E len \in FrameLens : RecvHeader(len))
  <2>1. UNCHANGED <<d_ring, d_ring_lens, d_read_idx, d_ring_count, work_pc,
                    d_drain_offset, out>>
    BY <1>1
    DEF ReaderLoop, ReaderPred, ReaderPark, ReaderSpurious, ReaderAwake,
        ReaderRetry, RecvFail, RecvHeader, ReaderMoves, workVars
  <2>2. UNCHANGED <<First, Gone(0)>>
    BY <2>1 DEF First, Gone
  <2>. QED  BY <2>1, <2>2, RingKept
<1>2. CASE RecvByte \/ ReaderPublish
  <2>1. /\ UNCHANGED <<d_read_idx, d_ring_count, work_pc, d_drain_offset, out>>
        /\ reader_pc \in {"payload", "publish"}
        /\ \/ /\ d_ring' = [d_ring EXCEPT ![d_write_idx][got + 1] = arrived + 1]
              /\ d_ring_lens' = d_ring_lens
           \/ /\ d_ring' = d_ring
              /\ d_ring_lens' = [d_ring_lens EXCEPT ![d_write_idx] = frame_len]
    BY <1>2 DEF RecvByte, ReaderPublish, ReaderMoves, workVars
  <2>2. /\ RingSize \in Nat \ {0} /\ d_ring_count \in 0 .. RingSize - 1
        /\ d_read_idx \in 0 .. RingSize - 1
    BY <2>1, SourceAssumption DEF IInv, TypeOK, Slots, ReaderHasRoom
  <2>3. \A i \in Slots : i # d_write_idx =>
          d_ring'[i] = d_ring[i] /\ d_ring_lens'[i] = d_ring_lens[i]
    BY <2>1 DEF IInv, TypeOK
  <2>4. ASSUME NEW j \in 0 .. RingSize - 1, j < d_ring_count
        PROVE  Unread(j)' = Unread(j)
    <3>1. d_write_idx = After(d_ring_count)
      BY <2>1, <2>2, WriteIsAfter
    <3>2. After(j) \in Slots /\ After(j) # d_write_idx
      BY <2>2, <2>4, <3>1, AfterDiffers DEF IInv
    <3>3. After(j)' = After(j) /\ Gone(j)' = Gone(j)
      BY <2>1 DEF After, Gone
    <3>4. /\ Unread(j) = SubSeq(d_ring[After(j)], Gone(j) + 1, d_ring_lens[After(j)])
          /\ Unread(j)' = SubSeq(d_ring'[After(j)'], Gone(j)' + 1,
                                 d_ring_lens'[After(j)'])
      BY <1>0, <2>1, <2>4 DEF UnreadFacts
    <3>. QED  BY <2>3, <3>2, <3>3, <3>4
  <2>5. UNCHANGED First
    BY <2>1 DEF First
  <2>. QED  BY <2>1, <2>4, <2>5, QueueKept
<1>3. CASE ReaderCount
  <2>. DEFINE frame == [b \in 1 .. frame_len |-> arrived - frame_len + b]
  <2>1. /\ UNCHANGED <<d_ring, d_ring_lens, d_read_idx, work_pc, d_drain_offset,
                       out>>
        /\ reader_pc = "count" /\ d_ring_count' = d_ring_count + 1
    BY <1>3 DEF ReaderCount, ReaderMoves, workVars
  <2>2. /\ RingSize \in Nat \ {0} /\ d_ring_count \in 0 .. RingSize - 1
        /\ frame_len \in 1 .. SlotBytes /\ frame_len <= arrived
        /\ arrived \in 0 .. MaxBytes /\ frame_len \in FrameLens
        /\ SlotBytes \in Nat /\ MaxBytes \in Nat
    BY <2>1, SourceAssumption
    DEF IInv, TypeOK, Slots, Bytes, ReaderHasRoom, FrameFits
  <2>3. frame \in InputFrames
    <3>1. arrived - frame_len \in Bytes /\ frame_len \in FrameLens \cap 1 .. SlotBytes
      BY <2>2 DEF Bytes
    <3>. QED  BY <3>1 DEF InputFrames
  <2>4. frame \in Seq(Bytes) /\ Len(frame) = frame_len
    BY <2>2 DEF Bytes
  <2>5. \A b \in 1 .. frame_len : d_ring[After(d_ring_count)][b] = frame[b]
    BY <2>1, <2>2 DEF StreamInv, FrameIsKept
  <2>6. d_ring_lens[After(d_ring_count)] = frame_len
    BY <2>1 DEF StreamInv, FrameIsKept
  <2>. HIDE DEF frame
  <2>7. First' = First /\ \A j \in 0 .. RingSize - 1 :
          Unread(j)' = Unread(j) /\ Gone(j)' = Gone(j) /\ After(j)' = After(j)
    BY <2>1 DEF First, Unread, Gone, After
  <2>8. PICK c \in 0 .. RingSize - 1 : c = d_ring_count
    BY <2>2
  <2>9. Unread(c)' = frame
    <3>1. Gone(c) = 0
      BY <2>1, <2>8 DEF Gone, IInv, OffsetInSlot
    <3>2. /\ Unread(c)' \in Seq(Bytes)
          /\ Len(Unread(c)') = d_ring_lens'[After(c)'] - Gone(c)'
          /\ \A b \in 1 .. d_ring_lens'[After(c)'] - Gone(c)' :
               Unread(c)'[b] = d_ring'[After(c)'][Gone(c)' + b]
      BY <1>0, <2>1, <2>2, <2>8 DEF UnreadFacts
    <3>3. /\ d_ring_lens'[After(c)'] = frame_len /\ Gone(c)' = 0
          /\ d_ring'[After(c)'] = d_ring[After(d_ring_count)]
      BY <2>1, <2>6, <2>7, <2>8, <3>1
    <3>4. \A b \in 1 .. frame_len : Unread(c)'[b] = frame[b]
      BY <2>2, <2>5, <3>2, <3>3
    <3>5. Len(Unread(c)') = frame_len
      BY <2>2, <3>2, <3>3
    <3>. QED  BY <2>4, <3>2, <3>4, <3>5, SeqEqual
  <2>10. /\ QueueOfRing \in Seq(Seq(Bytes)) /\ QueueOfRing' \in Seq(Seq(Bytes))
         /\ Queued \in Nat /\ Queued' = Queued + 1 /\ First' = First
         /\ First \in {0, 1} /\ First + Queued = c /\ Queued < RingSize
         /\ Len(QueueOfRing) = Queued /\ Len(QueueOfRing') = Queued + 1
    <3>1. /\ First \in {0, 1} /\ First + Queued = c
          /\ Queued' = Queued + 1 /\ Queued < RingSize
      BY <2>1, <2>2, <2>7, <2>8 DEF First, Queued
    <3>. QED  BY <1>0, <2>7, <3>1 DEF QueueFacts
  <2>11. QueueOfRing' = Append(QueueOfRing, frame)
    <3>1. /\ Append(QueueOfRing, frame) \in Seq(Seq(Bytes))
          /\ Len(Append(QueueOfRing, frame)) = Queued + 1
          /\ \A k \in 1 .. Queued : Append(QueueOfRing, frame)[k] = QueueOfRing[k]
          /\ Append(QueueOfRing, frame)[Queued + 1] = frame
      BY <2>4, <2>10, AppendProperties
    <3>2. ASSUME NEW k \in 1 .. Queued + 1
          PROVE  QueueOfRing'[k] = Append(QueueOfRing, frame)[k]
      <4>1. PICK j \in 0 .. RingSize - 1 : j = First + k - 1
        BY <2>2, <2>10
      <4>2. QueueOfRing'[k] = Unread(j)'
        BY <1>0, <2>10, <4>1 DEF QueueFacts
      <4>3. CASE k <= Queued
        <5>1. QueueOfRing[k] = Unread(j)
          BY <1>0, <2>10, <4>1, <4>3 DEF QueueFacts
        <5>2. Unread(j)' = Unread(j)
          BY <2>7, <4>1
        <5>3. Append(QueueOfRing, frame)[k] = QueueOfRing[k]
          BY <3>1, <4>3
        <5>. QED  BY <4>2, <5>1, <5>2, <5>3
      <4>4. CASE k = Queued + 1
        <5>1. j = c
          BY <2>10, <4>1, <4>4
        <5>. QED  BY <2>9, <3>1, <4>2, <4>4, <5>1
      <4>. QED  BY <2>10, <4>3, <4>4
    <3>. QED  BY <2>10, <3>1, <3>2, SeqEqual
  <2>12. Stream!Accept(frame)
    BY <2>1, <2>10, <2>11 DEF Stream!Accept
  <2>. QED  BY <2>3, <2>12
<1>. QED
  BY <1>1, <1>2, <1>3 DEF ReaderStep, Peer

\* Draining a slot delivers a piece of the first frame; the freeing of a slot
\* and the notification after it do not change the queue.
LEMMA WorkMaps ==
  ASSUME IInv, StreamInv, IInv', Work
  PROVE  \/ QueueOfRing # <<>>
            /\ \E n \in 1 .. Len(Head(QueueOfRing)) : Stream!Deliver(n)
         \/ UNCHANGED <<QueueOfRing, out>>
<1>0. /\ UnreadFacts /\ UnreadFacts' /\ QueueFacts /\ QueueFacts'
      /\ RingSize \in Nat \ {0} /\ d_read_idx \in 0 .. RingSize - 1
  BY UnreadType, QueueType, SourceAssumption, PTL DEF IInv, TypeOK, Slots
<1>1. CASE (\E n \in 1 .. MaxCall : WorkCall(n)) \/ WorkPeek \/ WorkNotify \/ WorkEnd
  <2>1. /\ UNCHANGED <<d_ring, d_ring_lens, d_read_idx, d_ring_count, out>>
        /\ \/ UNCHANGED d_drain_offset /\ work_pc # "notify" /\ work_pc' # "notify"
           \/ d_drain_offset' = 0 /\ work_pc = "notify" /\ work_pc' # "notify"
        /\ work_pc # "free" /\ work_pc' # "free"
    BY <1>1 DEF WorkCall, WorkPeek, WorkNotify, WorkEnd, WorkMoves
  <2>2. UNCHANGED <<First, Gone(0)>>
    BY <2>1 DEF First, Gone
  <2>. QED  BY <2>1, <2>2, RingKept
<1>2. CASE WorkFree
  <2>1. /\ UNCHANGED <<d_ring, d_ring_lens, out>>
        /\ work_pc = "free" /\ work_pc' = "notify"
        /\ d_read_idx' = (d_read_idx + 1) % RingSize
        /\ d_ring_count' = d_ring_count - 1
    BY <1>2 DEF WorkFree, WorkMoves
  <2>2. /\ d_ring_count \in 1 .. RingSize
        /\ d_read_idx' = IF d_read_idx + 1 = RingSize THEN 0 ELSE d_read_idx + 1
    <3>1. d_ring_count \in 1 .. RingSize
      BY <1>0, <2>1 DEF IInv, TypeOK, WorkHasSlot, WorkInSlot
    <3>. QED  BY <1>0, <2>1, <3>1, NextIndex
  <2>3. /\ QueueOfRing \in Seq(Seq(Bytes)) /\ QueueOfRing' \in Seq(Seq(Bytes))
        /\ First = 1 /\ First' = 0
        /\ Len(QueueOfRing) = d_ring_count - 1 /\ Len(QueueOfRing') = d_ring_count - 1
    BY <1>0, <2>1, <2>2 DEF QueueFacts, First, Queued
  <2>4. ASSUME NEW k \in 1 .. d_ring_count - 1
        PROVE  QueueOfRing'[k] = QueueOfRing[k]
    <3>1. PICK j \in 0 .. RingSize - 1 :
            j = k - 1 /\ j + 1 \in 0 .. RingSize - 1 /\ j < d_ring_count - 1
      BY <1>0, <2>2
    <3>2. QueueOfRing[k] = Unread(j + 1) /\ QueueOfRing'[k] = Unread(j)'
      BY <1>0, <2>1, <2>2, <2>3, <3>1 DEF QueueFacts, Queued
    <3>3. /\ Unread(j + 1) = SubSeq(d_ring[After(j + 1)], Gone(j + 1) + 1,
                                    d_ring_lens[After(j + 1)])
          /\ Unread(j)' = SubSeq(d_ring'[After(j)'], Gone(j)' + 1,
                                 d_ring_lens'[After(j)'])
      <4>1. j + 1 < d_ring_count /\ j < d_ring_count'
        BY <2>1, <2>2, <3>1
      <4>. QED  BY <1>0, <3>1, <4>1 DEF UnreadFacts
    <3>4. After(j)' = After(j + 1) /\ Gone(j)' = 0 /\ Gone(j + 1) = 0
      BY <1>0, <2>1, <2>2, <3>1 DEF After, Gone
    <3>. QED  BY <2>1, <3>2, <3>3, <3>4
  <2>. QED  BY <2>1, <2>3, <2>4, SeqEqual
<1>3. CASE WorkDrain
  <2>. DEFINE chunk == DrainChunk
              slot  == d_ring[d_read_idx]
              len   == d_ring_lens[d_read_idx]
              head  == QueueOfRing[1]
  <2>1. /\ UNCHANGED <<d_ring, d_ring_lens, d_read_idx, d_ring_count>>
        /\ work_pc = "drain"
        /\ work_pc' = IF chunk = 0 THEN "end"
                      ELSE IF d_drain_offset + chunk >= len THEN "free" ELSE "end"
        /\ out' = out \o SubSeq(slot, d_drain_offset + 1, d_drain_offset + chunk)
        /\ d_drain_offset' = d_drain_offset + chunk
    BY <1>3 DEF WorkDrain, WorkMoves
  <2>2. /\ chunk \in Nat /\ d_drain_offset + chunk <= len
        /\ len \in 0 .. SlotBytes /\ d_ring_count \in 1 .. RingSize
        /\ d_drain_offset \in Nat /\ SlotBytes \in Nat
        /\ slot \in [1 .. SlotBytes -> Bytes] /\ out \in Seq(Bytes)
    <3>1. /\ chunk \in Nat /\ d_drain_offset + chunk <= len
          /\ len \in 0 .. SlotBytes /\ d_ring_count \in 1 .. RingSize
          /\ d_drain_offset \in 0 .. SlotBytes
      BY <1>3, DrainFacts
    <3>2. SlotBytes \in Nat /\ slot \in [1 .. SlotBytes -> Bytes] /\ out \in Seq(Bytes)
      BY SourceAssumption DEF IInv, TypeOK
    <3>. HIDE DEF chunk, len, slot
    <3>. QED  BY <3>1, <3>2
  <2>. HIDE DEF chunk, slot, len
  <2>3. CASE chunk = 0
    <3>1. UNCHANGED <<First, Gone(0)>>
      BY <2>1, <2>2, <2>3 DEF First, Gone
    <3>2. SubSeq(slot, d_drain_offset + 1, d_drain_offset + chunk) = <<>>
      BY <2>2, <2>3, SubSeqEmpty
    <3>3. out' = out
      BY <2>1, <2>2, <3>2, ConcatEmptySeq
    <3>. QED  BY <2>1, <3>1, <3>3, RingKept
  <2>4. CASE chunk > 0
    <3>1. First = 0 /\ Queued = d_ring_count /\ After(0) = d_read_idx
          /\ Gone(0) = d_drain_offset
      BY <1>0, <2>1, <2>2 DEF First, Queued, After, Gone
    <3>2. /\ QueueOfRing \in Seq(Seq(Bytes)) /\ Len(QueueOfRing) = d_ring_count
          /\ QueueOfRing # <<>> /\ Head(QueueOfRing) = head
          /\ \A k \in 1 .. d_ring_count : QueueOfRing[k] = Unread(k - 1)
      <4>1. \A k \in 1 .. d_ring_count : QueueOfRing[k] = Unread(k - 1)
        BY <1>0, <2>2, <3>1 DEF QueueFacts
      <4>. QED  BY <1>0, <2>2, <3>1, <4>1 DEF QueueFacts
    <3>3. /\ head \in Seq(Bytes) /\ Len(head) = len - d_drain_offset
          /\ \A b \in 1 .. len - d_drain_offset : head[b] = slot[d_drain_offset + b]
      <4>1. head = Unread(0) /\ 0 \in 0 .. RingSize - 1 /\ 0 < d_ring_count
        <5>1. 1 \in 1 .. d_ring_count /\ 1 - 1 = 0
          BY <2>2
        <5>. QED  BY <1>0, <2>2, <3>2, <5>1
      <4>. QED  BY <1>0, <3>1, <4>1 DEF UnreadFacts, len, slot
    <3>. HIDE DEF head
    <3>4. chunk \in 1 .. Len(head)
      BY <2>2, <2>4, <3>3
    <3>5. out' = out \o SubSeq(head, 1, chunk)
      <4>1. /\ SubSeq(head, 1, chunk) \in Seq(Bytes)
            /\ Len(SubSeq(head, 1, chunk)) = chunk
            /\ \A b \in 1 .. chunk : SubSeq(head, 1, chunk)[b] = head[b]
        <5>1. \A b \in 1 .. chunk : head[b] \in Bytes
          BY <2>2, <3>3, <3>4
        <5>2. /\ SubSeq(head, 1, chunk) \in Seq(Bytes)
              /\ Len(SubSeq(head, 1, chunk)) = IF 1 <= chunk THEN chunk - 1 + 1 ELSE 0
              /\ \A b \in 1 .. chunk - 1 + 1 :
                   SubSeq(head, 1, chunk)[b] = head[1 + b - 1]
          BY <2>2, <5>1, SubSeqProperties
        <5>. QED  BY <2>2, <2>4, <5>2
      <4>. DEFINE piece == SubSeq(slot, d_drain_offset + 1, d_drain_offset + chunk)
      <4>2. /\ piece \in Seq(Bytes) /\ Len(piece) = chunk
            /\ \A b \in 1 .. chunk : piece[b] = slot[d_drain_offset + b]
        BY <2>2, PieceOfSlot
      <4>. HIDE DEF piece
      <4>3. \A b \in 1 .. chunk : piece[b] = SubSeq(head, 1, chunk)[b]
        BY <2>2, <3>3, <3>4, <4>1, <4>2
      <4>4. piece = SubSeq(head, 1, chunk)
        BY <4>1, <4>2, <4>3, SeqEqual
      <4>. QED  BY <2>1, <4>4 DEF piece
    <3>6. /\ Tail(QueueOfRing) \in Seq(Seq(Bytes))
          /\ Len(Tail(QueueOfRing)) = d_ring_count - 1
          /\ \A k \in 1 .. d_ring_count - 1 :
               Tail(QueueOfRing)[k] = QueueOfRing[k + 1]
      BY <3>2, HeadTailProperties
    <3>7. ASSUME NEW k \in 1 .. d_ring_count - 1
          PROVE  Unread(k)' = QueueOfRing[k + 1]
      <4>1. Unread(k)' = Unread(k)
        <5>1. Gone(k)' = Gone(k)
          BY <2>2 DEF Gone
        <5>. QED  BY <2>1, <5>1 DEF Unread
      <4>2. k + 1 \in 1 .. d_ring_count /\ (k + 1) - 1 = k
        BY <2>2
      <4>. QED  BY <3>2, <4>1, <4>2
    <3>8. QueueOfRing' = IF chunk = Len(head) THEN Tail(QueueOfRing)
                         ELSE <<SubSeq(head, chunk + 1, Len(head))>> \o Tail(QueueOfRing)
      <4>1. CASE chunk = Len(head)
        <5>1. work_pc' = "free" /\ First' = 1 /\ Queued' = d_ring_count - 1
          BY <2>1, <2>2, <2>4, <3>3, <4>1 DEF First, Queued
        <5>2. /\ QueueOfRing' \in Seq(Seq(Bytes))
              /\ Len(QueueOfRing') = d_ring_count - 1
              /\ \A k \in 1 .. d_ring_count - 1 : QueueOfRing'[k] = Unread(1 + k - 1)'
          BY <1>0, <5>1 DEF QueueFacts
        <5>3. \A k \in 1 .. d_ring_count - 1 : 1 + k - 1 = k
          BY <2>2
        <5>4. \A k \in 1 .. d_ring_count - 1 : QueueOfRing'[k] = Tail(QueueOfRing)[k]
          BY <3>6, <3>7, <5>2, <5>3
        <5>. QED  BY <3>6, <4>1, <5>2, <5>4, SeqEqual
      <4>2. CASE chunk # Len(head)
        <5>. DEFINE rest == SubSeq(head, chunk + 1, Len(head))
        <5>1. work_pc' = "end" /\ First' = 0 /\ Queued' = d_ring_count
              /\ Gone(0)' = d_drain_offset + chunk /\ After(0)' = d_read_idx
          BY <1>0, <2>1, <2>2, <2>4, <3>3, <3>4, <4>2
          DEF First, Queued, Gone, After
        <5>2. /\ QueueOfRing' \in Seq(Seq(Bytes))
              /\ Len(QueueOfRing') = d_ring_count
              /\ \A k \in 1 .. d_ring_count : QueueOfRing'[k] = Unread(k - 1)'
          <6>1. /\ QueueOfRing' \in Seq(Seq(Bytes))
                /\ Len(QueueOfRing') = d_ring_count
                /\ \A k \in 1 .. d_ring_count : QueueOfRing'[k] = Unread(0 + k - 1)'
            BY <1>0, <5>1 DEF QueueFacts
          <6>2. \A k \in 1 .. d_ring_count : 0 + k - 1 = k - 1
            BY <2>2
          <6>. QED  BY <6>1, <6>2
        <5>3. /\ rest \in Seq(Bytes)
              /\ Len(rest) = len - (d_drain_offset + chunk)
              /\ \A b \in 1 .. len - (d_drain_offset + chunk) :
                   rest[b] = head[chunk + b]
          <6>1. /\ rest \in Seq(Bytes) /\ Len(rest) = Len(head) - chunk
                /\ \A b \in 1 .. Len(head) - chunk : rest[b] = head[chunk + b]
            <7>1. chunk \in 0 .. Len(head) /\ head \in Seq(Bytes)
              BY <3>3, <3>4
            <7>. QED  BY <7>1, RestOfFrame, Zenon
          <6>2. Len(head) - chunk = len - (d_drain_offset + chunk)
            BY <2>2, <3>3
          <6>. QED  BY <6>1, <6>2
        <5>. HIDE DEF rest
        <5>4. /\ Unread(0)' \in Seq(Bytes)
              /\ Len(Unread(0)') = len - (d_drain_offset + chunk)
              /\ \A b \in 1 .. len - (d_drain_offset + chunk) :
                   Unread(0)'[b] = slot[(d_drain_offset + chunk) + b]
          <6>1. 0 \in 0 .. RingSize - 1 /\ 0 < d_ring_count'
            BY <1>0, <2>1, <2>2
          <6>2. /\ Unread(0)' \in Seq(Bytes)
                /\ Len(Unread(0)') = d_ring_lens'[After(0)'] - Gone(0)'
                /\ \A b \in 1 .. d_ring_lens'[After(0)'] - Gone(0)' :
                     Unread(0)'[b] = d_ring'[After(0)'][Gone(0)' + b]
            BY <1>0, <6>1 DEF UnreadFacts
          <6>. QED  BY <2>1, <5>1, <6>2 DEF len, slot
        <5>5. Unread(0)' = rest
          <6>1. ASSUME NEW b \in 1 .. len - (d_drain_offset + chunk)
                PROVE  Unread(0)'[b] = rest[b]
            <7>1. /\ chunk + b \in 1 .. len - d_drain_offset
                  /\ (d_drain_offset + chunk) + b = d_drain_offset + (chunk + b)
              BY <2>2
            <7>. QED  BY <3>3, <5>3, <5>4, <7>1
          <6>. QED  BY <5>3, <5>4, <6>1, SeqEqual
        <5>6. /\ <<rest>> \o Tail(QueueOfRing) \in Seq(Seq(Bytes))
              /\ Len(<<rest>> \o Tail(QueueOfRing)) = d_ring_count
              /\ \A k \in 1 .. d_ring_count : (<<rest>> \o Tail(QueueOfRing))[k] =
                   IF k <= 1 THEN rest ELSE Tail(QueueOfRing)[k - 1]
          <6>1. <<rest>> \in Seq(Seq(Bytes)) /\ Len(<<rest>>) = 1 /\ <<rest>>[1] = rest
            BY <5>3
          <6>2. /\ <<rest>> \o Tail(QueueOfRing) \in Seq(Seq(Bytes))
                /\ Len(<<rest>> \o Tail(QueueOfRing)) = 1 + (d_ring_count - 1)
                /\ \A k \in 1 .. 1 + (d_ring_count - 1) :
                     (<<rest>> \o Tail(QueueOfRing))[k] =
                       IF k <= 1 THEN <<rest>>[k] ELSE Tail(QueueOfRing)[k - 1]
            BY <3>6, <6>1, ConcatProperties
          <6>3. 1 + (d_ring_count - 1) = d_ring_count
            BY <2>2
          <6>. QED  BY <2>2, <6>1, <6>2, <6>3
        <5>7. ASSUME NEW k \in 1 .. d_ring_count
              PROVE  QueueOfRing'[k] = (<<rest>> \o Tail(QueueOfRing))[k]
          <6>1. CASE k = 1
            <7>1. 1 \in 1 .. d_ring_count /\ 1 - 1 = 0
              BY <2>2
            <7>2. QueueOfRing'[1] = Unread(0)'
              BY <5>2, <7>1
            <7>3. (<<rest>> \o Tail(QueueOfRing))[1] = rest
              BY <5>6, <7>1
            <7>. QED  BY <5>5, <6>1, <7>2, <7>3
          <6>2. CASE k > 1
            <7>1. k - 1 \in 1 .. d_ring_count - 1 /\ (k - 1) + 1 = k
              BY <2>2, <6>2
            <7>2. QueueOfRing'[k] = QueueOfRing[k]
              BY <3>7, <5>2, <7>1
            <7>. QED  BY <3>6, <5>6, <6>2, <7>1, <7>2
          <6>3. k = 1 \/ k > 1
            BY <2>2
          <6>. QED  BY <6>1, <6>2, <6>3
        <5>8. QueueOfRing' = <<rest>> \o Tail(QueueOfRing)
          BY <5>2, <5>6, <5>7, SeqEqual
        <5>. QED  BY <4>2, <5>8 DEF rest
      <4>. QED  BY <4>1, <4>2
    <3>9. Stream!Deliver(chunk)
      <4>1. chunk <= Len(head)
        BY <3>4
      <4>. QED  BY <3>2, <3>5, <3>8, <4>1, Zenon DEF Stream!Deliver
    <3>. QED  BY <3>2, <3>4, <3>9
  <2>. QED  BY <2>2, <2>3, <2>4
<1>. QED
  BY <1>1, <1>2, <1>3 DEF Work, WorkStep

\* A stuttering step of the block is one of the queue.
LEMMA StutterMaps ==
  ASSUME IInv, UNCHANGED vars  PROVE UNCHANGED <<QueueOfRing, out>>
<1>1. UNCHANGED <<First, Gone(0)>>
  BY DEF vars, ringVars, workVars, First, Gone
<1>. QED  BY <1>1, RingKept DEF vars, ringVars, history

-----------------------------------------------------------------------------
(* The theorem.                                                            *)

\* The block implements SlotStream: every step of its two threads, of the
\* flowgraph and of the peer accepts one whole frame at one end, delivers a
\* piece of the first frame at the other, empties the queue, or does not show.
THEOREM SourceImplementsStream == Spec => ImplementsSlotStream
<1>1. IInv /\ StreamInv /\ IInv' /\ [Next]_vars
        => [Stream!StreamNext]_<<QueueOfRing, out>>
  BY ControlMaps, ReaderMaps, WorkMaps, StutterMaps DEF Next, Stream!StreamNext
<1>. QED
  BY InitMaps, StreamInvariance, <1>1, PTL
  DEF Spec, ImplementsSlotStream, Stream!StreamSpec

(***************************************************************************)
(* 5. The path from the FPGA.                                              *)
(***************************************************************************)

-----------------------------------------------------------------------------
(* Chains: the pieces of a sequence follow each other.                     *)

\* The pieces of S cover the positions from lo to hi one after the other: Q says
\* which piece may go from one position to another.
Chain(Q, lo, S, hi) ==
  \E pos \in [0 .. Len(S) -> Nat] :
    /\ pos[0] = lo /\ pos[Len(S)] = hi
    /\ \A j, k \in 0 .. Len(S) : j <= k => pos[j] <= pos[k]
    /\ \A k \in 1 .. Len(S) : <<pos[k - 1], S[k], pos[k]>> \in Q

\* A chain does not go back.
LEMMA ChainGrows ==
  ASSUME NEW Q, NEW P, NEW S \in Seq(P), NEW lo, NEW hi, Chain(Q, lo, S, hi)
  PROVE  lo <= hi
BY LenProperties DEF Chain

\* No pieces lead from a position to itself.
LEMMA ChainEmpty ==
  ASSUME NEW Q, NEW lo \in Nat
  PROVE  Chain(Q, lo, <<>>, lo)
<1>. DEFINE pos == [k \in 0 .. 0 |-> lo]
<1>1. pos \in [0 .. 0 -> Nat] /\ pos[0] = lo
  OBVIOUS
<1>2. Len(<<>>) = 0 /\ 1 .. 0 = {}
  BY EmptySeq
<1>. HIDE DEF pos
<1>. QED  BY <1>1, <1>2 DEF Chain

\* A piece behind the last one.
LEMMA ChainAppend ==
  ASSUME NEW Q, NEW P, NEW S \in Seq(P), NEW f \in P,
         NEW lo \in Nat, NEW mid \in Nat, NEW hi \in Nat,
         Chain(Q, lo, S, mid), mid <= hi, <<mid, f, hi>> \in Q
  PROVE  Chain(Q, lo, Append(S, f), hi)
<1>1. PICK pos \in [0 .. Len(S) -> Nat] :
        /\ pos[0] = lo /\ pos[Len(S)] = mid
        /\ \A j, k \in 0 .. Len(S) : j <= k => pos[j] <= pos[k]
        /\ \A k \in 1 .. Len(S) : <<pos[k - 1], S[k], pos[k]>> \in Q
  BY DEF Chain
<1>. DEFINE n == Len(S)
            T == Append(S, f)
            pos2 == [k \in 0 .. n + 1 |-> IF k = n + 1 THEN hi ELSE pos[k]]
<1>2. /\ n \in Nat /\ Len(T) = n + 1 /\ T[n + 1] = f
      /\ \A k \in 1 .. n : T[k] = S[k]
  BY AppendProperties, LenProperties
<1>. HIDE DEF T
<1>3. pos2 \in [0 .. Len(T) -> Nat] /\ pos2[0] = lo /\ pos2[Len(T)] = hi
  BY <1>1, <1>2
<1>4. ASSUME NEW k \in 1 .. Len(T)  PROVE <<pos2[k - 1], T[k], pos2[k]>> \in Q
  <2>1. CASE k = n + 1
    BY <1>1, <1>2, <2>1, SMTT(40)
  <2>2. CASE k \in 1 .. n
    BY <1>1, <1>2, <2>2
  <2>. QED  BY <1>2, <2>1, <2>2
<1>5. ASSUME NEW j \in 0 .. Len(T), NEW k \in 0 .. Len(T), j <= k
      PROVE  pos2[j] <= pos2[k]
  <2>1. CASE k = n + 1
    <3>1. pos2[k] = hi /\ (j # n + 1 => j \in 0 .. n /\ pos2[j] = pos[j])
      BY <1>2, <2>1
    <3>2. j # n + 1 => pos[j] <= mid /\ pos[j] \in Nat
      BY <1>1, <1>2, <3>1
    <3>. QED  BY <2>1, <3>1, <3>2
  <2>2. CASE k # n + 1
    <3>1. j \in 0 .. n /\ k \in 0 .. n /\ pos2[j] = pos[j] /\ pos2[k] = pos[k]
      BY <1>2, <1>5, <2>2
    <3>. QED  BY <1>1, <1>5, <3>1
  <2>. QED  BY <2>1, <2>2
<1>. HIDE DEF pos2
<1>. QED  BY <1>3, <1>4, <1>5 DEF Chain, T

\* The first piece and the rest.
LEMMA ChainTail ==
  ASSUME NEW Q, NEW P, NEW S \in Seq(P), S # <<>>,
         NEW lo \in Nat, NEW hi \in Nat, Chain(Q, lo, S, hi)
  PROVE  \E mid \in Nat : /\ lo <= mid /\ <<lo, Head(S), mid>> \in Q
                          /\ Chain(Q, mid, Tail(S), hi)
<1>1. PICK pos \in [0 .. Len(S) -> Nat] :
        /\ pos[0] = lo /\ pos[Len(S)] = hi
        /\ \A j, k \in 0 .. Len(S) : j <= k => pos[j] <= pos[k]
        /\ \A k \in 1 .. Len(S) : <<pos[k - 1], S[k], pos[k]>> \in Q
  BY DEF Chain
<1>. DEFINE n == Len(S)
            T == Tail(S)
            pos2 == [k \in 0 .. n - 1 |-> pos[k + 1]]
<1>2. /\ n \in Nat \ {0} /\ Len(T) = n - 1 /\ Head(S) = S[1]
      /\ \A k \in 1 .. n - 1 : T[k] = S[k + 1]
  BY HeadTailProperties, LenProperties
<1>. HIDE DEF T
<1>3. pos2 \in [0 .. Len(T) -> Nat] /\ pos2[0] = pos[1] /\ pos2[Len(T)] = hi
  BY <1>1, <1>2
<1>4. ASSUME NEW k \in 1 .. Len(T)  PROVE <<pos2[k - 1], T[k], pos2[k]>> \in Q
  <2>1. k + 1 \in 1 .. n /\ (k + 1) - 1 = k /\ k \in 0 .. n - 1 /\ k - 1 \in 0 .. n - 1
    BY <1>2
  <2>2. pos2[k - 1] = pos[k] /\ pos2[k] = pos[k + 1]
    BY <2>1
  <2>. QED  BY <1>1, <1>2, <2>1, <2>2
<1>5. <<lo, Head(S), pos[1]>> \in Q /\ pos[1] \in Nat /\ lo <= pos[1]
  <2>1. 1 \in 1 .. n /\ 1 - 1 = 0 /\ 0 \in 0 .. n /\ 1 \in 0 .. n
    BY <1>2
  <2>. QED  BY <1>1, <1>2, <2>1
<1>6. ASSUME NEW j \in 0 .. Len(T), NEW k \in 0 .. Len(T), j <= k
      PROVE  pos2[j] <= pos2[k]
  <2>1. /\ j + 1 \in 0 .. n /\ k + 1 \in 0 .. n /\ j + 1 <= k + 1
        /\ pos2[j] = pos[j + 1] /\ pos2[k] = pos[k + 1]
    BY <1>2, <1>6
  <2>. QED  BY <1>1, <2>1
<1>. HIDE DEF pos2
<1>7. Chain(Q, pos[1], T, hi)
  BY <1>3, <1>4, <1>6 DEF Chain
<1>. QED  BY <1>5, <1>7 DEF T

\* A piece before the first one.
LEMMA ChainCons ==
  ASSUME NEW Q, NEW P, NEW S \in Seq(P), NEW f \in P,
         NEW lo \in Nat, NEW mid \in Nat, NEW hi \in Nat,
         lo <= mid, <<lo, f, mid>> \in Q, Chain(Q, mid, S, hi)
  PROVE  Chain(Q, lo, <<f>> \o S, hi)
<1>1. PICK pos \in [0 .. Len(S) -> Nat] :
        /\ pos[0] = mid /\ pos[Len(S)] = hi
        /\ \A j, k \in 0 .. Len(S) : j <= k => pos[j] <= pos[k]
        /\ \A k \in 1 .. Len(S) : <<pos[k - 1], S[k], pos[k]>> \in Q
  BY DEF Chain
<1>. DEFINE n == Len(S)
            T == <<f>> \o S
            pos2 == [k \in 0 .. n + 1 |-> IF k = 0 THEN lo ELSE pos[k - 1]]
<1>2. /\ n \in Nat /\ Len(T) = n + 1 /\ T[1] = f
      /\ \A k \in 2 .. n + 1 : T[k] = S[k - 1]
  <2>1. <<f>> \in Seq(P) /\ Len(<<f>>) = 1 /\ <<f>>[1] = f /\ n \in Nat
    BY LenProperties
  <2>2. /\ Len(T) = Len(<<f>>) + n
        /\ \A k \in 1 .. Len(<<f>>) + n :
             T[k] = IF k <= Len(<<f>>) THEN <<f>>[k] ELSE S[k - Len(<<f>>)]
    BY <2>1, ConcatProperties
  <2>. QED  BY <2>1, <2>2
<1>. HIDE DEF T
<1>3. pos2 \in [0 .. Len(T) -> Nat] /\ pos2[0] = lo /\ pos2[Len(T)] = hi
  BY <1>1, <1>2
<1>4. ASSUME NEW k \in 1 .. Len(T)  PROVE <<pos2[k - 1], T[k], pos2[k]>> \in Q
  <2>1. CASE k = 1
    <3>1. pos2[1] = mid /\ pos2[0] = lo
      BY <1>1, <1>2
    <3>. QED  BY <1>2, <2>1, <3>1, SMTT(40)
  <2>2. CASE k # 1
    <3>1. k - 1 \in 1 .. n /\ k \in 2 .. n + 1 /\ (k - 1) - 1 \in 0 .. n
      BY <1>2, <2>2
    <3>2. pos2[k - 1] = pos[(k - 1) - 1] /\ pos2[k] = pos[k - 1] /\ T[k] = S[k - 1]
      BY <1>2, <2>2, <3>1
    <3>. QED  BY <1>1, <3>1, <3>2
  <2>. QED  BY <2>1, <2>2
<1>5. ASSUME NEW j \in 0 .. Len(T), NEW k \in 0 .. Len(T), j <= k
      PROVE  pos2[j] <= pos2[k]
  <2>1. CASE j = 0
    <3>1. pos2[j] = lo /\ (k # 0 => k - 1 \in 0 .. n /\ pos2[k] = pos[k - 1])
      BY <1>2, <2>1
    <3>2. ASSUME k # 0  PROVE mid <= pos[k - 1] /\ pos[k - 1] \in Nat
      <4>1. k - 1 \in 0 .. n /\ 0 \in 0 .. n /\ 0 <= k - 1
        BY <1>2, <3>2
      <4>. QED  BY <1>1, <4>1
    <3>. QED  BY <2>1, <3>1, <3>2
  <2>2. CASE j # 0
    <3>1. /\ j - 1 \in 0 .. n /\ k - 1 \in 0 .. n /\ j - 1 <= k - 1
          /\ pos2[j] = pos[j - 1] /\ pos2[k] = pos[k - 1]
      BY <1>2, <1>5, <2>2
    <3>. QED  BY <1>1, <3>1
  <2>. QED  BY <2>1, <2>2
<1>. HIDE DEF pos2
<1>. QED  BY <1>3, <1>4, <1>5 DEF Chain, T

-----------------------------------------------------------------------------
(* The order of the units.                                                 *)

\* A piece whose units rise from position a, not included, to position b.
Rises(a, s, b) ==
  /\ a <= b
  /\ \A i \in 1 .. Len(s) : a < s[i] /\ s[i] <= b
  /\ \A i, j \in 1 .. Len(s) : i < j => s[i] < s[j]

RisingPieces == { p \in Nat \X Seq(Nat) \X Nat : Rises(p[1], p[2], p[3]) }

\* The pieces that rise, as a set and as a predicate.
LEMMA RisingPiece ==
  ASSUME NEW a \in Nat, NEW s \in Seq(Nat), NEW b \in Nat
  PROVE  <<a, s, b>> \in RisingPieces <=> Rises(a, s, b)
BY DEF RisingPieces

\* No units rise from any position to a later one.
LEMMA RisesEmpty ==
  ASSUME NEW a \in Nat, NEW b \in Nat, a <= b
  PROVE  Rises(a, <<>>, b)
BY DEF Rises

\* Two pieces that follow each other are one piece.
LEMMA RisesConcat ==
  ASSUME NEW s \in Seq(Nat), NEW t \in Seq(Nat),
         NEW a \in Nat, NEW b \in Nat, NEW c \in Nat,
         Rises(a, s, b), Rises(b, t, c)
  PROVE  Rises(a, s \o t, c)
<1>. DEFINE m == Len(s)
            n == Len(t)
            r == s \o t
<1>1. /\ m \in Nat /\ n \in Nat /\ Len(r) = m + n
      /\ \A i \in 1 .. m + n : r[i] = IF i <= m THEN s[i] ELSE t[i - m]
  BY ConcatProperties, LenProperties
<1>2. \A i \in 1 .. m : s[i] \in Nat
  BY ElementOfSeq
<1>3. \A i \in 1 .. n : t[i] \in Nat
  BY ElementOfSeq
<1>. HIDE DEF m, n, r
<1>4. ASSUME NEW i \in 1 .. m + n
      PROVE  /\ i <= m => i \in 1 .. m /\ r[i] = s[i]
             /\ i > m => i - m \in 1 .. n /\ r[i] = t[i - m]
  BY <1>1
<1>5. /\ a <= b /\ b <= c
      /\ \A i \in 1 .. m : a < s[i] /\ s[i] <= b
      /\ \A i, j \in 1 .. m : i < j => s[i] < s[j]
      /\ \A i \in 1 .. n : b < t[i] /\ t[i] <= c
      /\ \A i, j \in 1 .. n : i < j => t[i] < t[j]
  BY DEF Rises, m, n
<1>6. ASSUME NEW i \in 1 .. m + n  PROVE a < r[i] /\ r[i] <= c
  <2>1. CASE i <= m
    <3>1. i \in 1 .. m /\ r[i] = s[i] /\ s[i] \in Nat
      BY <1>1, <1>2, <1>4, <2>1
    <3>. QED  BY <1>5, <3>1
  <2>2. CASE i > m
    <3>1. i - m \in 1 .. n /\ r[i] = t[i - m] /\ t[i - m] \in Nat
      BY <1>1, <1>3, <1>4, <2>2
    <3>. QED  BY <1>5, <3>1
  <2>. QED  BY <1>1, <2>1, <2>2
<1>7. ASSUME NEW i \in 1 .. m + n, NEW j \in 1 .. m + n, i < j
      PROVE  r[i] < r[j]
  <2>1. CASE j <= m
    <3>1. i \in 1 .. m /\ j \in 1 .. m /\ r[i] = s[i] /\ r[j] = s[j]
      BY <1>1, <1>7, <2>1
    <3>. QED  BY <1>5, <1>7, <3>1
  <2>2. CASE i <= m /\ j > m
    <3>1. /\ i \in 1 .. m /\ r[i] = s[i] /\ s[i] \in Nat
          /\ j - m \in 1 .. n /\ r[j] = t[j - m] /\ t[j - m] \in Nat
      BY <1>1, <1>2, <1>3, <2>2
    <3>. QED  BY <1>5, <3>1
  <2>3. CASE i > m
    <3>1. i - m \in 1 .. n /\ j - m \in 1 .. n /\ i - m < j - m
      BY <1>1, <1>4, <1>7, <2>3
    <3>2. t[i - m] < t[j - m]
      BY <1>5, <3>1
    <3>. QED  BY <1>1, <1>4, <1>7, <2>3, <3>2
  <2>. QED  BY <1>1, <1>7, <2>1, <2>2, <2>3
<1>8. a <= c
  BY <1>5
<1>. QED  BY <1>1, <1>6, <1>7, <1>8 DEF Rises, r

\* A piece is two pieces wherever it is cut.
LEMMA RisesCut ==
  ASSUME NEW s \in Seq(Nat), NEW n \in 1 .. Len(s),
         NEW a \in Nat, NEW b \in Nat, Rises(a, s, b)
  PROVE  \E c \in Nat : /\ Rises(a, SubSeq(s, 1, n), c)
                        /\ Rises(c, SubSeq(s, n + 1, Len(s)), b)
<1>. DEFINE l == Len(s)
            f == SubSeq(s, 1, n)
            r == SubSeq(s, n + 1, l)
<1>1. l \in Nat /\ n \in 1 .. l /\ \A i \in 1 .. l : s[i] \in Nat
  BY ElementOfSeq, LenProperties
<1>2. /\ Len(f) = n
      /\ \A i \in 1 .. n : f[i] = s[i]
  <2>1. \A i \in 1 .. n : s[i] \in Nat
    BY <1>1
  <2>2. /\ Len(f) = (IF 1 <= n THEN n - 1 + 1 ELSE 0)
        /\ \A i \in 1 .. n - 1 + 1 : f[i] = s[1 + i - 1]
    BY <1>1, <2>1, SubSeqProperties
  <2>3. n - 1 + 1 = n /\ \A i \in 1 .. n : 1 + i - 1 = i
    BY <1>1
  <2>. QED  BY <1>1, <2>2, <2>3
<1>3. /\ Len(r) = l - n
      /\ \A i \in 1 .. l - n : r[i] = s[n + i]
  <2>1. \A i \in n + 1 .. l : s[i] \in Nat
    BY <1>1
  <2>2. /\ Len(r) = (IF n + 1 <= l THEN l - (n + 1) + 1 ELSE 0)
        /\ \A i \in 1 .. l - (n + 1) + 1 : r[i] = s[(n + 1) + i - 1]
    BY <1>1, <2>1, SubSeqProperties
  <2>3. Len(r) = l - n
    BY <1>1, <2>2
  <2>4. ASSUME NEW i \in 1 .. l - n  PROVE r[i] = s[n + i]
    <3>1. i \in 1 .. l - (n + 1) + 1 /\ (n + 1) + i - 1 = n + i
      BY <1>1
    <3>. QED  BY <2>2, <3>1
  <2>. QED  BY <2>3, <2>4
<1>4. /\ a <= b
      /\ \A i \in 1 .. l : a < s[i] /\ s[i] <= b
      /\ \A i, j \in 1 .. l : i < j => s[i] < s[j]
  BY DEF Rises
<1>. HIDE DEF l, f, r
<1>5. Rises(a, f, s[n])
  <2>1. ASSUME NEW i \in 1 .. n  PROVE a < f[i] /\ f[i] <= s[n]
    <3>1. i \in 1 .. l /\ f[i] = s[i] /\ s[i] \in Nat /\ s[n] \in Nat
      BY <1>1, <1>2
    <3>2. i < n => s[i] < s[n]
      BY <1>1, <1>4, <3>1
    <3>. QED  BY <1>1, <1>4, <3>1, <3>2
  <2>2. ASSUME NEW i \in 1 .. n, NEW j \in 1 .. n, i < j  PROVE f[i] < f[j]
    <3>1. i \in 1 .. l /\ j \in 1 .. l
      BY <1>1
    <3>. QED  BY <1>2, <1>4, <2>2, <3>1
  <2>3. a <= s[n]
    BY <1>1, <1>4
  <2>. QED  BY <1>2, <2>1, <2>2, <2>3 DEF Rises
<1>6. Rises(s[n], r, b)
  <2>1. ASSUME NEW i \in 1 .. l - n  PROVE s[n] < r[i] /\ r[i] <= b
    <3>1. n + i \in 1 .. l /\ n < n + i /\ r[i] = s[n + i]
      BY <1>1, <1>3
    <3>. QED  BY <1>1, <1>4, <3>1
  <2>2. ASSUME NEW i \in 1 .. l - n, NEW j \in 1 .. l - n, i < j  PROVE r[i] < r[j]
    <3>1. n + i \in 1 .. l /\ n + j \in 1 .. l /\ n + i < n + j
      BY <1>1, <2>2
    <3>2. s[n + i] < s[n + j]
      BY <1>4, <3>1
    <3>. QED  BY <1>3, <3>2
  <2>. QED  BY <1>1, <1>3, <1>4, <2>1, <2>2 DEF Rises
<1>. QED  BY <1>1, <1>5, <1>6 DEF f, r, l

\* The parts of a sequence are sequences.
LEMMA PieceTypes ==
  ASSUME NEW s \in Seq(Nat), NEW n \in 1 .. Len(s)
  PROVE  SubSeq(s, 1, n) \in Seq(Nat) /\ SubSeq(s, n + 1, Len(s)) \in Seq(Nat)
<1>1. Len(s) \in Nat /\ n \in Int /\ \A i \in 1 .. Len(s) : s[i] \in Nat
  BY ElementOfSeq, LenProperties
<1>2. SubSeq(s, 1, n) \in Seq(Nat)
  <2>1. \A i \in 1 .. n : s[i] \in Nat
    BY <1>1
  <2>. QED  BY <1>1, <2>1, SubSeqProperties
<1>3. SubSeq(s, n + 1, Len(s)) \in Seq(Nat)
  <2>1. \A i \in n + 1 .. Len(s) : s[i] \in Nat
    BY <1>1
  <2>. QED  BY <1>1, <2>1, SubSeqProperties
<1>. QED  BY <1>2, <1>3

\* A piece may end later than its last unit, and begin earlier than its first.
LEMMA RisesWider ==
  ASSUME NEW s \in Seq(Nat), NEW a \in Nat, NEW b \in Nat, NEW c \in Nat,
         NEW d \in Nat, Rises(b, s, c), a <= b, c <= d
  PROVE  Rises(a, s, d)
<1>1. \A i \in 1 .. Len(s) : s[i] \in Nat
  BY ElementOfSeq
<1>. QED  BY <1>1 DEF Rises

-----------------------------------------------------------------------------
(* The packets of the FPGA.                                                *)

\* A piece that is every unit from a, not included, to b, all of one slot.
IsPacket(a, s, b) ==
  /\ a < b /\ Len(s) = b - a
  /\ \A i \in 1 .. Len(s) : s[i] = a + i
  /\ \E q \in Nat : q * SlotUnits <= a /\ b <= (q + 1) * SlotUnits

Packets == { p \in Nat \X Seq(Nat) \X Nat : IsPacket(p[1], p[2], p[3]) }

\* The packets of a slot, as a set and as a predicate.
LEMMA PacketPiece ==
  ASSUME NEW a \in Nat, NEW s \in Seq(Nat), NEW b \in Nat
  PROVE  <<a, s, b>> \in Packets <=> IsPacket(a, s, b)
BY DEF Packets

\* A packet that begins inside a slot ends with it at the latest.
LEMMA PacketInSlot ==
  ASSUME NEW n \in Nat, NEW off \in 0 .. SlotUnits - 1, NEW b \in Nat, NEW s,
         IsPacket(n * SlotUnits + off, s, b)
  PROVE  b <= n * SlotUnits + SlotUnits
<1>1. SlotUnits \in Nat \ {0}
  BY PathAssumption
<1>2. PICK q \in Nat : /\ q * SlotUnits <= n * SlotUnits + off
                       /\ n * SlotUnits + off < b /\ b <= (q + 1) * SlotUnits
  BY DEF IsPacket
<1>3. (q + 1) * SlotUnits = q * SlotUnits + SlotUnits /\ q * SlotUnits \in Nat
      /\ n * SlotUnits \in Nat
  BY <1>1
<1>4. q <= n
  <2>. SUFFICES ASSUME q > n  PROVE FALSE
    OBVIOUS
  <2>1. PICK d \in Nat : q = n + 1 + d
    <3>1. q - n - 1 \in Nat /\ q = n + 1 + (q - n - 1)
      OBVIOUS
    <3>. QED  BY <3>1
  <2>2. q * SlotUnits = n * SlotUnits + SlotUnits + d * SlotUnits /\ d * SlotUnits \in Nat
    BY <1>1, <2>1
  <2>. QED  BY <1>1, <1>2, <1>3, <2>2
<1>5. q * SlotUnits <= n * SlotUnits
  <2>1. PICK d \in Nat : n = q + d
    <3>1. n - q \in Nat /\ n = q + (n - q)
      BY <1>4
    <3>. QED  BY <3>1
  <2>2. n * SlotUnits = q * SlotUnits + d * SlotUnits /\ d * SlotUnits \in Nat
    BY <1>1, <2>1
  <2>. QED  BY <1>3, <2>2
<1>. QED  BY <1>1, <1>2, <1>3, <1>5

\* The next packet of the FPGA is one, and it rises.
LEMMA NextPacketFacts ==
  ASSUME fpga \in Nat
  PROVE  /\ NextPacket \in Seq(Nat) /\ Len(NextPacket) \in Nat \ {0}
         /\ IsPacket(fpga, NextPacket, fpga + Len(NextPacket))
         /\ Rises(fpga, NextPacket, fpga + Len(NextPacket))
<1>. DEFINE left == SlotUnits - (fpga % SlotUnits)
            size == IF left < PktUnits THEN left ELSE PktUnits
<1>1. SlotUnits \in Nat \ {0} /\ PktUnits \in Nat \ {0}
  BY PathAssumption
<1>2. /\ fpga % SlotUnits \in 0 .. SlotUnits - 1 /\ fpga \div SlotUnits \in Nat
      /\ fpga = SlotUnits * (fpga \div SlotUnits) + (fpga % SlotUnits)
  BY <1>1
<1>3. size \in Nat \ {0} /\ size <= left
  BY <1>1, <1>2
<1>4. NextPacket = [u \in 1 .. size |-> fpga + u]
  BY DEF NextPacket
<1>5. /\ NextPacket \in Seq(Nat) /\ Len(NextPacket) = size
      /\ \A u \in 1 .. size : NextPacket[u] = fpga + u
  <2>. HIDE DEF size
  <2>. QED  BY <1>3, <1>4
<1>6. \E q \in Nat : q * SlotUnits <= fpga /\ fpga + size <= (q + 1) * SlotUnits
  <2>. DEFINE q == fpga \div SlotUnits
              r == fpga % SlotUnits
  <2>1. q \in Nat /\ r \in 0 .. SlotUnits - 1 /\ fpga = SlotUnits * q + r
        /\ size <= SlotUnits - r
    BY <1>2, <1>3
  <2>. HIDE DEF q, r, size
  <2>2. (q + 1) * SlotUnits = SlotUnits * q + SlotUnits /\ q * SlotUnits = SlotUnits * q
        /\ SlotUnits * q \in Nat
    BY <1>1, <2>1
  <2>3. q * SlotUnits <= fpga /\ fpga + size <= (q + 1) * SlotUnits
    BY <1>1, <1>3, <2>1, <2>2
  <2>. QED  BY <2>1, <2>3
<1>. HIDE DEF size
<1>. QED  BY <1>3, <1>5, <1>6 DEF IsPacket, Rises

-----------------------------------------------------------------------------
(* The inductive invariant.                                                *)

PathTypes ==
  /\ fpga \in Nat /\ nic \in Seq(Seq(Nat))
  /\ ul_data \in Seq(Nat) /\ linked \in BOOLEAN
  /\ bridge_pc \in {"connect", "loop", "send"}
  /\ socket \in Seq(Seq(Nat)) /\ sent \in Seq(Seq(Nat))
  /\ reader \in {"recv", "off", "stopping", "stopped"}
  /\ queue \in Seq(Seq(Nat)) /\ units_out \in Seq(Nat)
  /\ lost \in Nat

\* What is out, queued, in the socket, in the bridge and in the NIC are pieces
\* that follow each other: a, b, c, d and e are where one ends and the next
\* begins.
Ordered(a, b, c, d, e) ==
  /\ Rises(0, units_out, a)
  /\ Chain(RisingPieces, a, queue, b)
  /\ Chain(RisingPieces, b, socket, c)
  /\ Rises(c, ul_data, d)
  /\ Chain(RisingPieces, d, nic, e)
  /\ e <= fpga

UnitsInOrder == \E a, b, c, d, e \in Nat : Ordered(a, b, c, d, e)

\* Units of the frames that were sent.
SentUnits == Len(sent) * SlotUnits

\* The bridge has the beginning of the next slot, and the NIC what follows.
SlotInBridge ==
  /\ \A i \in 1 .. Len(ul_data) : ul_data[i] = SentUnits + i
  /\ IF bridge_pc = "send" THEN Len(ul_data) = SlotUnits ELSE Len(ul_data) < SlotUnits
  /\ Chain(Packets, SentUnits + Len(ul_data), nic, fpga)

Clean ==
  /\ FramesAreSlots
  /\ reader # "off" /\ bridge_pc # "connect"
  /\ \A k \in 1 .. Len(socket) : Len(socket[k]) = SlotUnits
  /\ reader # "stopped" => SlotInBridge

NoLoss == (lost = 0 /\ linked) => Clean

-----------------------------------------------------------------------------
(* The types.                                                              *)

\* The types hold at the start.
LEMMA InitTypes == PathInit => PathTypes
BY DEF PathInit, PathTypes

\* Every step keeps the types.
LEMMA StepTypes ==
  ASSUME PathTypes, [PathNext]_pathVars  PROVE PathTypes'
<1>. USE DEF bridgeVars, sourceVars
<1>1. CASE Arrive
  <2>1. NextPacket \in Seq(Nat) /\ Len(NextPacket) \in Nat
    BY NextPacketFacts DEF PathTypes
  <2>2. nic' \in Seq(Seq(Nat)) /\ fpga' \in Nat
    BY <1>1, <2>1, AppendProperties DEF Arrive, PathTypes
  <2>. QED  BY <1>1, <2>2 DEF Arrive, PathTypes
<1>2. CASE Lose
  <2>1. NextPacket \in Seq(Nat) /\ Len(NextPacket) \in Nat
    BY NextPacketFacts DEF PathTypes
  <2>. QED  BY <1>2, <2>1 DEF Lose, PathTypes
<1>3. CASE BridgeGather
  <2>1. nic \in Seq(Seq(Nat)) /\ nic # <<>> /\ ul_data \in Seq(Nat)
    BY <1>3 DEF BridgeGather, PathTypes
  <2>2. Head(nic) \in Seq(Nat) /\ Tail(nic) \in Seq(Seq(Nat))
    BY <2>1, HeadTailProperties
  <2>3. ul_data' \in Seq(Nat) /\ nic' \in Seq(Seq(Nat))
    BY <1>3, <2>1, <2>2, ConcatProperties DEF BridgeGather
  <2>. QED  BY <1>3, <2>3 DEF BridgeGather, PathTypes
<1>4. CASE BridgeSend
  <2>1. socket' \in Seq(Seq(Nat)) /\ sent' \in Seq(Seq(Nat))
    BY <1>4, AppendProperties DEF BridgeSend, PathTypes
  <2>. QED  BY <1>4, <2>1 DEF BridgeSend, PathTypes
<1>5. CASE BridgeSendFail \/ BridgeReconnect \/ BridgeDie
  <2>1. <<>> \in Seq(Nat) /\ <<>> \in Seq(Seq(Nat))
    BY EmptySeq
  <2>2. nic' \in Seq(Seq(Nat)) /\ ul_data' \in Seq(Nat) /\ linked' \in BOOLEAN
    BY <1>5, <2>1 DEF BridgeSendFail, BridgeReconnect, BridgeDie, PathTypes
  <2>. QED  BY <1>5, <2>2 DEF BridgeSendFail, BridgeReconnect, BridgeDie, PathTypes
<1>6. CASE SourceRecv
  <2>1. socket # <<>> /\ socket \in Seq(Seq(Nat))
    BY <1>6 DEF SourceRecv, PathTypes
  <2>2. Head(socket) \in Seq(Nat) /\ socket' \in Seq(Seq(Nat))
    BY <1>6, <2>1, HeadTailProperties DEF SourceRecv
  <2>3. queue' \in Seq(Seq(Nat)) /\ units_out' = units_out
    BY <1>6, <2>2, AppendProperties DEF SourceRecv, Ring!Accept, PathTypes
  <2>. QED  BY <1>6, <2>2, <2>3 DEF SourceRecv, PathTypes
<1>7. CASE SourceOff \/ SourceStop
  <2>1. socket' \in Seq(Seq(Nat))
    BY <1>7, EmptySeq DEF SourceOff, SourceStop, PathTypes
  <2>2. UNCHANGED <<fpga, nic, ul_data, linked, bridge_pc, queue, units_out, sent, lost>>
        /\ reader' \in {"off", "stopping", "stopped"}
    BY <1>7 DEF SourceOff, SourceStop
  <2>. QED  BY <2>1, <2>2 DEF PathTypes
<1>8. CASE SourceWork
  <2>1. PICK n \in 1 .. Len(Head(queue)) : Ring!Deliver(n)
    BY <1>8 DEF SourceWork
  <2>. DEFINE head == Head(queue)
              rest == SubSeq(head, n + 1, Len(head))
  <2>2. queue # <<>> /\ queue \in Seq(Seq(Nat)) /\ units_out \in Seq(Nat)
    BY <1>8 DEF SourceWork, PathTypes
  <2>3. head \in Seq(Nat) /\ Tail(queue) \in Seq(Seq(Nat))
    BY <2>2, HeadTailProperties
  <2>4. SubSeq(head, 1, n) \in Seq(Nat) /\ rest \in Seq(Nat)
    BY <2>1, <2>3, PieceTypes
  <2>5. units_out' = units_out \o SubSeq(head, 1, n)
        /\ queue' \in {Tail(queue), <<rest>> \o Tail(queue)}
    BY <2>1 DEF Ring!Deliver
  <2>. HIDE DEF head, rest
  <2>6. <<rest>> \o Tail(queue) \in Seq(Seq(Nat))
    <3>1. <<rest>> \in Seq(Seq(Nat))
      BY <2>4
    <3>. QED  BY <2>3, <3>1, ConcatProperties
  <2>7. units_out' \in Seq(Nat) /\ queue' \in Seq(Seq(Nat))
    BY <2>2, <2>3, <2>4, <2>5, <2>6, ConcatProperties
  <2>. QED  BY <1>8, <2>7 DEF SourceWork, PathTypes
<1>9. CASE SourceStopJoin
  <2>1. CASE socket # <<>> /\ Ring!Accept(Head(socket))
    <3>1. Head(socket) \in Seq(Nat)
      BY <2>1, HeadTailProperties DEF PathTypes
    <3>2. queue' \in Seq(Seq(Nat)) /\ units_out' = units_out
      BY <2>1, <3>1, AppendProperties DEF Ring!Accept, PathTypes
    <3>. QED  BY <1>9, <3>2, EmptySeq DEF SourceStopJoin, PathTypes
  <2>2. CASE UNCHANGED <<queue, units_out>>
    BY <1>9, <2>2, EmptySeq DEF SourceStopJoin, PathTypes
  <2>. QED  BY <1>9, <2>1, <2>2 DEF SourceStopJoin
<1>10. CASE UNCHANGED pathVars
  BY <1>10 DEF pathVars, PathTypes
<1>. QED
  BY <1>1, <1>2, <1>3, <1>4, <1>5, <1>6, <1>7, <1>8, <1>9, <1>10
  DEF PathNext, Bridge, Reader

-----------------------------------------------------------------------------
(* The order.                                                              *)

\* No unit is anywhere at the start.
LEMMA InitOrder == PathInit => UnitsInOrder
<1>. SUFFICES ASSUME PathInit  PROVE Ordered(0, 0, 0, 0, 0)
  BY DEF UnitsInOrder
<1>1. Chain(RisingPieces, 0, <<>>, 0) /\ Rises(0, <<>>, 0)
  BY ChainEmpty, RisesEmpty
<1>. QED  BY <1>1 DEF PathInit, Ordered

\* The pieces of a state that is ordered.
LEMMA OrderedFacts ==
  ASSUME PathTypes, NEW a \in Nat, NEW b \in Nat, NEW c \in Nat, NEW d \in Nat,
         NEW e \in Nat, Ordered(a, b, c, d, e)
  PROVE  a <= b /\ b <= c /\ c <= d /\ d <= e /\ e <= fpga
<1>1. /\ Chain(RisingPieces, a, queue, b) /\ Chain(RisingPieces, b, socket, c)
      /\ Chain(RisingPieces, d, nic, e) /\ Rises(c, ul_data, d) /\ e <= fpga
      /\ queue \in Seq(Seq(Nat)) /\ socket \in Seq(Seq(Nat)) /\ nic \in Seq(Seq(Nat))
  BY DEF Ordered, PathTypes
<1>2. a <= b /\ b <= c /\ d <= e
  BY <1>1, ChainGrows
<1>. QED  BY <1>1, <1>2 DEF Rises

\* The FPGA and the bridge keep the order.
LEMMA BridgeOrder ==
  ASSUME PathTypes, UnitsInOrder, Arrive \/ Lose \/ Bridge \/ BridgeDie
  PROVE  UnitsInOrder'
<1>1. PICK a \in Nat, b \in Nat, c \in Nat, d \in Nat, e \in Nat :
        Ordered(a, b, c, d, e)
  BY DEF UnitsInOrder
<1>2. a <= b /\ b <= c /\ c <= d /\ d <= e /\ e <= fpga
  BY <1>1, OrderedFacts
<1>3. /\ fpga \in Nat /\ nic \in Seq(Seq(Nat)) /\ ul_data \in Seq(Nat)
      /\ socket \in Seq(Seq(Nat))
  BY DEF PathTypes
<1>4. /\ Rises(0, units_out, a) /\ Chain(RisingPieces, a, queue, b)
      /\ Chain(RisingPieces, b, socket, c)
      /\ Rises(c, ul_data, d) /\ Chain(RisingPieces, d, nic, e)
  BY <1>1 DEF Ordered
<1>5. CASE Arrive
  <2>1. PICK p \in Seq(Nat), f \in Nat :
          p = NextPacket /\ f = fpga + Len(p) /\ Rises(fpga, p, f) /\ fpga <= f
    BY <1>3, NextPacketFacts
  <2>2. /\ fpga' = f /\ nic' = Append(nic, p)
        /\ UNCHANGED <<units_out, queue, socket, ul_data>>
    BY <1>5, <2>1 DEF Arrive, bridgeVars, sourceVars
  <2>3. <<e, p, f>> \in RisingPieces /\ e <= f
    BY <1>2, <1>3, <2>1, RisesWider, RisingPiece
  <2>4. Chain(RisingPieces, d, nic', f)
    BY <1>3, <1>4, <2>1, <2>2, <2>3, ChainAppend
  <2>5. Ordered(a, b, c, d, f)'
    BY <1>4, <2>1, <2>2, <2>4 DEF Ordered
  <2>. QED  BY <2>1, <2>5 DEF UnitsInOrder
<1>6. CASE Lose
  <2>1. Len(NextPacket) \in Nat
    BY <1>3, NextPacketFacts
  <2>2. /\ fpga' = fpga + Len(NextPacket)
        /\ UNCHANGED <<units_out, queue, socket, ul_data, nic>>
    BY <1>6 DEF Lose, bridgeVars, sourceVars
  <2>3. e <= fpga'
    BY <1>2, <1>3, <2>1, <2>2
  <2>4. Ordered(a, b, c, d, e)'
    BY <1>4, <2>2, <2>3 DEF Ordered
  <2>. QED  BY <2>4 DEF UnitsInOrder
<1>7. CASE BridgeGather
  <2>1. /\ nic # <<>> /\ ul_data' = ul_data \o Head(nic) /\ nic' = Tail(nic)
        /\ UNCHANGED <<fpga, socket, units_out, queue>>
    BY <1>7 DEF BridgeGather, sourceVars
  <2>2. PICK m \in Nat : /\ <<d, Head(nic), m>> \in RisingPieces
                         /\ Chain(RisingPieces, m, Tail(nic), e)
    BY <1>3, <1>4, <2>1, ChainTail
  <2>3. Head(nic) \in Seq(Nat)
    BY <1>3, <2>1, HeadTailProperties
  <2>4. Rises(d, Head(nic), m)
    BY <2>2, <2>3, RisingPiece
  <2>5. Rises(c, ul_data', m)
    BY <1>3, <1>4, <2>1, <2>3, <2>4, RisesConcat
  <2>6. Ordered(a, b, c, m, e)'
    BY <1>2, <1>4, <2>1, <2>2, <2>5 DEF Ordered
  <2>. QED  BY <2>6 DEF UnitsInOrder
<1>8. CASE BridgeSend
  <2>1. /\ socket' = Append(socket, ul_data) /\ ul_data' = <<>>
        /\ UNCHANGED <<fpga, nic, units_out, queue>>
    BY <1>8 DEF BridgeSend, sourceVars
  <2>2. <<c, ul_data, d>> \in RisingPieces
    BY <1>3, <1>4, RisingPiece
  <2>3. Chain(RisingPieces, b, socket', d) /\ Rises(d, <<>>, d)
    BY <1>2, <1>3, <1>4, <2>1, <2>2, ChainAppend, RisesEmpty
  <2>4. Ordered(a, b, d, d, e)'
    BY <1>2, <1>4, <2>1, <2>3 DEF Ordered
  <2>. QED  BY <2>4 DEF UnitsInOrder
<1>9. CASE BridgeSendFail \/ BridgeReconnect \/ BridgeDie
  <2>1. /\ UNCHANGED <<fpga, socket, units_out, queue>>
        /\ ul_data' = <<>> \/ UNCHANGED ul_data
        /\ nic' = <<>> \/ UNCHANGED nic
    BY <1>9 DEF BridgeSendFail, BridgeReconnect, BridgeDie, sourceVars
  <2>2. Rises(c, ul_data', d)
    BY <1>2, <1>4, <2>1, RisesEmpty
  <2>3. PICK f \in {d, e} : Chain(RisingPieces, d, nic', f)
    BY <1>4, <2>1, ChainEmpty
  <2>4. f \in Nat /\ f <= fpga'
    BY <1>2, <1>3, <2>1
  <2>5. Ordered(a, b, c, d, f)'
    BY <1>4, <2>1, <2>2, <2>3, <2>4 DEF Ordered
  <2>. QED  BY <2>4, <2>5 DEF UnitsInOrder
<1>. QED  BY <1>5, <1>6, <1>7, <1>8, <1>9 DEF Bridge

\* The reader, work() and stop() of the source keep the order.
LEMMA SourceOrder ==
  ASSUME PathTypes, UnitsInOrder, Reader \/ SourceWork \/ SourceStop
  PROVE  UnitsInOrder'
<1>1. PICK a \in Nat, b \in Nat, c \in Nat, d \in Nat, e \in Nat :
        Ordered(a, b, c, d, e)
  BY DEF UnitsInOrder
<1>2. a <= b /\ b <= c /\ c <= d /\ d <= e /\ e <= fpga
  BY <1>1, OrderedFacts
<1>3. /\ fpga \in Nat /\ queue \in Seq(Seq(Nat)) /\ ul_data \in Seq(Nat)
      /\ socket \in Seq(Seq(Nat)) /\ units_out \in Seq(Nat)
  BY DEF PathTypes
<1>4. /\ Rises(0, units_out, a) /\ Chain(RisingPieces, a, queue, b)
      /\ Chain(RisingPieces, b, socket, c)
      /\ Rises(c, ul_data, d) /\ Chain(RisingPieces, d, nic, e)
  BY <1>1 DEF Ordered
<1>5. CASE SourceRecv
  <2>1. /\ socket # <<>> /\ socket' = Tail(socket)
        /\ queue' = Append(queue, Head(socket))
        /\ UNCHANGED <<fpga, nic, ul_data, units_out>>
    BY <1>5 DEF SourceRecv, Ring!Accept, bridgeVars
  <2>2. PICK m \in Nat : /\ b <= m /\ <<b, Head(socket), m>> \in RisingPieces
                         /\ Chain(RisingPieces, m, Tail(socket), c)
    BY <1>3, <1>4, <2>1, ChainTail
  <2>3. Head(socket) \in Seq(Nat)
    BY <1>3, <2>1, HeadTailProperties
  <2>4. Chain(RisingPieces, a, queue', m)
    BY <1>3, <1>4, <2>1, <2>2, <2>3, ChainAppend
  <2>5. Ordered(a, m, c, d, e)'
    BY <1>2, <1>4, <2>1, <2>2, <2>4 DEF Ordered
  <2>. QED  BY <2>5 DEF UnitsInOrder
<1>6. CASE SourceOff \/ (SourceStop /\ UNCHANGED socket)
  <2>1. UNCHANGED <<fpga, nic, ul_data, socket, queue, units_out>>
    BY <1>6 DEF SourceOff, SourceStop, bridgeVars
  <2>2. Ordered(a, b, c, d, e)'
    BY <1>2, <1>4, <2>1 DEF Ordered
  <2>. QED  BY <2>2 DEF UnitsInOrder
<1>7. CASE (SourceStop \/ SourceStopJoin) /\ UNCHANGED queue /\ socket' = <<>>
  <2>1. UNCHANGED <<fpga, nic, ul_data, queue, units_out>> /\ socket' = <<>>
    BY <1>7 DEF SourceStop, SourceStopJoin, Ring!Accept, bridgeVars
  <2>2. Rises(b, ul_data, d) /\ Chain(RisingPieces, b, <<>>, b)
    BY <1>2, <1>3, <1>4, RisesWider, ChainEmpty
  <2>3. Ordered(a, b, b, d, e)'
    BY <1>2, <1>4, <2>1, <2>2 DEF Ordered
  <2>. QED  BY <2>3 DEF UnitsInOrder
<1>8. CASE SourceStopJoin /\ socket # <<>> /\ Ring!Accept(Head(socket))
  <2>1. /\ socket' = <<>> /\ queue' = Append(queue, Head(socket))
        /\ UNCHANGED <<fpga, nic, ul_data, units_out>>
    BY <1>8 DEF SourceStopJoin, Ring!Accept, bridgeVars
  <2>2. PICK m \in Nat : /\ b <= m /\ <<b, Head(socket), m>> \in RisingPieces
                         /\ Chain(RisingPieces, m, Tail(socket), c)
    BY <1>3, <1>4, <1>8, ChainTail
  <2>3. Head(socket) \in Seq(Nat) /\ Tail(socket) \in Seq(Seq(Nat))
    BY <1>3, <1>8, HeadTailProperties
  <2>4. Chain(RisingPieces, a, queue', m)
    BY <1>3, <1>4, <2>1, <2>2, <2>3, ChainAppend
  <2>5. m <= c
    BY <2>2, <2>3, ChainGrows
  <2>6. Rises(m, ul_data, d) /\ Chain(RisingPieces, m, <<>>, m)
    BY <1>2, <1>3, <1>4, <2>5, RisesWider, ChainEmpty
  <2>7. Ordered(a, m, m, d, e)'
    BY <1>2, <1>4, <2>1, <2>2, <2>4, <2>6 DEF Ordered
  <2>. QED  BY <2>7 DEF UnitsInOrder
<1>9. CASE SourceWork
  <2>1. PICK n \in 1 .. Len(Head(queue)) : Ring!Deliver(n)
    BY <1>9 DEF SourceWork
  <2>. DEFINE head == Head(queue)
              piece == SubSeq(head, 1, n)
              rest == SubSeq(head, n + 1, Len(head))
  <2>2. /\ queue # <<>> /\ units_out' = units_out \o piece
        /\ queue' = (IF n = Len(head) THEN Tail(queue) ELSE <<rest>> \o Tail(queue))
        /\ UNCHANGED <<fpga, nic, ul_data, socket>>
    BY <1>9, <2>1 DEF SourceWork, Ring!Deliver, bridgeVars
  <2>3. head \in Seq(Nat) /\ Tail(queue) \in Seq(Seq(Nat)) /\ Len(head) \in Nat
        /\ n \in 1 .. Len(head)
    BY <1>3, <2>1, <2>2, HeadTailProperties, LenProperties
  <2>4. PICK m \in Nat : /\ a <= m /\ <<a, head, m>> \in RisingPieces
                         /\ Chain(RisingPieces, m, Tail(queue), b)
    BY <1>3, <1>4, <2>2, ChainTail
  <2>5. piece \in Seq(Nat) /\ rest \in Seq(Nat)
    BY <2>3, PieceTypes
  <2>6. PICK k \in Nat : Rises(a, piece, k) /\ Rises(k, rest, m)
    <3>. HIDE DEF head
    <3>1. Rises(a, head, m)
      BY <2>3, <2>4, RisingPiece
    <3>. QED  BY <2>3, <2>4, <3>1, RisesCut
  <2>. HIDE DEF head, piece, rest
  <2>7. k <= m
    BY <2>6 DEF Rises
  <2>8. Rises(0, units_out', k)
    BY <1>3, <1>4, <2>2, <2>5, <2>6, RisesConcat
  <2>9. CASE n = Len(head)
    <3>1. Rises(0, units_out', m)
      <4>1. units_out' \in Seq(Nat)
        BY <1>3, <2>2, <2>5, ConcatProperties
      <4>. QED  BY <2>7, <2>8, <4>1, RisesWider
    <3>2. Ordered(m, b, c, d, e)'
      BY <1>2, <1>4, <2>2, <2>4, <2>9, <3>1 DEF Ordered
    <3>. QED  BY <3>2 DEF UnitsInOrder
  <2>10. CASE n # Len(head)
    <3>1. <<k, rest, m>> \in RisingPieces
      BY <2>5, <2>6, RisingPiece
    <3>2. Chain(RisingPieces, k, <<rest>> \o Tail(queue), b)
      BY <2>3, <2>4, <2>5, <2>7, <3>1, ChainCons
    <3>3. Ordered(k, b, c, d, e)'
      BY <1>2, <1>4, <2>2, <2>8, <2>10, <3>2 DEF Ordered
    <3>. QED  BY <3>3 DEF UnitsInOrder
  <2>. QED  BY <2>9, <2>10
<1>10. CASE SourceStop
  BY <1>6, <1>7, <1>10 DEF SourceStop
<1>11. CASE SourceStopJoin
  BY <1>7, <1>8, <1>11 DEF SourceStopJoin
<1>. QED  BY <1>5, <1>6, <1>9, <1>10, <1>11 DEF Reader

-----------------------------------------------------------------------------
(* Nothing lost, on the accepted connection.                               *)

\* No unit is anywhere at the start.
LEMMA InitNoLoss == PathInit => NoLoss
<1>. SUFFICES ASSUME PathInit  PROVE Clean
  BY DEF NoLoss
<1>1. SlotUnits \in Nat \ {0} /\ Len(<<>>) = 0 /\ 1 .. 0 = {}
  BY PathAssumption
<1>2. SentUnits = 0
  BY <1>1 DEF PathInit, SentUnits
<1>3. Chain(Packets, 0, <<>>, 0)
  BY ChainEmpty
<1>4. SlotInBridge
  <2>1. SentUnits + Len(ul_data) = 0
    BY <1>1, <1>2 DEF PathInit
  <2>. QED  BY <1>1, <1>3, <2>1 DEF PathInit, SlotInBridge
<1>. QED  BY <1>1, <1>4 DEF PathInit, Clean, FramesAreSlots

\* A packet that arrives follows what the NIC has.
LEMMA ArriveClean ==
  ASSUME PathTypes, Clean, Arrive  PROVE Clean'
<1>1. PICK p \in Seq(Nat), f \in Nat :
        p = NextPacket /\ f = fpga + Len(p) /\ IsPacket(fpga, p, f) /\ fpga <= f
  BY NextPacketFacts DEF PathTypes
<1>2. /\ fpga' = f /\ nic' = Append(nic, p)
      /\ UNCHANGED <<ul_data, bridge_pc, socket, reader, sent>>
  BY <1>1 DEF Arrive, bridgeVars, sourceVars
<1>3. /\ fpga \in Nat /\ nic \in Seq(Seq(Nat)) /\ SentUnits + Len(ul_data) \in Nat
  <2>1. Len(sent) \in Nat /\ Len(ul_data) \in Nat /\ SlotUnits \in Nat
    BY PathAssumption, LenProperties DEF PathTypes
  <2>2. SentUnits \in Nat
    BY <2>1 DEF SentUnits
  <2>3. SentUnits + Len(ul_data) \in Nat
    BY <2>1, <2>2
  <2>. QED  BY <2>3 DEF PathTypes
<1>4. <<fpga, p, f>> \in Packets
  BY <1>1, <1>3, PacketPiece
<1>5. ASSUME reader # "stopped"  PROVE SlotInBridge'
  <2>1. SlotInBridge
    BY <1>5 DEF Clean
  <2>2. Chain(Packets, SentUnits + Len(ul_data), nic', f)
    <3>1. Chain(Packets, SentUnits + Len(ul_data), nic, fpga)
      BY <2>1 DEF SlotInBridge
    <3>. HIDE DEF SentUnits
    <3>. QED  BY <1>1, <1>2, <1>3, <1>4, <3>1, ChainAppend
  <2>. QED  BY <1>2, <2>1, <2>2 DEF SlotInBridge, SentUnits
<1>. QED  BY <1>2, <1>5 DEF Clean, FramesAreSlots

\* The bridge gathers the packet that follows, and no packet crosses a slot.
LEMMA GatherClean ==
  ASSUME PathTypes, Clean, BridgeGather  PROVE Clean'
<1>1. /\ bridge_pc = "loop" /\ nic # <<>> /\ ul_data' = ul_data \o Head(nic)
      /\ nic' = Tail(nic)
      /\ bridge_pc' = IF Len(ul_data') >= SlotUnits THEN "send" ELSE "loop"
      /\ UNCHANGED <<fpga, socket, reader, sent>>
  BY DEF BridgeGather, sourceVars
<1>2. /\ fpga \in Nat /\ nic \in Seq(Seq(Nat)) /\ ul_data \in Seq(Nat)
      /\ Len(sent) \in Nat /\ Len(ul_data) \in Nat /\ SlotUnits \in Nat \ {0}
  BY PathAssumption, LenProperties DEF PathTypes
<1>3. SentUnits \in Nat /\ SentUnits' = SentUnits
  BY <1>1, <1>2 DEF SentUnits
<1>4. ASSUME reader # "stopped"  PROVE SlotInBridge'
  <2>. DEFINE h == Head(nic)
              u == ul_data \o h
              at == SentUnits + Len(ul_data)
  <2>1. /\ \A i \in 1 .. Len(ul_data) : ul_data[i] = SentUnits + i
        /\ Len(ul_data) < SlotUnits
        /\ Chain(Packets, at, nic, fpga)
    BY <1>1, <1>4 DEF Clean, SlotInBridge
  <2>2. at \in Nat
    BY <1>2, <1>3
  <2>3. PICK b \in Nat : <<at, h, b>> \in Packets /\ Chain(Packets, b, Tail(nic), fpga)
    <3>. HIDE DEF at
    <3>. QED  BY <1>1, <1>2, <2>1, <2>2, ChainTail
  <2>4. h \in Seq(Nat)
    BY <1>1, <1>2, HeadTailProperties
  <2>5. IsPacket(at, h, b)
    <3>. HIDE DEF at, h
    <3>. QED  BY <2>2, <2>3, <2>4, PacketPiece
  <2>6. b <= SentUnits + SlotUnits
    <3>1. Len(ul_data) \in 0 .. SlotUnits - 1
      BY <1>2, <2>1
    <3>. QED  BY <1>2, <2>5, <3>1, PacketInSlot DEF SentUnits
  <2>7. /\ at < b /\ Len(h) = b - at
        /\ \A i \in 1 .. Len(h) : h[i] = at + i
    BY <2>5 DEF IsPacket
  <2>8. /\ u \in Seq(Nat) /\ Len(u) = Len(ul_data) + Len(h)
        /\ \A i \in 1 .. Len(u) :
             u[i] = IF i <= Len(ul_data) THEN ul_data[i] ELSE h[i - Len(ul_data)]
    BY <1>2, <2>4, ConcatProperties
  <2>. HIDE DEF u, h
  <2>9. Len(u) \in Nat /\ SentUnits + Len(u) = b /\ Len(u) <= SlotUnits
    BY <1>2, <1>3, <2>2, <2>6, <2>7, <2>8
  <2>10. ASSUME NEW i \in 1 .. Len(u)  PROVE u[i] = SentUnits + i
    <3>1. CASE i <= Len(ul_data)
      <4>1. i \in 1 .. Len(ul_data)
        BY <1>2, <2>9, <3>1
      <4>. QED  BY <2>1, <2>8, <3>1, <4>1
    <3>2. CASE ~(i <= Len(ul_data))
      <4>1. i - Len(ul_data) \in 1 .. Len(h)
        BY <1>2, <1>3, <2>2, <2>7, <2>8, <2>9, <3>2
      <4>2. u[i] = at + (i - Len(ul_data))
        BY <2>7, <2>8, <3>2, <4>1
      <4>. QED  BY <1>2, <1>3, <2>9, <4>2
    <3>. QED  BY <3>1, <3>2
  <2>11. ul_data' = u
    BY <1>1 DEF u, h
  <2>12. IF bridge_pc' = "send" THEN Len(u) = SlotUnits ELSE Len(u) < SlotUnits
    <3>1. bridge_pc' = IF Len(u) >= SlotUnits THEN "send" ELSE "loop"
      BY <1>1, <2>11
    <3>. QED  BY <1>2, <2>9, <3>1
  <2>13. Chain(Packets, SentUnits' + Len(ul_data'), nic', fpga')
    BY <1>1, <1>3, <2>3, <2>9, <2>11
  <2>. QED  BY <1>3, <2>10, <2>11, <2>12, <2>13 DEF SlotInBridge
<1>. QED  BY <1>1, <1>4 DEF Clean, FramesAreSlots

\* A frame that is sent is the next slot of the FPGA.
LEMMA SendClean ==
  ASSUME PathTypes, Clean, BridgeSend  PROVE Clean'
<1>1. /\ bridge_pc = "send" /\ reader # "stopped"
      /\ socket' = Append(socket, ul_data) /\ sent' = Append(sent, ul_data)
      /\ ul_data' = <<>> /\ bridge_pc' = "loop"
      /\ UNCHANGED <<fpga, nic, reader>>
  BY DEF BridgeSend, sourceVars
<1>2. /\ ul_data \in Seq(Nat) /\ socket \in Seq(Seq(Nat)) /\ sent \in Seq(Seq(Nat))
      /\ Len(sent) \in Nat /\ Len(ul_data) \in Nat /\ Len(socket) \in Nat
      /\ SlotUnits \in Nat \ {0}
  BY PathAssumption, LenProperties DEF PathTypes
<1>3. /\ \A i \in 1 .. Len(ul_data) : ul_data[i] = SentUnits + i
      /\ Len(ul_data) = SlotUnits
      /\ Chain(Packets, SentUnits + Len(ul_data), nic, fpga)
  BY <1>1 DEF Clean, SlotInBridge
<1>4. Len(sent') = Len(sent) + 1 /\ sent'[Len(sent) + 1] = ul_data
      /\ \A k \in 1 .. Len(sent) : sent'[k] = sent[k]
  BY <1>1, <1>2, AppendProperties
<1>5. Len(socket') = Len(socket) + 1 /\ socket'[Len(socket) + 1] = ul_data
      /\ \A k \in 1 .. Len(socket) : socket'[k] = socket[k]
  BY <1>1, <1>2, AppendProperties
<1>6. SentUnits' = SentUnits + SlotUnits /\ SentUnits \in Nat
  BY <1>2, <1>4 DEF SentUnits
<1>7. ul_data = Slot(Len(sent) + 1)
  <2>1. ul_data = [i \in 1 .. SlotUnits |-> ul_data[i]]
    BY <1>2, <1>3, SeqDef
  <2>2. ASSUME NEW i \in 1 .. SlotUnits
        PROVE  ul_data[i] = (Len(sent) + 1 - 1) * SlotUnits + i
    <3>1. ul_data[i] = Len(sent) * SlotUnits + i
      BY <1>3 DEF SentUnits
    <3>2. Len(sent) + 1 - 1 = Len(sent)
      BY <1>2
    <3>. QED  BY <3>1, <3>2
  <2>. QED  BY <2>1, <2>2 DEF Slot
<1>8. FramesAreSlots'
  <2>1. ASSUME NEW k \in 1 .. Len(sent')  PROVE sent'[k] = Slot(k)
    <3>1. k \in 1 .. Len(sent) \/ k = Len(sent) + 1
      BY <1>2, <1>4
    <3>2. CASE k \in 1 .. Len(sent)
      BY <1>4, <3>2 DEF Clean, FramesAreSlots
    <3>. QED  BY <1>4, <1>7, <3>1, <3>2
  <2>2. \A k : Slot(k)' = Slot(k)
    BY DEF Slot
  <2>. QED  BY <2>1, <2>2 DEF FramesAreSlots
<1>9. ASSUME NEW k \in 1 .. Len(socket')  PROVE Len(socket'[k]) = SlotUnits
  <2>1. k \in 1 .. Len(socket) \/ k = Len(socket) + 1
    BY <1>2, <1>5
  <2>2. CASE k \in 1 .. Len(socket)
    BY <1>5, <2>2 DEF Clean
  <2>. QED  BY <1>3, <1>5, <2>1, <2>2
<1>10. SlotInBridge'
  <2>1. Len(<<>>) = 0 /\ 1 .. 0 = {}
    OBVIOUS
  <2>2. SentUnits' + Len(ul_data') = SentUnits + Len(ul_data)
    BY <1>1, <1>3, <1>6, <2>1
  <2>3. Chain(Packets, SentUnits' + Len(ul_data'), nic', fpga')
    BY <1>1, <1>3, <2>2
  <2>. QED  BY <1>1, <1>2, <2>1, <2>3 DEF SlotInBridge
<1>. QED  BY <1>1, <1>8, <1>9, <1>10 DEF Clean

\* The source takes frames off the socket; one of a slot does not put it off.
LEMMA SourceClean ==
  ASSUME PathTypes, Clean, linked, SlotUnits <= SlotCapacity,
         Reader \/ SourceWork \/ SourceStop
  PROVE  Clean'
<1>1. UNCHANGED <<fpga, nic, ul_data, bridge_pc, sent>>
  BY DEF Reader, SourceRecv, SourceOff, SourceWork, SourceStop,
         SourceStopJoin, bridgeVars
<1>2. FramesAreSlots' /\ bridge_pc' # "connect"
  BY <1>1 DEF Clean, FramesAreSlots
<1>3. SlotInBridge => SlotInBridge'
  BY <1>1 DEF SlotInBridge, SentUnits
<1>4. CASE SourceRecv
  <2>1. socket # <<>> /\ socket' = Tail(socket) /\ UNCHANGED reader
        /\ socket \in Seq(Seq(Nat)) /\ Len(socket) \in Nat
    BY <1>4, LenProperties DEF SourceRecv, PathTypes
  <2>2. /\ Len(socket') = Len(socket) - 1
        /\ \A k \in 1 .. Len(socket') : socket'[k] = socket[k + 1]
    BY <2>1, HeadTailProperties
  <2>3. ASSUME NEW k \in 1 .. Len(socket')  PROVE Len(socket'[k]) = SlotUnits
    <3>1. k + 1 \in 1 .. Len(socket)
      BY <2>1, <2>2
    <3>. QED  BY <2>2, <3>1 DEF Clean
  <2>. QED  BY <1>2, <1>3, <2>1, <2>3 DEF Clean
<1>5. CASE SourceOff
  <2>1. socket # <<>> /\ Len(Head(socket)) > SlotCapacity
    BY <1>5 DEF SourceOff
  <2>2. socket \in Seq(Seq(Nat)) /\ Len(socket) \in Nat /\ 1 \in 1 .. Len(socket)
        /\ Head(socket) = socket[1]
    BY <2>1, LenProperties, EmptySeq, HeadTailProperties DEF PathTypes
  <2>3. Len(Head(socket)) = SlotUnits
    BY <2>2 DEF Clean
  <2>. QED  BY <2>1, <2>3, PathAssumption
<1>6. CASE SourceWork
  <2>1. UNCHANGED <<socket, reader>>
    BY <1>6 DEF SourceWork
  <2>. QED  BY <1>2, <1>3, <2>1 DEF Clean
<1>7. CASE SourceStop \/ SourceStopJoin
  <2>1. (socket' = <<>> \/ UNCHANGED socket) /\ reader' \in {"stopping", "stopped"}
        /\ reader # "stopped"
    BY <1>7 DEF SourceStop, SourceStopJoin
  <2>2. \A k \in 1 .. Len(socket') : Len(socket'[k]) = SlotUnits
    <3>1. socket' = <<>> => 1 .. Len(socket') = {}
      OBVIOUS
    <3>. QED  BY <2>1, <3>1 DEF Clean
  <2>. QED  BY <1>2, <1>3, <2>1, <2>2 DEF Clean
<1>. QED  BY <1>4, <1>5, <1>6, <1>7 DEF Reader

\* Every step keeps whole what is whole, as long as nothing is lost.
LEMMA StepNoLoss ==
  ASSUME PathTypes, NoLoss, SlotUnits <= SlotCapacity, [PathNext]_pathVars
  PROVE  NoLoss'
<1>. SUFFICES ASSUME lost' = 0, linked'  PROVE Clean'
  BY DEF NoLoss
<1>. USE DEF bridgeVars, sourceVars
<1>1. lost \in Nat /\ linked \in BOOLEAN
  BY DEF PathTypes
<1>2. CASE Lose
  BY <1>1, <1>2 DEF Lose
<1>3. CASE BridgeDie
  BY <1>3 DEF BridgeDie
<1>4. CASE ~Lose /\ ~BridgeDie
  <2>1. lost = 0 /\ linked
    BY <1>4 DEF PathNext, Arrive, Bridge, BridgeGather, BridgeSend, BridgeSendFail,
       BridgeReconnect, Reader, SourceRecv, SourceOff, SourceWork, SourceStop,
       SourceStopJoin, pathVars
  <2>2. Clean
    BY <2>1 DEF NoLoss
  <2>3. CASE Arrive
    BY <2>2, <2>3, ArriveClean
  <2>4. CASE BridgeGather
    BY <2>2, <2>4, GatherClean
  <2>5. CASE BridgeSend
    BY <2>2, <2>5, SendClean
  <2>6. CASE BridgeSendFail
    BY <2>2, <2>6 DEF BridgeSendFail, Clean, FramesAreSlots
  <2>7. CASE BridgeReconnect
    BY <2>2, <2>7 DEF BridgeReconnect, Clean
  <2>8. CASE Reader \/ SourceWork \/ SourceStop
    BY <2>1, <2>2, <2>8, SourceClean
  <2>9. CASE UNCHANGED pathVars
    BY <2>2, <2>9 DEF pathVars, Clean, FramesAreSlots, SlotInBridge, SentUnits
  <2>. QED
    BY <1>4, <2>3, <2>4, <2>5, <2>6, <2>7, <2>8, <2>9 DEF PathNext, Bridge
<1>. QED  BY <1>2, <1>3, <1>4

-----------------------------------------------------------------------------
(* The theorems.                                                           *)

\* Every step keeps the order of the units.
LEMMA StepOrder ==
  ASSUME PathTypes, UnitsInOrder, [PathNext]_pathVars  PROVE UnitsInOrder'
<1>1. CASE UNCHANGED pathVars
  BY <1>1 DEF pathVars, bridgeVars, sourceVars, UnitsInOrder, Ordered
<1>. QED  BY <1>1, BridgeOrder, SourceOrder DEF PathNext

\* In every behaviour what is out, in the ring, in the socket, in the bridge and
\* in the NIC stands in the order the FPGA sent it.
THEOREM PathInvariance == PathSpec => [](PathTypes /\ UnitsInOrder)
<1>1. PathInit => PathTypes /\ UnitsInOrder
  BY InitTypes, InitOrder
<1>2. PathTypes /\ UnitsInOrder /\ [PathNext]_pathVars => (PathTypes /\ UnitsInOrder)'
  BY StepTypes, StepOrder
<1>. QED  BY <1>1, <1>2, PTL DEF PathSpec

\* However packets are lost, the bridge killed or the source stopped, no unit
\* comes out of work() twice or before an earlier one.
THEOREM UnitsComeOutInOrder == PathSpec => []OutInOrder
<1>1. UnitsInOrder => OutInOrder
  BY DEF UnitsInOrder, Ordered, Rises, OutInOrder
<1>. QED  BY <1>1, PathInvariance, PTL

\* With a source block that has room for the slot the bridge sends, a slot with
\* no packet lost is sent as one frame, in its turn, and the reader takes it.
THEOREM SlotsArriveWhole ==
  ASSUME SlotUnits <= SlotCapacity
  PROVE  PathSpec => []LossFreeFrames
<1>1. PathInit => PathTypes /\ NoLoss
  BY InitTypes, InitNoLoss
<1>2. PathTypes /\ NoLoss /\ [PathNext]_pathVars => (PathTypes /\ NoLoss)'
  BY StepTypes, StepNoLoss
<1>3. NoLoss => LossFreeFrames
  BY DEF NoLoss, Clean, LossFreeFrames
<1>. QED  BY <1>1, <1>2, <1>3, PTL DEF PathSpec

=============================================================================
