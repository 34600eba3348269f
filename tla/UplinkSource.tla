---------------------------- MODULE UplinkSource ----------------------------
(***************************************************************************)
(* The GNU Radio block dpdk_uplink_source (lib/dpdk_uplink_source_impl).   *)
(*                                                                         *)
(* The reader thread receives frames from the bridge straight into the     *)
(* slots of d_ring; the scheduler thread drains them in work(); the        *)
(* flowgraph starts and stops the block.  The server socket is made, and   *)
(* the one connection accepted, by the constructor: the model begins after *)
(* it, with the connection or without it.                                  *)
(*                                                                         *)
(* A byte is known by its position among the bytes the peer has sent since *)
(* the block was built, so that a lost, repeated or reordered byte shows.  *)
(***************************************************************************)
EXTENDS Integers, Sequences

CONSTANTS
  RingSize,       \* RING_SIZE, 128 in the code
  SlotBytes,      \* d_bytes_per_slot, the capacity of a slot
  SizeofShort,    \* bytes of one output item
  FrameLens,      \* lengths of the frames the peer sends
  MaxCall,        \* bound: items asked for by one call of work()
  MaxBytes,       \* bound: bytes received in a behaviour
  StopDuringWork  \* may stop() run while a call of work() is in progress?

ASSUME SourceAssumption ==
  /\ RingSize \in Nat \ {0}
  /\ SlotBytes \in Nat \ {0}
  /\ SizeofShort \in Nat \ {0}
  /\ FrameLens \subseteq Nat \ {0}
  /\ MaxCall \in Nat \ {0}
  /\ MaxBytes \in Nat
  /\ StopDuringWork \in BOOLEAN

VARIABLES
  d_ring,          \* the slots: [0..RingSize-1 -> [1..SlotBytes -> byte]]
  d_ring_lens,     \* valid bytes of each slot
  d_write_idx,     \* slot the reader fills next
  d_read_idx,      \* slot work() drains next
  d_ring_count,    \* committed slots not yet freed
  d_drain_offset,  \* bytes of the slot at d_read_idx already read
  d_running,
  d_connected,
  work_pc,         \* where the scheduler thread is in work()
  needed,          \* bytes the current call has still to produce
  produced,        \* bytes the current call has produced
  reader_pc,       \* where the reader thread is in reader_loop()
  frame_len,       \* length announced by the header being received
  got,             \* bytes of the payload already received
  ctl_pc,          \* where the flowgraph's control is: start() or stop()
  arrived,         \* history: bytes of accepted and current frames so far
  accepted,        \* history: committed bytes since the last start()
  out              \* history: bytes produced since the last start()

ringVars   == <<d_ring, d_ring_lens, d_write_idx, d_read_idx, d_ring_count,
                d_drain_offset>>
workVars   == <<work_pc, needed, produced>>
readerVars == <<reader_pc, frame_len, got>>
history    == <<arrived, accepted, out>>
vars       == <<ringVars, d_running, d_connected, workVars, readerVars, ctl_pc,
                history>>

Slots     == 0 .. RingSize - 1
Bytes     == 0 .. MaxBytes
CallBytes == MaxCall * SizeofShort
WorkPcs   == {"ready", "peek", "drain", "free", "notify", "end"}
ReaderPcs == {"loop", "pred", "park", "waiting", "awake", "recv", "payload",
              "publish", "count", "retry", "done"}
CtlPcs    == {"stopped", "running", "notify", "join"}

Smaller(a, b) == IF a < b THEN a ELSE b

-----------------------------------------------------------------------------
(* The flowgraph's control.                                                *)

\* After the constructor; setup_server() may have failed before the accept.
Init ==
  /\ d_ring = [i \in Slots |-> [b \in 1 .. SlotBytes |-> 0]]
  /\ d_ring_lens = [i \in Slots |-> 0]
  /\ d_write_idx = 0 /\ d_read_idx = 0 /\ d_ring_count = 0
  /\ d_drain_offset = 0
  /\ d_running = FALSE /\ d_connected \in BOOLEAN
  /\ work_pc = "ready" /\ needed = 0 /\ produced = 0
  /\ reader_pc = "done" /\ frame_len = 0 /\ got = 0
  /\ ctl_pc = "stopped"
  /\ arrived = 0 /\ accepted = <<>> /\ out = <<>>

Start ==
  /\ ctl_pc = "stopped" /\ work_pc = "ready"
  /\ d_drain_offset' = 0 /\ d_write_idx' = 0 /\ d_read_idx' = 0
  /\ d_ring_count' = 0
  /\ d_running' = TRUE
  /\ reader_pc' = "loop"
  /\ ctl_pc' = "running"
  /\ accepted' = <<>> /\ out' = <<>>
  /\ UNCHANGED <<d_ring, d_ring_lens, d_connected, workVars, frame_len, got,
                 arrived>>

StopSignal ==
  /\ ctl_pc = "running"
  /\ StopDuringWork \/ work_pc = "ready"
  /\ d_running' = FALSE
  /\ ctl_pc' = "notify"
  /\ UNCHANGED <<ringVars, d_connected, workVars, readerVars, history>>

\* A mutation: stop() joins the reader without a notification.
StopNotifyOmitted ==
  /\ ctl_pc = "notify"
  /\ ctl_pc' = "join"
  /\ UNCHANGED <<ringVars, d_running, d_connected, workVars, readerVars, history>>

\* notify_all() reaches the reader only while it is blocked in the wait.
StopNotify ==
  /\ ctl_pc = "notify"
  /\ ctl_pc' = "join"
  /\ reader_pc' = IF reader_pc = "waiting" THEN "pred" ELSE reader_pc
  /\ UNCHANGED <<ringVars, d_running, d_connected, workVars, frame_len, got,
                 history>>

\* join(), then both sockets are closed; start() does not open them again.
StopJoin ==
  /\ ctl_pc = "join" /\ reader_pc = "done"
  /\ d_connected' = FALSE
  /\ ctl_pc' = "stopped"
  /\ UNCHANGED <<ringVars, d_running, workVars, readerVars, history>>

-----------------------------------------------------------------------------
(* The scheduler thread: work().                                           *)

WorkMoves(from, to) ==
  /\ work_pc = from
  /\ work_pc' = to
  /\ UNCHANGED <<d_ring, d_ring_lens, d_write_idx, d_running, d_connected,
                 frame_len, got, ctl_pc, arrived, accepted>>

WorkCall(n) ==
  /\ ctl_pc = "running"
  /\ WorkMoves("ready", "peek")
  /\ needed' = n * SizeofShort
  /\ produced' = 0
  /\ UNCHANGED <<d_read_idx, d_ring_count, d_drain_offset, reader_pc, out>>

\* A mutation: the last slot of the ring counts as none.
WorkPeekOffByOne ==
  /\ WorkMoves("peek", IF d_ring_count <= 1 THEN "end" ELSE "drain")
  /\ UNCHANGED <<d_read_idx, d_ring_count, d_drain_offset, needed, produced,
                 reader_pc, out>>

WorkPeek ==
  /\ WorkMoves("peek", IF d_ring_count = 0 THEN "end" ELSE "drain")
  /\ UNCHANGED <<d_read_idx, d_ring_count, d_drain_offset, needed, produced,
                 reader_pc, out>>

\* Bytes of the current slot that this call may take, in whole items.
DrainChunk ==
  LET most == Smaller(d_ring_lens[d_read_idx] - d_drain_offset, needed)
  IN  (most \div SizeofShort) * SizeofShort

WorkDrain ==
  LET chunk == DrainChunk IN
  /\ WorkMoves("drain",
       IF chunk = 0 THEN "end"
       ELSE IF d_drain_offset + chunk >= d_ring_lens[d_read_idx] THEN "free"
       ELSE "end")
  /\ out' = out \o SubSeq(d_ring[d_read_idx], d_drain_offset + 1,
                          d_drain_offset + chunk)
  /\ d_drain_offset' = d_drain_offset + chunk
  /\ needed' = needed - chunk
  /\ produced' = produced + chunk
  /\ UNCHANGED <<d_read_idx, d_ring_count, reader_pc>>

\* A mutation: the drained slot is uncounted but the read index stays.
WorkFreeInPlace ==
  /\ WorkMoves("free", "notify")
  /\ d_ring_count' = d_ring_count - 1
  /\ UNCHANGED <<d_read_idx, d_drain_offset, needed, produced, reader_pc, out>>

WorkFree ==
  /\ WorkMoves("free", "notify")
  /\ d_read_idx' = (d_read_idx + 1) % RingSize
  /\ d_ring_count' = d_ring_count - 1
  /\ UNCHANGED <<d_drain_offset, needed, produced, reader_pc, out>>

\* A mutation: the offset of the freed slot is kept for the next one.
WorkNotifyKeepOffset ==
  /\ WorkMoves("notify", IF needed > 0 THEN "peek" ELSE "end")
  /\ reader_pc' = IF reader_pc = "waiting" THEN "pred" ELSE reader_pc
  /\ UNCHANGED <<d_read_idx, d_ring_count, d_drain_offset, needed, produced, out>>

WorkNotify ==
  /\ WorkMoves("notify", IF needed > 0 THEN "peek" ELSE "end")
  /\ reader_pc' = IF reader_pc = "waiting" THEN "pred" ELSE reader_pc
  /\ d_drain_offset' = 0
  /\ UNCHANGED <<d_read_idx, d_ring_count, needed, produced, out>>

\* work() returns what it has; if that is nothing it returns zeros instead.
WorkEnd ==
  /\ WorkMoves("end", "ready")
  /\ needed' = 0
  /\ UNCHANGED <<d_read_idx, d_ring_count, d_drain_offset, produced, reader_pc,
                 out>>

-----------------------------------------------------------------------------
(* The reader thread: reader_loop() and recv_frame().                      *)

ReaderMoves(from, to) ==
  /\ reader_pc = from
  /\ reader_pc' = to
  /\ UNCHANGED <<d_read_idx, d_drain_offset, d_running, workVars, ctl_pc, out>>

ReaderLoop ==
  /\ ReaderMoves("loop", IF d_running THEN "pred" ELSE "done")
  /\ UNCHANGED <<d_ring, d_ring_lens, d_write_idx, d_ring_count, d_connected,
                 frame_len, got, arrived, accepted>>

\* A mutation: the reader does not wait for space in the ring.
ReaderPredAlways ==
  /\ ReaderMoves("pred", "awake")
  /\ UNCHANGED <<d_ring, d_ring_lens, d_write_idx, d_ring_count, d_connected,
                 frame_len, got, arrived, accepted>>

\* A mutation: space is tested with <= instead of <.
ReaderPredOffByOne ==
  /\ ReaderMoves("pred", IF d_ring_count <= RingSize \/ ~d_running
                         THEN "awake" ELSE "park")
  /\ UNCHANGED <<d_ring, d_ring_lens, d_write_idx, d_ring_count, d_connected,
                 frame_len, got, arrived, accepted>>

ReaderPred ==
  /\ ReaderMoves("pred", IF d_ring_count < RingSize \/ ~d_running
                         THEN "awake" ELSE "park")
  /\ UNCHANGED <<d_ring, d_ring_lens, d_write_idx, d_ring_count, d_connected,
                 frame_len, got, arrived, accepted>>

\* The step between the predicate and the block, in which a notification of
\* work() or stop() is lost: neither takes d_mutex.
ReaderPark ==
  /\ ReaderMoves("park", "waiting")
  /\ UNCHANGED <<d_ring, d_ring_lens, d_write_idx, d_ring_count, d_connected,
                 frame_len, got, arrived, accepted>>

ReaderSpurious ==
  /\ ReaderMoves("waiting", "pred")
  /\ UNCHANGED <<d_ring, d_ring_lens, d_write_idx, d_ring_count, d_connected,
                 frame_len, got, arrived, accepted>>

\* Without a connection the reader sleeps and looks again.
ReaderAwake ==
  /\ ReaderMoves("awake", IF ~d_running THEN "done"
                          ELSE IF d_connected THEN "recv" ELSE "loop")
  /\ UNCHANGED <<d_ring, d_ring_lens, d_write_idx, d_ring_count, d_connected,
                 frame_len, got, arrived, accepted>>

\* The peer's header arrives; a frame larger than the slot ends the connection.
RecvHeader(len) ==
  /\ arrived + len <= MaxBytes
  /\ ReaderMoves("recv", IF len > SlotBytes THEN "retry" ELSE "payload")
  /\ d_connected' = (len <= SlotBytes)
  /\ frame_len' = len /\ got' = 0
  /\ UNCHANGED <<d_ring, d_ring_lens, d_write_idx, d_ring_count, arrived, accepted>>

\* recv() writes the payload into the slot at d_write_idx as it arrives.
RecvByte ==
  /\ ReaderMoves("payload", IF got + 1 = frame_len THEN "publish" ELSE "payload")
  /\ d_ring' = [d_ring EXCEPT ![d_write_idx][got + 1] = arrived + 1]
  /\ got' = got + 1
  /\ arrived' = arrived + 1
  /\ UNCHANGED <<d_ring_lens, d_write_idx, d_ring_count, d_connected, frame_len,
                 accepted>>

\* A mutation: a payload cut short is committed as if it were whole.
RecvFailCommits ==
  /\ reader_pc \in {"recv", "payload"}
  /\ ReaderMoves(reader_pc, IF reader_pc = "payload" THEN "publish" ELSE "retry")
  /\ d_connected' = FALSE
  /\ UNCHANGED <<d_ring, d_ring_lens, d_write_idx, d_ring_count, frame_len, got,
                 arrived, accepted>>

\* The peer closes the connection, or recv() fails, before or in a frame.
RecvFail ==
  /\ reader_pc \in {"recv", "payload"}
  /\ ReaderMoves(reader_pc, "retry")
  /\ d_connected' = FALSE
  /\ UNCHANGED <<d_ring, d_ring_lens, d_write_idx, d_ring_count, frame_len, got,
                 arrived, accepted>>

ReaderRetry ==
  /\ ReaderMoves("retry", "loop")
  /\ UNCHANGED <<d_ring, d_ring_lens, d_write_idx, d_ring_count, d_connected,
                 frame_len, got, arrived, accepted>>

ReaderPublish ==
  /\ ReaderMoves("publish", "count")
  /\ d_ring_lens' = [d_ring_lens EXCEPT ![d_write_idx] = frame_len]
  /\ d_write_idx' = (d_write_idx + 1) % RingSize
  /\ UNCHANGED <<d_ring, d_ring_count, d_connected, frame_len, got, arrived,
                 accepted>>

\* The count makes the slot visible to work(); notify_one() finds no waiter,
\* since only this thread ever waits.
ReaderCount ==
  /\ ReaderMoves("count", "loop")
  /\ d_ring_count' = d_ring_count + 1
  /\ accepted' = accepted \o [b \in 1 .. frame_len |-> arrived - frame_len + b]
  /\ UNCHANGED <<d_ring, d_ring_lens, d_write_idx, d_connected, frame_len, got,
                 arrived>>

-----------------------------------------------------------------------------
Control == Start \/ StopSignal \/ StopNotify \/ StopJoin

\* The rest of a call of work() that has begun.
WorkStep == WorkPeek \/ WorkDrain \/ WorkFree \/ WorkNotify \/ WorkEnd

Work == (\E n \in 1 .. MaxCall : WorkCall(n)) \/ WorkStep

\* The steps the reader takes on its own, without the peer.
ReaderStep == \/ ReaderLoop \/ ReaderPred \/ ReaderPark \/ ReaderAwake
              \/ RecvByte \/ ReaderRetry \/ ReaderPublish \/ ReaderCount

Peer == (\E len \in FrameLens : RecvHeader(len)) \/ RecvFail

Next == Control \/ Work \/ ReaderStep \/ ReaderSpurious \/ Peer

Spec == Init /\ [][Next]_vars

\* The scheduler keeps calling work() while the block runs, both threads are
\* scheduled and a payload follows its header; the peer need not send a frame.
Fairness == /\ WF_vars(Work)
            /\ WF_vars(ReaderStep)
            /\ WF_vars(StopNotify \/ StopJoin)

FairSpec == Spec /\ Fairness

-----------------------------------------------------------------------------
(* Properties.                                                             *)

\* Types of the variables; the indices, the count and the offset stay in the
\* ring and in the slot.
TypeOK ==
  /\ d_ring \in [Slots -> [1 .. SlotBytes -> Bytes]]
  /\ d_ring_lens \in [Slots -> 0 .. SlotBytes]
  /\ d_write_idx \in Slots /\ d_read_idx \in Slots
  /\ d_ring_count \in 0 .. RingSize
  /\ d_drain_offset \in 0 .. SlotBytes
  /\ d_running \in BOOLEAN /\ d_connected \in BOOLEAN
  /\ work_pc \in WorkPcs
  /\ needed \in 0 .. CallBytes /\ produced \in 0 .. CallBytes
  /\ reader_pc \in ReaderPcs
  /\ frame_len \in FrameLens \cup {0} /\ got \in 0 .. SlotBytes
  /\ ctl_pc \in CtlPcs
  /\ arrived \in Bytes
  /\ accepted \in Seq(Bytes) /\ out \in Seq(Bytes)

ReaderInSlot == reader_pc \in {"payload", "publish"}
WorkInSlot   == work_pc \in {"drain", "free"}

\* The reader never receives into the slot that work() is draining, although
\* the two threads share no lock: only d_ring_count keeps them apart.
SlotExclusion == ReaderInSlot /\ WorkInSlot => d_write_idx # d_read_idx

\* What work() has produced is a prefix of what the reader has accepted: over
\* any cut of slots into calls no byte is lost, repeated, reordered or stale,
\* and nothing of a frame cut short or of an earlier run comes out.
OutIsPrefix ==
  /\ Len(out) <= Len(accepted)
  /\ \A b \in 1 .. Len(out) : out[b] = accepted[b]

\* Zeros are produced for a starved call only between slots, never inside one.
PaddingBetweenSlots == (work_pc = "end" /\ produced = 0) => d_drain_offset = 0

\* Everything accepted comes out, unless the block is stopped.
AcceptedComesOut ==
  \A k \in 1 .. MaxBytes :
    (Len(accepted) = k) ~> (Len(out) >= k \/ ctl_pc # "running")

\* stop() returns, unless it is called while the reader is between a false
\* wait predicate and the wait, or is waiting for the peer's header.
StopReturns ==
  (ctl_pc = "notify" /\ reader_pc \notin {"park", "recv"}) ~> (ctl_pc = "stopped")

-----------------------------------------------------------------------------
(* The block implements SlotStream.                                        *)

\* Bytes of the slot at d_read_idx that are gone for the reader of the stream;
\* d_drain_offset is reset only after the slot was freed.
Gone(j) == IF j = 0 /\ work_pc # "notify" THEN d_drain_offset ELSE 0

Unread(j) ==
  LET i == (d_read_idx + j) % RingSize
  IN  SubSeq(d_ring[i], Gone(j) + 1, d_ring_lens[i])

\* The committed slots in order; a drained slot not yet freed no longer counts.
QueueOfRing ==
  LET first == IF work_pc = "free" THEN 1 ELSE 0
  IN  [k \in 1 .. d_ring_count - first |-> Unread(first + k - 1)]

\* Whole, in-order, unmixed frames: the sets are exactly what a peer can send.
InputFrames ==
  { [b \in 1 .. len |-> start + b] :
      len \in FrameLens \cap 1 .. SlotBytes, start \in Bytes }

Stream == INSTANCE SlotStream WITH
  Capacity <- RingSize, Frames <- InputFrames, queue <- QueueOfRing

\* The ring with its two threads behaves as a bounded queue of whole frames.
ImplementsSlotStream == Stream!StreamSpec

=============================================================================
