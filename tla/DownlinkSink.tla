---------------------------- MODULE DownlinkSink ----------------------------
(***************************************************************************)
(* The GNU Radio block dpdk_downlink_sink (lib/dpdk_downlink_sink_impl).   *)
(*                                                                         *)
(* Three activities share the block's fields:                              *)
(*   - the scheduler thread, which calls work() and gathers the input      *)
(*     stream into the slots of d_ring;                                    *)
(*   - the sender thread, which takes full slots to the socket and waits   *)
(*     for the peer's acknowledgement;                                     *)
(*   - the flowgraph's control of the block: start() and stop().           *)
(*                                                                         *)
(* The stream is cut into units; SlotUnits of them make one slot           *)
(* (d_bytes_per_slot), and a unit is known by its position in the stream,  *)
(* so that a lost, torn, repeated or reordered slot is visible.  The peer  *)
(* of the socket is left open here: every connect, send and acknowledge    *)
(* may fail.  DownlinkLink closes the system with the bridge's code.       *)
(***************************************************************************)
EXTENDS Integers, Sequences

CONSTANTS
  RingSize,       \* RING_SIZE, 8 in the code
  SlotUnits,      \* units in one slot
  MaxCall,        \* bound: units handed to one call of work()
  MaxUnits,       \* bound: units of input in a behaviour
  MaxFaults,      \* bound: failing socket calls in a behaviour
  StopDuringWork  \* may stop() run while a call of work() is in progress?

ASSUME SinkAssumption ==
  /\ RingSize \in Nat \ {0}
  /\ SlotUnits \in Nat \ {0}
  /\ MaxCall \in Nat \ {0}
  /\ MaxUnits \in Nat
  /\ MaxFaults \in Nat
  /\ StopDuringWork \in BOOLEAN

VARIABLES
  d_ring,        \* the slots: [0..RingSize-1 -> [1..SlotUnits -> unit]]
  d_write_idx,   \* slot work() fills next
  d_read_idx,    \* slot the sender takes next
  d_ring_count,  \* committed slots not yet released
  d_fill,        \* units already in the slot being filled
  d_running,
  d_connected,
  work_pc,       \* where the scheduler thread is in work()
  pending,       \* units of the current call not yet copied
  sender_pc,     \* where the sender thread is in sender_loop()
  frame_out,     \* units of the current frame the kernel has taken
  ctl_pc,        \* where the flowgraph's control is: start() or stop()
  taken,         \* history: units of input copied so far
  origin,        \* history: value of taken at the last start()
  delivered,     \* history: acknowledged frames since the last start()
  overrun,       \* history: work() has copied into a full ring
  faults         \* failing socket calls so far

ringVars   == <<d_ring, d_write_idx, d_read_idx, d_ring_count, d_fill>>
workVars   == <<work_pc, pending>>
senderVars == <<sender_pc, frame_out>>
history    == <<taken, origin, delivered, overrun>>
vars       == <<ringVars, d_running, d_connected, workVars, senderVars, ctl_pc,
                history, faults>>

Slots     == 0 .. RingSize - 1
Units     == 0 .. MaxUnits
WorkPcs   == {"ready", "fill", "room", "notify"}
SenderPcs == {"loop", "pred", "park", "waiting", "awake", "connect", "send",
              "ack", "advance", "done"}
CtlPcs    == {"stopped", "running", "notify", "join"}

\* The k-th slot of the input stream since the last start().
InputSlot(k) == [u \in 1 .. SlotUnits |-> origin + (k - 1) * SlotUnits + u]

Smaller(a, b) == IF a < b THEN a ELSE b

Fault == faults < MaxFaults /\ faults' = faults + 1

-----------------------------------------------------------------------------
(* The flowgraph's control.                                                *)

Init ==
  /\ d_ring = [i \in Slots |-> [u \in 1 .. SlotUnits |-> 0]]
  /\ d_write_idx = 0 /\ d_read_idx = 0 /\ d_ring_count = 0 /\ d_fill = 0
  /\ d_running = FALSE /\ d_connected = FALSE
  /\ work_pc = "ready" /\ pending = 0
  /\ sender_pc = "done" /\ frame_out = <<>>
  /\ ctl_pc = "stopped"
  /\ taken = 0 /\ origin = 0 /\ delivered = <<>> /\ overrun = FALSE
  /\ faults = 0

\* start(): one round of connect_socket(), which may give up after its 150
\* attempts, then the reset of the ring and the launch of the sender thread.
\* Nothing else of the block runs before it returns.
Start(connects) ==
  /\ ctl_pc = "stopped" /\ work_pc = "ready"
  /\ IF connects THEN UNCHANGED faults ELSE Fault
  /\ d_connected' = connects
  /\ d_fill' = 0 /\ d_write_idx' = 0 /\ d_read_idx' = 0 /\ d_ring_count' = 0
  /\ d_running' = TRUE
  /\ sender_pc' = "loop" /\ frame_out' = <<>>
  /\ ctl_pc' = "running"
  /\ origin' = taken /\ delivered' = <<>> /\ overrun' = FALSE
  /\ UNCHANGED <<d_ring, workVars, taken>>

\* stop() clears d_running, without holding the mutex the sender waits with.
StopSignal ==
  /\ ctl_pc = "running"
  /\ StopDuringWork \/ work_pc = "ready"
  /\ d_running' = FALSE
  /\ ctl_pc' = "notify"
  /\ UNCHANGED <<ringVars, d_connected, workVars, senderVars, history, faults>>

\* A mutation: stop() joins the sender without a notification.
StopNotifyOmitted ==
  /\ ctl_pc = "notify"
  /\ ctl_pc' = "join"
  /\ UNCHANGED <<ringVars, d_running, d_connected, workVars, senderVars, history,
                 faults>>

\* notify_all() reaches the sender only while it is blocked in the wait.
StopNotify ==
  /\ ctl_pc = "notify"
  /\ ctl_pc' = "join"
  /\ sender_pc' = IF sender_pc = "waiting" THEN "pred" ELSE sender_pc
  /\ UNCHANGED <<ringVars, d_running, d_connected, workVars, frame_out, history,
                 faults>>

\* join(), then the socket is closed.
StopJoin ==
  /\ ctl_pc = "join" /\ sender_pc = "done"
  /\ d_connected' = FALSE
  /\ ctl_pc' = "stopped"
  /\ UNCHANGED <<ringVars, d_running, workVars, senderVars, history, faults>>

-----------------------------------------------------------------------------
(* The scheduler thread: work().                                           *)

WorkCall(n) ==
  /\ work_pc = "ready" /\ ctl_pc = "running"
  /\ taken + n <= MaxUnits
  /\ pending' = n
  /\ work_pc' = "fill"
  /\ UNCHANGED <<ringVars, d_running, d_connected, senderVars, ctl_pc, history,
                 faults>>

\* The memcpy goes to the slot at d_write_idx whether or not the ring has room.
WorkCopy ==
  LET chunk == Smaller(SlotUnits - d_fill, pending) IN
  /\ work_pc = "fill"
  /\ d_ring' = [d_ring EXCEPT ![d_write_idx] =
                  [u \in 1 .. SlotUnits |->
                     IF u \in d_fill + 1 .. d_fill + chunk
                     THEN taken + u - d_fill ELSE @[u]]]
  /\ d_fill' = d_fill + chunk
  /\ pending' = pending - chunk
  /\ taken' = taken + chunk
  /\ overrun' = (overrun \/ d_ring_count = RingSize)
  /\ work_pc' = IF d_fill' >= SlotUnits THEN "room" ELSE "ready"
  /\ UNCHANGED <<d_write_idx, d_read_idx, d_ring_count, d_running, d_connected,
                 senderVars, ctl_pc, origin, delivered, faults>>

\* A mutation: the index is advanced without the modulus.
WorkCommitUnwrapped ==
  /\ work_pc = "room" /\ d_ring_count < RingSize
  /\ d_write_idx' = d_write_idx + 1
  /\ d_ring_count' = d_ring_count + 1
  /\ work_pc' = "notify"
  /\ UNCHANGED <<d_ring, d_read_idx, d_fill, d_running, d_connected, pending,
                 senderVars, ctl_pc, history, faults>>

\* A mutation: no wait for room, a full ring takes one slot more.
WorkCommitIntoFull ==
  /\ work_pc = "room"
  /\ d_write_idx' = (d_write_idx + 1) % RingSize
  /\ d_ring_count' = Smaller(d_ring_count + 1, RingSize)
  /\ work_pc' = "notify"
  /\ UNCHANGED <<d_ring, d_read_idx, d_fill, d_running, d_connected, pending,
                 senderVars, ctl_pc, history, faults>>

\* The loop that waits for room polls d_ring_count; with room, the slot is
\* committed.  Only the sender lowers the count, so room cannot go away.
WorkCommit ==
  /\ work_pc = "room" /\ d_ring_count < RingSize
  /\ d_write_idx' = (d_write_idx + 1) % RingSize
  /\ d_ring_count' = d_ring_count + 1
  /\ work_pc' = "notify"
  /\ UNCHANGED <<d_ring, d_read_idx, d_fill, d_running, d_connected, pending,
                 senderVars, ctl_pc, history, faults>>

\* No room and the block is being stopped: work() returns, d_fill stays.
WorkAbandon ==
  /\ work_pc = "room" /\ d_ring_count >= RingSize /\ ~d_running
  /\ pending' = 0
  /\ work_pc' = "ready"
  /\ UNCHANGED <<ringVars, d_running, d_connected, senderVars, ctl_pc, history,
                 faults>>

\* A mutation: the sender is not notified.
WorkNotifyOmitted ==
  /\ work_pc = "notify"
  /\ d_fill' = 0
  /\ work_pc' = IF pending > 0 THEN "fill" ELSE "ready"
  /\ UNCHANGED <<d_ring, d_write_idx, d_read_idx, d_ring_count, d_running,
                 d_connected, pending, senderVars, ctl_pc, history, faults>>

\* notify_one(), again without the mutex; then the next slot is begun.
WorkNotify ==
  /\ work_pc = "notify"
  /\ sender_pc' = IF sender_pc = "waiting" THEN "pred" ELSE sender_pc
  /\ d_fill' = 0
  /\ work_pc' = IF pending > 0 THEN "fill" ELSE "ready"
  /\ UNCHANGED <<d_ring, d_write_idx, d_read_idx, d_ring_count, d_running,
                 d_connected, pending, frame_out, ctl_pc, history, faults>>

-----------------------------------------------------------------------------
(* The sender thread: sender_loop().                                       *)

SenderMoves(from, to) ==
  /\ sender_pc = from
  /\ sender_pc' = to
  /\ UNCHANGED <<ringVars, d_running, workVars, ctl_pc, taken, origin, overrun>>

SenderLoop ==
  /\ SenderMoves("loop", IF d_running THEN "pred" ELSE "done")
  /\ UNCHANGED <<d_connected, frame_out, delivered, faults>>

\* The predicate of d_cv.wait().
SenderPred ==
  /\ SenderMoves("pred", IF d_ring_count > 0 \/ ~d_running THEN "awake" ELSE "park")
  /\ UNCHANGED <<d_connected, frame_out, delivered, faults>>

\* Between the predicate and the block on the condition variable there is a
\* step in which a notification finds nobody waiting: no notifier takes d_mutex.
SenderPark ==
  /\ SenderMoves("park", "waiting")
  /\ UNCHANGED <<d_connected, frame_out, delivered, faults>>

\* std::condition_variable allows a wait to return without a notification.
SenderSpurious ==
  /\ SenderMoves("waiting", "pred")
  /\ UNCHANGED <<d_connected, frame_out, delivered, faults>>

SenderAwake ==
  /\ SenderMoves("awake", IF ~d_running THEN "done"
                          ELSE IF d_connected THEN "send" ELSE "connect")
  /\ frame_out' = <<>>
  /\ UNCHANGED <<d_connected, delivered, faults>>

\* A mutation: the sender gives up when it cannot reconnect.
SenderConnectGivesUp(connects) ==
  /\ SenderMoves("connect", IF connects THEN "send" ELSE "done")
  /\ IF connects THEN UNCHANGED faults ELSE Fault
  /\ d_connected' = connects
  /\ UNCHANGED <<frame_out, delivered>>

\* connect_socket() from the sender: up to 150 attempts, then back to the loop.
SenderConnect(connects) ==
  /\ SenderMoves("connect", IF connects THEN "send" ELSE "loop")
  /\ IF connects THEN UNCHANGED faults ELSE Fault
  /\ d_connected' = connects
  /\ UNCHANGED <<frame_out, delivered>>

\* send() copies the slot to the kernel bit by bit while work() goes on.
SendUnit ==
  LET u == Len(frame_out) + 1 IN
  /\ SenderMoves("send", IF u = SlotUnits THEN "ack" ELSE "send")
  /\ frame_out' = Append(frame_out, d_ring[d_read_idx][u])
  /\ UNCHANGED <<d_connected, delivered, faults>>

\* send() falls short, or the acknowledgement is missing or wrong: the slot is
\* not released and will be sent again after a reconnect.
SendFail ==
  /\ sender_pc \in {"send", "ack"}
  /\ SenderMoves(sender_pc, "loop")
  /\ d_connected' = FALSE
  /\ Fault
  /\ UNCHANGED <<frame_out, delivered>>

RecvAck ==
  /\ SenderMoves("ack", "advance")
  /\ delivered' = Append(delivered, frame_out)
  /\ UNCHANGED <<d_connected, frame_out, faults>>

\* A mutation: the read pointer stays, the slot is only uncounted.
SenderAdvanceInPlace ==
  /\ sender_pc = "advance"
  /\ sender_pc' = "loop"
  /\ d_ring_count' = d_ring_count - 1
  /\ UNCHANGED <<d_ring, d_write_idx, d_read_idx, d_fill, d_running, d_connected,
                 workVars, frame_out, ctl_pc, history, faults>>

SenderAdvance ==
  /\ sender_pc = "advance"
  /\ sender_pc' = "loop"
  /\ d_read_idx' = (d_read_idx + 1) % RingSize
  /\ d_ring_count' = d_ring_count - 1
  /\ UNCHANGED <<d_ring, d_write_idx, d_fill, d_running, d_connected, workVars,
                 frame_out, ctl_pc, history, faults>>

-----------------------------------------------------------------------------
Control == \/ \E connects \in BOOLEAN : Start(connects)
           \/ StopSignal \/ StopNotify \/ StopJoin

Work == \/ \E n \in 1 .. MaxCall : WorkCall(n)
        \/ WorkCopy \/ WorkCommit \/ WorkAbandon \/ WorkNotify

\* The steps that the sender thread takes without an answer from its peer.
SenderStep == \/ SenderLoop \/ SenderPred \/ SenderPark \/ SenderAwake
              \/ SenderConnect(TRUE) \/ SendUnit \/ SenderAdvance

Sender == SenderStep \/ RecvAck \/ SenderSpurious \/ SenderConnect(FALSE) \/ SendFail

Next == Control \/ Work \/ Sender

Spec == Init /\ [][Next]_vars

\* A call of work() that was begun goes on, and the sender thread is scheduled; it
\* finds a peer that accepts and reads, but recv() has no timeout and the peer need
\* not answer.  The flowgraph need neither call work() nor stop the block.
Fairness == /\ WF_vars(WorkCopy \/ WorkCommit \/ WorkAbandon \/ WorkNotify)
            /\ WF_vars(SenderStep)
            /\ WF_vars(StopNotify \/ StopJoin)

FairSpec == Spec /\ Fairness

-----------------------------------------------------------------------------
(* Properties.                                                             *)

\* Types of the variables; the index and the count stay within the ring.
TypeOK ==
  /\ d_ring \in [Slots -> [1 .. SlotUnits -> Units]]
  /\ d_write_idx \in Slots /\ d_read_idx \in Slots
  /\ d_ring_count \in 0 .. RingSize
  /\ d_fill \in 0 .. SlotUnits
  /\ d_running \in BOOLEAN /\ d_connected \in BOOLEAN
  /\ work_pc \in WorkPcs /\ pending \in 0 .. MaxCall
  /\ sender_pc \in SenderPcs
  /\ frame_out \in Seq(Units) /\ Len(frame_out) <= SlotUnits
  /\ ctl_pc \in CtlPcs
  /\ taken \in Units /\ origin \in Units
  /\ delivered \in Seq(Seq(Units))
  /\ overrun \in BOOLEAN
  /\ faults \in 0 .. MaxFaults

SenderHoldsSlot == sender_pc \in {"connect", "send", "ack", "advance"}

\* The scheduler thread copies into the slot that the sender thread is reading
\* only if the ring is full: the copy of work() precedes its wait for room.
OverwriteOnlyWhenFull ==
  (work_pc = "fill" /\ SenderHoldsSlot /\ d_write_idx = d_read_idx)
    => d_ring_count = RingSize

\* As long as work() has not copied into a full ring, the acknowledged frames
\* are the slots of the input, in order, none torn, skipped or repeated, over
\* every reconnect and retransmission and across stop() and start().
FifoUnlessOverrun ==
  ~overrun => \A k \in 1 .. Len(delivered) : delivered[k] = InputSlot(k)

\* recv() of the acknowledgement never returns: it has no timeout.
Unanswered == [](sender_pc = "ack")

\* A frame whose transmission has begun is acknowledged in the end, after as
\* many reconnects as the faults ask for, unless the block is stopped or the peer
\* leaves a frame that it has got unanswered.
TransmissionCompletes ==
  \A k \in 0 .. MaxUnits \div SlotUnits :
    (sender_pc = "send" /\ Len(delivered) = k)
      ~> (Len(delivered) # k \/ ~d_running \/ Unanswered)

\* stop() returns, whatever the sender thread was doing when it was called, except
\* between a false wait predicate and the wait; but if the sender comes to wait for
\* an acknowledgement that the peer never sends, join() waits with it.
StopReturns ==
  (ctl_pc = "notify" /\ sender_pc # "park") ~> (ctl_pc = "stopped" \/ Unanswered)

\* "Slot full: commit to ring and wake sender": the sender thread takes up a
\* committed slot, unless the notification falls between its false predicate and
\* its wait, or the block is stopped.
CommitWakesSender ==
  (work_pc = "notify" /\ d_ring_count > 0 /\ sender_pc # "park")
    ~> (SenderHoldsSlot \/ ctl_pc # "running")

=============================================================================
