----------------------------- MODULE UplinkPath -----------------------------
(***************************************************************************)
(* The uplink from the FPGA to work(): the packets of a slot arrive at the *)
(* NIC, the bridge's main loop gathers them in ul_data_to_socket until     *)
(* there are bytes for a slot and sends them as one frame, and the reader  *)
(* of the source block takes the frame into its ring.                      *)
(*                                                                         *)
(* A unit is known by its position in the stream of the FPGA.  The ring of *)
(* the source is the abstract queue of SlotStream, which UplinkSource      *)
(* implements; the socket holds whole frames.                              *)
(***************************************************************************)
EXTENDS Naturals, Sequences

CONSTANTS
  SlotUnits,     \* LAYER_NUM * TOTAL_BYTES_PER_SLOT
  PktUnits,      \* payload of a full packet; the last one of a slot may be shorter
  SlotCapacity,  \* d_bytes_per_slot of the source
  RingFrames,    \* RING_SIZE of the source
  RxPackets,     \* packets the receive ring of the NIC holds
  SocketFrames,  \* frames the socket buffers hold
  MaxSlots,      \* bound: slots the FPGA sends
  MaxLoss,       \* bound: packets lost
  MaxDeaths      \* bound: times the bridge process is killed

ASSUME PathAssumption ==
  /\ {SlotUnits, PktUnits, SlotCapacity, RingFrames, RxPackets, SocketFrames}
       \subseteq Nat \ {0}
  /\ {MaxSlots, MaxLoss, MaxDeaths} \subseteq Nat

VARIABLES
  fpga,       \* units the FPGA has sent
  nic,        \* packets in the receive ring of the NIC
  ul_data,    \* ul_data_to_socket up to ul_data_to_socket_offset
  bridge_pc,  \* the bridge: connecting, in its loop or in send_frame()
  linked,     \* is the bridge's connection the one the source has accepted?
  socket,     \* frames in flight on the accepted connection
  reader,     \* the source's reader: it receives, is off, is joined or was stopped
  queue,      \* the ring of the source, see SlotStream
  units_out,  \* what work() has produced
  sent,       \* history: frames sent to the accepted connection
  lost,       \* packets lost so far
  deaths      \* times the bridge was killed

bridgeVars == <<ul_data, bridge_pc, linked>>
sourceVars == <<reader, queue, units_out>>
pathVars   == <<fpga, nic, bridgeVars, socket, sourceVars, sent, lost, deaths>>

Ring == INSTANCE SlotStream WITH Capacity <- RingFrames, Frames <- Seq(Nat),
                                  out <- units_out

\* The k-th slot of the FPGA.
Slot(k) == [u \in 1 .. SlotUnits |-> (k - 1) * SlotUnits + u]

\* The packet that follows the units sent so far; it never crosses a slot.
NextPacket ==
  LET left == SlotUnits - (fpga % SlotUnits)
      size == IF left < PktUnits THEN left ELSE PktUnits
  IN  [u \in 1 .. size |-> fpga + u]

-----------------------------------------------------------------------------
PathInit ==
  /\ fpga = 0 /\ nic = <<>>
  /\ ul_data = <<>> /\ bridge_pc = "loop" /\ linked = TRUE
  /\ socket = <<>>
  /\ reader = "recv" /\ queue = <<>> /\ units_out = <<>>
  /\ sent = <<>> /\ lost = 0 /\ deaths = 0

(* The FPGA and the NIC.                                                   *)

Arrive ==
  /\ fpga < MaxSlots * SlotUnits /\ Len(nic) < RxPackets
  /\ fpga' = fpga + Len(NextPacket)
  /\ nic' = Append(nic, NextPacket)
  /\ UNCHANGED <<bridgeVars, socket, sourceVars, sent, lost, deaths>>

\* A packet is damaged on the way, or finds the receive ring full.
Lose ==
  /\ fpga < MaxSlots * SlotUnits /\ lost < MaxLoss
  /\ fpga' = fpga + Len(NextPacket)
  /\ lost' = lost + 1
  /\ UNCHANGED <<nic, bridgeVars, socket, sourceVars, sent, deaths>>

-----------------------------------------------------------------------------
(* The bridge.                                                             *)

\* A mutation: a slot is taken to be complete one packet too early.
BridgeGatherEarly ==
  /\ bridge_pc = "loop" /\ nic # <<>>
  /\ ul_data' = ul_data \o Head(nic)
  /\ nic' = Tail(nic)
  /\ bridge_pc' = IF Len(ul_data') + PktUnits > SlotUnits THEN "send" ELSE "loop"
  /\ UNCHANGED <<fpga, linked, socket, sourceVars, sent, lost, deaths>>

\* A mutation: the packets of a burst are gathered from the last to the first.
BridgeGatherBackwards ==
  /\ bridge_pc = "loop" /\ nic # <<>>
  /\ ul_data' = ul_data \o nic[Len(nic)]
  /\ nic' = SubSeq(nic, 1, Len(nic) - 1)
  /\ bridge_pc' = IF Len(ul_data') >= SlotUnits THEN "send" ELSE "loop"
  /\ UNCHANGED <<fpga, linked, socket, sourceVars, sent, lost, deaths>>

\* A UL data packet of a burst: its payload goes behind what is there; with a
\* slot's worth of bytes, whosever they are, the frame is sent.
BridgeGather ==
  /\ bridge_pc = "loop" /\ nic # <<>>
  /\ ul_data' = ul_data \o Head(nic)
  /\ nic' = Tail(nic)
  /\ bridge_pc' = IF Len(ul_data') >= SlotUnits THEN "send" ELSE "loop"
  /\ UNCHANGED <<fpga, linked, socket, sourceVars, sent, lost, deaths>>

\* send_frame() blocks while the socket has no room.
BridgeSend ==
  /\ bridge_pc = "send" /\ linked /\ reader # "stopped"
  /\ Len(socket) < SocketFrames
  /\ socket' = Append(socket, ul_data)
  /\ sent' = Append(sent, ul_data)
  /\ ul_data' = <<>> /\ bridge_pc' = "loop"
  /\ UNCHANGED <<fpga, nic, linked, sourceVars, lost, deaths>>

\* send_frame() to a source that has closed its end, or its listening socket
\* with the connection in the backlog: the frame is given up.
BridgeSendFail ==
  /\ bridge_pc = "send" /\ reader = "stopped"
  /\ ul_data' = <<>> /\ bridge_pc' = "loop"
  /\ UNCHANGED <<fpga, nic, linked, socket, sourceVars, sent, lost, deaths>>

\* Killed and started again: the partial slot is gone.
BridgeDie ==
  /\ deaths < MaxDeaths
  /\ deaths' = deaths + 1
  /\ ul_data' = <<>> /\ bridge_pc' = "connect" /\ linked' = FALSE
  /\ nic' = <<>>
  /\ UNCHANGED <<fpga, socket, sourceVars, sent, lost>>

\* main() connects again, after as many attempts as it takes; the connection
\* stays in the backlog of a source that accepts no more.
BridgeReconnect ==
  /\ bridge_pc = "connect" /\ reader # "stopped"
  /\ bridge_pc' = "loop"
  /\ UNCHANGED <<fpga, nic, ul_data, linked, socket, sourceVars, sent, lost, deaths>>

-----------------------------------------------------------------------------
(* The source block.                                                       *)

\* A mutation: a frame that fills the slot exactly is not taken.
SourceRecvStrict ==
  /\ reader = "recv" /\ socket # <<>>
  /\ Len(Head(socket)) < SlotCapacity
  /\ Ring!Accept(Head(socket))
  /\ socket' = Tail(socket)
  /\ UNCHANGED <<fpga, nic, bridgeVars, reader, sent, lost, deaths>>

\* recv_frame() into the slot, and the slot is committed.
SourceRecv ==
  /\ reader = "recv" /\ socket # <<>>
  /\ Len(Head(socket)) <= SlotCapacity
  /\ Ring!Accept(Head(socket))
  /\ socket' = Tail(socket)
  /\ UNCHANGED <<fpga, nic, bridgeVars, reader, sent, lost, deaths>>

\* "Frame too large", or the peer has gone: d_connected stays false for good,
\* and the socket is neither read nor closed.
SourceOff ==
  /\ reader = "recv" /\ Len(queue) < RingFrames
  /\ IF socket = <<>> THEN ~linked ELSE Len(Head(socket)) > SlotCapacity
  /\ reader' = "off"
  /\ UNCHANGED <<fpga, nic, bridgeVars, socket, queue, units_out, sent, lost, deaths>>

\* work() drains the ring, in pieces.
SourceWork ==
  /\ queue # <<>> /\ reader \in {"recv", "off"}
  /\ \E n \in 1 .. Len(Head(queue)) : Ring!Deliver(n)
  /\ UNCHANGED <<fpga, nic, bridgeVars, socket, reader, sent, lost, deaths>>

\* stop() of the source joins the reader and closes its end; start() does not
\* open it again.  A reader that is in recv() keeps stop() in join().
SourceStop ==
  /\ \/ reader \in {"recv", "off"} /\ reader' = "stopped" /\ socket' = <<>>
     \/ /\ reader = "recv" /\ Len(queue) < RingFrames
        /\ reader' = "stopping" /\ UNCHANGED socket
  /\ UNCHANGED <<fpga, nic, bridgeVars, queue, units_out, sent, lost, deaths>>

\* recv() returns in the end, with one more frame, one that is too large or an
\* error; the reader leaves its loop, and stop() closes the socket.
SourceStopJoin ==
  /\ reader = "stopping"
  /\ \/ /\ socket # <<>> /\ Len(Head(socket)) <= SlotCapacity
        /\ Ring!Accept(Head(socket))
     \/ /\ IF socket = <<>> THEN ~linked ELSE Len(Head(socket)) > SlotCapacity
        /\ UNCHANGED <<queue, units_out>>
  /\ reader' = "stopped" /\ socket' = <<>>
  /\ UNCHANGED <<fpga, nic, bridgeVars, sent, lost, deaths>>

-----------------------------------------------------------------------------
Bridge == BridgeGather \/ BridgeSend \/ BridgeSendFail \/ BridgeReconnect

Reader == SourceRecv \/ SourceOff \/ SourceStopJoin

PathNext == Arrive \/ Lose \/ Bridge \/ BridgeDie \/ Reader \/ SourceWork \/ SourceStop

PathSpec == PathInit /\ [][PathNext]_pathVars

\* The bridge, the reader and the scheduler run; the FPGA need not send.
PathFairness == WF_pathVars(Bridge) /\ WF_pathVars(Reader) /\ WF_pathVars(SourceWork)

PathFairSpec == PathSpec /\ PathFairness

-----------------------------------------------------------------------------
(* Properties.                                                             *)

\* "Check if slot is complete": a frame is a slot of the FPGA, and the frames
\* are the slots in their order.
FramesAreSlots == \A k \in 1 .. Len(sent) : sent[k] = Slot(k)

\* However packets are lost, no unit comes out of work() twice or before an
\* earlier one.
OutInOrder == \A i, j \in 1 .. Len(units_out) : i < j => units_out[i] < units_out[j]

\* As long as every packet arrives, the frames are the slots, whatever the pace
\* of the bridge and of the flowgraph, and the reader is not put off by one.
LossFreeFrames ==
  lost = 0 /\ linked => FramesAreSlots /\ reader # "off"

\* The bridge does not stay in send_frame() (where no tick and no downlink slot
\* is served), unless the source has ceased to read.
SendReturns ==
  bridge_pc = "send" ~> (bridge_pc = "loop" \/ reader = "off" \/ ~linked)

\* What the source has taken from a bridge that loses no packet comes out, unless
\* the source is being stopped.
SentComesOut ==
  \A k \in 1 .. MaxSlots :
    (Len(sent) = k /\ lost = 0 /\ linked)
      ~> \/ Len(units_out) >= k * SlotUnits
         \/ reader \in {"stopping", "stopped"} \/ lost > 0 \/ ~linked

=============================================================================
