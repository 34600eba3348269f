---------------------------- MODULE DownlinkLink ----------------------------
(***************************************************************************)
(* The downlink from work() to the NIC: the sink block of DownlinkSink,    *)
(* the AF_UNIX socket, and the bridge's end of it.                         *)
(*                                                                         *)
(* The bridge listens, accepts one connection and keeps it: every slot     *)
(* tick of a DL slot makes prepare_flush_dl_burst() read one frame with    *)
(* recv_frame_fast() and hand it to the NIC.  It never writes to the       *)
(* socket, so that the sink's recv() of an acknowledgement has no step     *)
(* here except its failure: RecvAck and SenderAdvance never happen.        *)
(* A connect() of the sink succeeds as soon as the listening socket queues *)
(* it, accepted or not.  The first frame of a bridge process makes it      *)
(* allocate its buffers; when that fails the frame, read already, is       *)
(* dropped, and the caller ignores the -ENOMEM.                            *)
(***************************************************************************)
EXTENDS DownlinkSink, SequencesExt

CONSTANTS
  WireUnits,   \* units the socket buffers hold
  MaxConns,    \* bound: connections the sink makes in a behaviour
  MaxDeaths,   \* bound: times the bridge process is killed
  Backlog      \* connections the listening socket queues

ASSUME LinkAssumption ==
  /\ WireUnits \in Nat \ {0}
  /\ MaxConns \in Nat \ {0}
  /\ MaxDeaths \in Nat
  /\ Backlog \in Nat \ {0}

VARIABLES
  conns,        \* connections made so far; they are numbered from 1
  sink_conn,    \* the connection of d_sock_fd, 0 for none
  backlog,      \* connections queued by the listening socket
  bridge_conn,  \* sock_dl, the connection the bridge has accepted, 0 for none
  wire,         \* units in flight towards the bridge, by connection
  bridge_pc,    \* where the bridge is
  frame_in,     \* units of the current frame the bridge has read
  dl_mbufs_initialized,  \* the bridge has allocated dl_mbufs
  bursts,       \* history: frames handed to the NIC since the last start()
  lost,         \* history: the last connection of which a frame read was dropped
  deaths        \* times the bridge was killed

linkVars   == <<conns, sink_conn, backlog, wire>>
bridgeVars == <<bridge_conn, bridge_pc, frame_in, dl_mbufs_initialized, bursts, lost,
                deaths>>
nicVars    == <<dl_mbufs_initialized, bursts, lost>>
allVars    == <<vars, linkVars, bridgeVars>>

Conns == 1 .. MaxConns

\* The bridge holds the other end of the sink's connection, or will accept it.
Alive == sink_conn # 0 /\ (sink_conn = bridge_conn \/ Contains(backlog, sink_conn))

-----------------------------------------------------------------------------
LinkInit ==
  /\ Init
  /\ conns = 0 /\ sink_conn = 0 /\ backlog = <<>>
  /\ wire = [c \in Conns |-> <<>>]
  /\ bridge_conn = 0 /\ bridge_pc = "startup" /\ frame_in = <<>>
  /\ dl_mbufs_initialized = FALSE
  /\ bursts = <<>> /\ lost = 0 /\ deaths = 0

(* The sink's calls on the socket.                                         *)

\* connect_socket(): the queue of the listening socket takes the connection.
Connect ==
  /\ bridge_pc # "startup" /\ Len(backlog) < Backlog
  /\ conns < MaxConns
  /\ conns' = conns + 1
  /\ sink_conn' = conns'
  /\ backlog' = Append(backlog, conns')
  /\ UNCHANGED wire

\* connect_socket() gives up after its 150 attempts: nobody listens.
ConnectRefused ==
  /\ bridge_pc = "startup"
  /\ sink_conn' = 0
  /\ UNCHANGED <<conns, backlog, wire>>

SinkStart ==
  /\ \/ Start(TRUE) /\ Connect
     \/ Start(FALSE) /\ ConnectRefused
  /\ bursts' = <<>>
  /\ UNCHANGED <<bridge_conn, bridge_pc, frame_in, dl_mbufs_initialized, lost, deaths>>

SinkReconnect ==
  /\ \/ SenderConnect(TRUE) /\ Connect
     \/ SenderConnect(FALSE) /\ ConnectRefused
  /\ UNCHANGED bridgeVars

\* The rest of stop(): close() leaves what is in flight for the bridge.
SinkStopJoin ==
  /\ StopJoin
  /\ sink_conn' = 0
  /\ UNCHANGED <<conns, backlog, wire, bridgeVars>>

SinkSend ==
  /\ SendUnit
  /\ Alive /\ Len(wire[sink_conn]) < WireUnits
  /\ wire' = [wire EXCEPT ![sink_conn] = Append(@, d_ring[d_read_idx][Len(frame_out) + 1])]
  /\ UNCHANGED <<conns, sink_conn, backlog, bridgeVars>>

\* send() or recv() of the sink fails because the bridge process has gone.
SinkSendFail ==
  /\ ~Alive /\ SendFail
  /\ UNCHANGED <<linkVars, bridgeVars>>

\* Steps of the block that do not touch the socket.
SinkLocal ==
  /\ \/ StopSignal \/ StopNotify \/ Work
     \/ SenderLoop \/ SenderPred \/ SenderPark \/ SenderSpurious \/ SenderAwake
  /\ UNCHANGED <<linkVars, bridgeVars>>

-----------------------------------------------------------------------------
(* The bridge.                                                             *)

BridgeMoves(from, to) ==
  /\ bridge_pc = from
  /\ bridge_pc' = to
  /\ UNCHANGED <<vars, conns, sink_conn, deaths>>

\* main() up to listen(); the old socket file is unlinked.
BridgeListen ==
  /\ BridgeMoves("startup", "accept")
  /\ UNCHANGED <<backlog, bridge_conn, wire, frame_in, nicVars>>

\* The one accept(); a connection that was closed meanwhile is accepted too.
BridgeAccept ==
  /\ backlog # <<>>
  /\ BridgeMoves("accept", "loop")
  /\ bridge_conn' = Head(backlog)
  /\ backlog' = Tail(backlog)
  /\ UNCHANGED <<wire, frame_in, nicVars>>

\* The tick of a DL slot: prepare_flush_dl_burst() begins to read a frame.
BridgeTick ==
  /\ BridgeMoves("loop", "recv")
  /\ frame_in' = <<>>
  /\ UNCHANGED <<backlog, bridge_conn, wire, nicVars>>

\* A mutation: recv() without MSG_WAITALL returns with what is there.
BridgeRecvSome ==
  LET units == wire[bridge_conn] IN
  /\ BridgeMoves("recv", "transmit")
  /\ units # <<>>
  /\ frame_in' = Append(frame_in, Head(units))
  /\ wire' = [wire EXCEPT ![bridge_conn] = Tail(units)]
  /\ UNCHANGED <<backlog, bridge_conn, nicVars>>

\* MSG_WAITALL: the call returns when the whole frame is there.
BridgeRecv ==
  LET units == wire[bridge_conn] IN
  /\ BridgeMoves("recv", IF Len(frame_in) + 1 = SlotUnits THEN "transmit" ELSE "recv")
  /\ units # <<>>
  /\ frame_in' = Append(frame_in, Head(units))
  /\ wire' = [wire EXCEPT ![bridge_conn] = Tail(units)]
  /\ UNCHANGED <<backlog, bridge_conn, nicVars>>

\* The sink has closed the connection: recv() falls short, and what was read of
\* the frame is abandoned.  The connection is kept, and nothing accepts another.
BridgeRecvFail ==
  /\ BridgeMoves("recv", "loop")
  /\ wire[bridge_conn] = <<>> /\ sink_conn # bridge_conn
  /\ UNCHANGED <<backlog, bridge_conn, wire, frame_in, nicVars>>

\* The frame goes out in buffers that the first frame has allocated.
BridgeTransmit ==
  /\ BridgeMoves("transmit", "loop")
  /\ dl_mbufs_initialized' = TRUE
  /\ bursts' = Append(bursts, frame_in)
  /\ UNCHANGED <<backlog, bridge_conn, wire, frame_in, lost>>

\* The buffers cannot be allocated: the frame that was read goes nowhere.
BridgeAllocFail ==
  /\ BridgeMoves("transmit", "loop")
  /\ ~dl_mbufs_initialized
  /\ lost' = bridge_conn
  /\ UNCHANGED <<backlog, bridge_conn, wire, frame_in, dl_mbufs_initialized, bursts>>

\* The bridge has no signal handler: the process dies and is started again.
BridgeDie ==
  /\ bridge_pc # "startup" /\ deaths < MaxDeaths
  /\ deaths' = deaths + 1
  /\ bridge_pc' = "startup" /\ bridge_conn' = 0 /\ frame_in' = <<>>
  /\ dl_mbufs_initialized' = FALSE
  /\ backlog' = <<>>
  /\ wire' = [c \in Conns |-> <<>>]
  /\ UNCHANGED <<vars, conns, sink_conn, bursts, lost>>

-----------------------------------------------------------------------------
Sink == SinkStart \/ SinkReconnect \/ SinkStopJoin \/ SinkSend \/ SinkSendFail
        \/ SinkLocal

Bridge == BridgeListen \/ BridgeAccept \/ BridgeTick \/ BridgeRecv \/ BridgeRecvFail
          \/ BridgeTransmit \/ BridgeAllocFail

LinkNext == Sink \/ Bridge \/ BridgeDie

LinkSpec == LinkInit /\ [][LinkNext]_allVars

\* The sender thread and the bridge are scheduled and ticks keep coming; a call
\* of work() that has begun goes on.  Nothing makes the flowgraph act, a wait
\* return without a notification, or the bridge die.
LinkFairness ==
  /\ WF_allVars(Bridge)
  /\ WF_allVars(SinkReconnect \/ SinkSend \/ SinkSendFail)
  /\ WF_allVars(SinkLocal /\ (SenderLoop \/ SenderPred \/ SenderPark \/ SenderAwake))
  /\ WF_allVars(SinkLocal /\ (WorkCopy \/ WorkCommit \/ WorkAbandon \/ WorkNotify))
  /\ WF_allVars(SinkStopJoin) /\ WF_allVars(SinkLocal /\ StopNotify)

LinkFairSpec == LinkSpec /\ LinkFairness

-----------------------------------------------------------------------------
(* Properties.                                                             *)

\* Whatever is handed to the NIC is the first slot of this run's input, whole:
\* over every stop(), reconnect and death of the bridge no burst mixes frames, is
\* cut short or comes from an earlier run, and no later slot gets there, as long
\* as work() has not copied into a full ring.
BurstsAreTheSlot ==
  ~overrun => \A k \in 1 .. Len(bursts) : bursts[k] = InputSlot(1)

\* The sink sends on a connection that the bridge has accepted or will accept.
Heard ==
  \/ sink_conn = bridge_conn
  \/ bridge_pc = "accept" /\ backlog # <<>> /\ Head(backlog) = sink_conn

\* A slot that the sink sends to a bridge that hears it reaches the NIC, over the
\* death of that bridge too: what was not acknowledged is sent again to the next
\* one.  The exception is a bridge that cannot allocate its buffers: it drops the
\* frame, and the sink waits in recv() on that connection and never sends it again.
\* It may be stopped, and a bound that is reached ends the behaviour.
SlotReachesNic ==
  (sender_pc = "send" /\ sink_conn # 0 /\ Heard)
    ~> \/ bursts # <<>> \/ (lost # 0 /\ lost = sink_conn) \/ ctl_pc # "running"
       \/ conns = MaxConns \/ faults = MaxFaults

\* "Single send + single recv": the recv() of send_frame() returns, while the
\* bridge lives.
SendIsAnswered == sender_pc = "ack" ~> (sender_pc # "ack" \/ ~Alive)

=============================================================================
