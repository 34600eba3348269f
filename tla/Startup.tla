------------------------------ MODULE Startup ------------------------------
(***************************************************************************)
(* How a flowgraph and the bridge find each other: the constructors of the *)
(* two blocks write the files of /dev/shm and make the UL socket, main()   *)
(* of the bridge reads the files, connects and accepts, and start() of the *)
(* sink connects.  Either process may be killed and started again.         *)
(*                                                                         *)
(* Flowgraphs are numbered from 1 in the order they are started; the       *)
(* content of a file is the number of the flowgraph that wrote it.         *)
(***************************************************************************)
EXTENDS Integers, Sequences

CONSTANTS
  Orders,         \* in which order a flowgraph may construct its two blocks
  Backlog,        \* connections a listening socket queues
  MaxFlows,       \* bound: flowgraphs started
  MaxBridges,     \* bound: times the bridge is launched
  MaxFaults       \* bound: files that cannot be opened for writing

ASSUME StartupAssumption ==
  /\ Orders \subseteq {"source_first", "sink_first"} /\ Orders # {}
  /\ {Backlog, MaxFlows, MaxBridges} \subseteq Nat \ {0} /\ MaxFaults \in Nat
  /\ MaxFlows >= 2

VARIABLES
  flow,        \* the current flowgraph
  order,       \* the order of its constructors
  flow_at,     \* how many steps of its start it has taken
  files,       \* the configuration files: a flowgraph, Absent or Empty
  unwritten,   \* files the current flowgraph failed to write
  ul_backlog,  \* the bridges of the connections to the source's socket
  ul_accepted, \* is the source's connection that of the running bridge?
  sink_conn,   \* is the sink connected to the running bridge?
  bridge_at,   \* where main() of the bridge is
  bridges,     \* times the bridge was launched
  config,      \* what the bridge uses: a flowgraph's value or Default
  ul_peer,     \* the flowgraph of sock_ul, 0 for none
  dl_backlog,  \* the flowgraphs of the connections to the bridge's socket
  dl_peer,     \* the flowgraph of sock_dl, 0 for none
  for_flow,    \* history: the flowgraph that listened when the bridge started
  faults       \* files that could not be opened so far

flowVars   == <<flow, order, flow_at, unwritten>>
bridgeVars == <<bridge_at, bridges, config, dl_peer, for_flow>>
linkVars   == <<ul_backlog, ul_accepted, sink_conn, ul_peer, dl_backlog>>
startVars  == <<flowVars, files, linkVars, bridgeVars, faults>>

Files   == {"sched", "ul", "dl"}
Absent  == -1
Empty   == 0      \* opened for writing, and not closed yet
Default == 0
Flows   == 1 .. MaxFlows

-----------------------------------------------------------------------------
(* The flowgraph: its steps in their order.                                *)

SourceSteps == << <<"open", "ul">>, <<"close", "ul">>, <<"listen">>, <<"accept">> >>
SinkSteps   == << <<"open", "dl">>, <<"close", "dl">>,
                  <<"open", "sched">>, <<"close", "sched">> >>

FlowSteps(o) ==
  (IF o = "source_first" THEN SourceSteps \o SinkSteps ELSE SinkSteps \o SourceSteps)
    \o << <<"start">> >>

Position(step) ==
  CHOOSE k \in DOMAIN FlowSteps(order) : FlowSteps(order)[k] = step

\* The flowgraph is about to take this step; it has taken that one.
At(step)   == flow_at + 1 = Position(step)
Past(step) == flow_at >= Position(step)

\* The source's socket accepts connections until the process ends.
SourceListens == Past(<<"listen">>)

Goes(k) == flow_at' = flow_at + k /\ UNCHANGED <<flow, order>>

\* At first there are no files, or those of a flowgraph 1 that has ended.
StartInit ==
  /\ flow = 2 /\ order \in Orders /\ flow_at = 0
  /\ files \in [Files -> {Absent, 1}] /\ unwritten = {}
  /\ ul_backlog = <<>> /\ ul_accepted = FALSE /\ sink_conn = FALSE
  /\ bridge_at = "down" /\ bridges = 0
  /\ config = [f \in Files |-> Default]
  /\ ul_peer = 0 /\ dl_backlog = <<>> /\ dl_peer = 0 /\ for_flow = 0
  /\ faults = 0

\* fopen() with "w" empties the file; its content is there after fclose().
OpenConfig(f) ==
  /\ At(<<"open", f>>) /\ Goes(1)
  /\ files' = [files EXCEPT ![f] = Empty]
  /\ UNCHANGED <<unwritten, linkVars, bridgeVars, faults>>

\* The file cannot be opened: the constructor says so and goes on.
OpenConfigFails(f) ==
  /\ faults < MaxFaults
  /\ At(<<"open", f>>) /\ Goes(2)
  /\ unwritten' = unwritten \cup {f}
  /\ faults' = faults + 1
  /\ UNCHANGED <<files, linkVars, bridgeVars>>

CloseConfig(f) ==
  /\ At(<<"close", f>>) /\ Goes(1)
  /\ files' = [files EXCEPT ![f] = flow]
  /\ UNCHANGED <<unwritten, linkVars, bridgeVars, faults>>

SourceListen ==
  /\ At(<<"listen">>) /\ Goes(1)
  /\ UNCHANGED <<files, unwritten, linkVars, bridgeVars, faults>>

\* A mutation: the constructor does not wait for the bridge.
SourceAcceptNoWait ==
  /\ At(<<"accept">>) /\ Goes(1)
  /\ ul_accepted' = (ul_backlog # <<>>) /\ ul_backlog' = <<>>
  /\ UNCHANGED <<files, unwritten, sink_conn, ul_peer, dl_backlog, bridgeVars, faults>>

\* The one accept() of the source, in its constructor; it blocks.  It may take the
\* connection of a bridge that was killed since.
SourceAccept ==
  /\ At(<<"accept">>) /\ Goes(1)
  /\ ul_backlog # <<>>
  /\ ul_accepted' = (Head(ul_backlog) = bridges) /\ ul_backlog' = Tail(ul_backlog)
  /\ UNCHANGED <<files, unwritten, sink_conn, ul_peer, dl_backlog, bridgeVars, faults>>

DlListens == bridge_at \in {"accept_dl", "loop"}

\* connect() of the sink, in start() or from its sender thread.
Connects ==
  /\ DlListens /\ ~sink_conn /\ Len(dl_backlog) < Backlog
  /\ sink_conn' = TRUE
  /\ dl_backlog' = Append(dl_backlog, flow)
  /\ UNCHANGED <<files, unwritten, ul_backlog, ul_accepted, ul_peer, bridgeVars, faults>>

SinkStartConnected == At(<<"start">>) /\ Goes(1) /\ Connects

\* start() gives up after 30 s, and the flowgraph runs without a downlink.
SinkStartAlone ==
  /\ At(<<"start">>) /\ Goes(1)
  /\ UNCHANGED <<files, unwritten, linkVars, bridgeVars, faults>>

\* The sender thread connects when there is a slot to send.
SinkReconnect == Past(<<"start">>) /\ Goes(0) /\ Connects

\* The flowgraph is killed and another is started; files and the backlog of the
\* bridge stay as they are.
FlowRestart ==
  /\ flow < MaxFlows
  /\ flow' = flow + 1 /\ order' \in Orders /\ flow_at' = 0 /\ unwritten' = {}
  /\ ul_backlog' = <<>> /\ ul_accepted' = FALSE /\ sink_conn' = FALSE
  /\ UNCHANGED <<files, ul_peer, dl_backlog, bridgeVars, faults>>

-----------------------------------------------------------------------------
(* main() of the bridge.                                                   *)

BridgeGoes(from, to) ==
  /\ bridge_at = from
  /\ bridge_at' = to
  /\ UNCHANGED <<flowVars, files, faults>>

\* What is done to start the bridge again: the old process is killed.
BridgeLaunch ==
  /\ bridges < MaxBridges
  /\ bridges' = bridges + 1
  /\ bridge_at' = "load_sched"
  /\ config' = [f \in Files |-> Default]
  /\ ul_accepted' = FALSE /\ sink_conn' = FALSE
  /\ ul_peer' = 0 /\ dl_backlog' = <<>> /\ dl_peer' = 0
  /\ for_flow' = IF SourceListens THEN flow ELSE 0
  /\ UNCHANGED <<flowVars, files, ul_backlog, faults>>

\* load_runtime_config(): the file overrides the default if it has a value.
Loads(f) ==
  /\ config' = [config EXCEPT ![f] = IF files[f] \in Flows THEN files[f] ELSE Default]
  /\ UNCHANGED <<linkVars, bridges, dl_peer, for_flow>>

\* rte_exit() if the file of the schedule is there without its 20 values.
LoadSchedule ==
  /\ BridgeGoes("load_sched", IF files["sched"] = Empty THEN "exited" ELSE "load_ul")
  /\ Loads("sched")

LoadUlNco == BridgeGoes("load_ul", "load_dl") /\ Loads("ul")

\* A mutation: the value is stored as the frequency of the UL.
LoadDlNcoIntoUl ==
  /\ BridgeGoes("load_dl", "connect_ul")
  /\ config' = [config EXCEPT !["ul"] = IF files["dl"] \in Flows THEN files["dl"] ELSE Default]
  /\ UNCHANGED <<linkVars, bridges, dl_peer, for_flow>>

\* A mutation: the bridge waits for the sink before it connects to the source.
LoadDlNcoThenListen == BridgeGoes("load_dl", "listen_dl") /\ Loads("dl")

LoadDlNco == BridgeGoes("load_dl", "connect_ul") /\ Loads("dl")

\* connect() is repeated until the source listens and its backlog has room.
ConnectUl ==
  /\ SourceListens /\ Len(ul_backlog) < Backlog
  /\ BridgeGoes("connect_ul", "listen_dl")
  /\ ul_backlog' = Append(ul_backlog, bridges) /\ ul_peer' = flow
  /\ UNCHANGED <<ul_accepted, sink_conn, dl_backlog, bridges, config, dl_peer,
                 for_flow>>

\* The old socket is removed, and the new one listens.
ListenDl ==
  /\ BridgeGoes("listen_dl", "accept_dl")
  /\ UNCHANGED <<linkVars, bridges, config, dl_peer, for_flow>>

\* The one accept() of the bridge, which also takes a connection that its sink
\* has closed.
AcceptDl ==
  /\ dl_backlog # <<>>
  /\ BridgeGoes("accept_dl", "loop")
  /\ dl_peer' = Head(dl_backlog) /\ dl_backlog' = Tail(dl_backlog)
  /\ UNCHANGED <<ul_backlog, ul_accepted, sink_conn, ul_peer, bridges, config,
                 for_flow>>

-----------------------------------------------------------------------------
FlowStep ==
  \/ \E f \in Files : OpenConfig(f) \/ OpenConfigFails(f) \/ CloseConfig(f)
  \/ SourceListen \/ SourceAccept \/ SinkStartConnected \/ SinkStartAlone

BridgeStep == LoadSchedule \/ LoadUlNco \/ LoadDlNco \/ ConnectUl \/ ListenDl \/ AcceptDl

StartNext == FlowStep \/ SinkReconnect \/ FlowRestart \/ BridgeLaunch \/ BridgeStep

StartSpec == StartInit /\ [][StartNext]_startVars

\* Both processes run, the bridge is launched once, and the flowgraph has slots
\* for the sender thread.
StartFairness ==
  /\ WF_startVars(FlowStep) /\ WF_startVars(BridgeStep) /\ WF_startVars(SinkReconnect)
  /\ WF_startVars(BridgeLaunch /\ bridges = 0)

StartFairSpec == StartSpec /\ StartFairness

-----------------------------------------------------------------------------
(* Properties.                                                             *)

StartTypeOK ==
  /\ flow \in Flows /\ order \in Orders
  /\ flow_at \in 0 .. Len(FlowSteps(order))
  /\ files \in [Files -> {Absent, Empty} \cup Flows] /\ unwritten \subseteq Files
  /\ ul_backlog \in Seq(1 .. MaxBridges) /\ Len(ul_backlog) <= Backlog
  /\ ul_accepted \in BOOLEAN /\ sink_conn \in BOOLEAN
  /\ bridge_at \in {"down", "load_sched", "load_ul", "load_dl", "connect_ul",
                    "listen_dl", "accept_dl", "loop", "exited"}
  /\ bridges \in 0 .. MaxBridges
  /\ config \in [Files -> {Default} \cup Flows]
  /\ ul_peer \in {0} \cup Flows /\ dl_peer \in {0} \cup Flows
  /\ dl_backlog \in Seq(Flows) /\ Len(dl_backlog) <= Backlog
  /\ for_flow \in {0} \cup Flows
  /\ faults \in 0 .. MaxFaults

\* The bridge never serves two flowgraphs, the uplink of one and the downlink of
\* another, however the processes die: a flowgraph does not reach start() before
\* a bridge has connected to it.
OneFlowgraph == bridge_at = "loop" => dl_peer = ul_peer

\* "Must precede setup_server()'s blocking accept(): the dpdk app reads this config
\* [...] before it connects to us": a bridge launched while the source of a
\* flowgraph listens, and connected to it, uses its UL frequency, if written. The
\* same holds of all that the flowgraph configures if it constructs its sink first
\* ("You should see CONFIG: ... lines"), as the constructor of its source does not
\* return before the bridge has read the files.
ConfigIsPeers ==
  (ul_peer = for_flow /\ ul_peer = flow) =>
    /\ bridge_at \in {"listen_dl", "accept_dl", "loop"} /\ "ul" \notin unwritten
         => config["ul"] = ul_peer
    /\ bridge_at = "loop" /\ order = "sink_first"
         => \A f \in Files \ unwritten : config[f] = ul_peer

\* A flowgraph and a bridge, started in whatever order, get to run connected both
\* ways, unless one is killed or the bridge has exited over the schedule.
Connected == bridge_at = "loop" /\ ul_accepted /\ sink_conn /\ dl_peer = flow

StartCompletes == <>(Connected \/ bridge_at = "exited" \/ bridges > 1 \/ flow > 2)

=============================================================================
