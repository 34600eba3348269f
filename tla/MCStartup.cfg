SPECIFICATION StartFairSpec
CONSTANTS
  Orders = {"source_first", "sink_first"}
  Backlog = 2
  MaxFlows = 3
  MaxBridges = 2
  MaxFaults = 1
INVARIANTS
  OneFlowgraph
  ConfigIsPeers
PROPERTIES
  StartCompletes
CHECK_DEADLOCK FALSE
