SPECIFICATION LinkFairSpec
CONSTANTS
  RingSize = 2
  SlotUnits = 2
  MaxCall = 2
  MaxUnits = 6
  MaxFaults = 3
  StopDuringWork = TRUE
  WireUnits = 1
  MaxConns = 3
  MaxDeaths = 1
  Backlog = 2
INVARIANTS
  BurstsAreTheSlot
PROPERTIES
  SlotReachesNic
CHECK_DEADLOCK FALSE
