SPECIFICATION LinkFairSpec
CONSTANTS
  RingSize = 2
  SlotUnits = 2
  MaxCall = 2
  MaxUnits = 4
  MaxFaults = 2
  StopDuringWork = TRUE
  WireUnits = 1
  MaxConns = 3
  MaxDeaths = 1
  Backlog = 2
PROPERTIES
  SendIsAnswered
CHECK_DEADLOCK FALSE
