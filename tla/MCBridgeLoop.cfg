SPECIFICATION LoopFairSpec
CONSTANTS
  NumSlotsPerSfn = 4
  NumSfn = 2
  Schedule <- MCMixed
  UlControlPeriod = 4
  MaxBurst = 2
  RxPackets = 3
  FirstTick = 9
  FirstSlot = 13
  LastSlot = 24
  MaxResidue = 3
  MaxUlPackets = 1
  MaxFaults = 1
INVARIANTS
  AirInOrder
  HeadersTwoAhead
  UlControlSpacing
  UlControlNotLate
  DdrUnlessFaults
PROPERTIES
  InitCompletes
CHECK_DEADLOCK FALSE
