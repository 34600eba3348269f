SPECIFICATION FairSpec
CONSTANTS
  RingSize = 2
  SlotUnits = 2
  MaxCall = 3
  MaxUnits = 8
  MaxFaults = 2
  StopDuringWork = TRUE
INVARIANTS
  TypeOK
  OverwriteOnlyWhenFull
  FifoUnlessOverrun
PROPERTIES
  TransmissionCompletes
  CommitWakesSender
  StopReturns
CHECK_DEADLOCK FALSE
