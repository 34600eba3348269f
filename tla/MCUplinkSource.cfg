SPECIFICATION FairSpec
CONSTANTS
  RingSize = 2
  SlotBytes = 4
  SizeofShort = 2
  FrameLens = {2, 4, 6}
  MaxCall = 3
  MaxBytes = 12
  StopDuringWork = TRUE
INVARIANTS
  TypeOK
  SlotExclusion
  OutIsPrefix
  PaddingBetweenSlots
PROPERTIES
  ImplementsSlotStream
  AcceptedComesOut
  StopReturns
CHECK_DEADLOCK FALSE
