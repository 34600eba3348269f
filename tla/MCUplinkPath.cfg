SPECIFICATION PathFairSpec
CONSTANTS
  SlotUnits = 3
  PktUnits = 2
  SlotCapacity = 3
  RingFrames = 2
  RxPackets = 2
  SocketFrames = 1
  MaxSlots = 4
  MaxLoss = 1
  MaxDeaths = 1
INVARIANTS
  OutInOrder
  LossFreeFrames
PROPERTIES
  SendReturns
  SentComesOut
CHECK_DEADLOCK FALSE
