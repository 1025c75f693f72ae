\* Three packets, a window of one that may grow to three, alpha in quarters.
SPECIFICATION Spec
CONSTANTS
  MaxPackets = 3
  WInit = 1
  WMin = 1
  WMax = 3
  SendMayFail = TRUE
  StrayAcks = {}
  Scale = 2
  AlphaOne = 4
  GInv = 2
INVARIANTS TypeOK AckCountedOnce GrowthPaidFor
PROPERTY ImplementsWindowed
