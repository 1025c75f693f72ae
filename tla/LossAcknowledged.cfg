\* Is a lost packet ever taken for acknowledged?  Sends never fail here.
SPECIFICATION Spec
CONSTANTS
  MaxPackets = 3
  WInit = 2
  WMin = 1
  WMax = 2
  SendMayFail = FALSE
  StrayAcks = {}
INVARIANT NoLossAcknowledged
