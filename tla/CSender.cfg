\* Three packets through two slots, and a left-over ACK.
SPECIFICATION FairSpec
CONSTANTS
  MaxPackets = 3
  InflightMax = 2
  WInit = 2
  WMin = 1
  WMax = 2
  SendMayFail = FALSE
  StrayAcks = {6}
  Scale = 1
  UOne = 2
  WAi = 1
  Eta = 2
  TauInv = 2
  USamples = {1, 5}
INVARIANTS TypeOK CountMatchesSlots SlotsAfterCursor
PROPERTY Completes
