\* Feedback from before a cut makes the window fall a second time.
SPECIFICATION Spec
CONSTANTS
  MaxPackets = 5
  WInit = 3
  WMin = 1
  WMax = 3
  SendMayFail = FALSE
  StrayAcks = {}
  V2 = TRUE
  Scale = 1
  UOne = 4
  WAi = 0
  Eta = 4
  TauInv = 2
  USamples = {6}
  MaxIncarnation = 2
PROPERTIES StaleAckNeverCuts
