\* extensions/hpcc_v2/hpcc_sender_v2.py, with packets from before and after a
\* cut in flight together.
SPECIFICATION Spec
CONSTANTS
  MaxPackets = 5
  WInit = 3
  WMin = 1
  WMax = 3
  SendMayFail = FALSE
  StrayAcks = {}
  V2 = TRUE
  Scale = 1
  UOne = 2
  WAi = 1
  Eta = 2
  TauInv = 1
  USamples = {1, 4}
  MaxIncarnation = 2
INVARIANTS TypeOK SnapshotsInOrder
