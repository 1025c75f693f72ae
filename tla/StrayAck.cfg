\* One late ACK of an earlier socket on the same port, nothing else wrong.
SPECIFICATION FairSpec
CONSTANTS
  MaxPackets = 2
  WInit = 2
  WMin = 1
  WMax = 2
  SendMayFail = FALSE
  StrayAcks = {5}
PROPERTY Completes
