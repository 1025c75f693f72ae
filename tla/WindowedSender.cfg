\* Three packets, a window that opens to 2 or 3, sends that may fail.
SPECIFICATION FairSpec
CONSTANTS
  MaxPackets = 3
  WInit = 2
  WMin = 1
  WMax = 2
  SendMayFail = TRUE
  StrayAcks = {}
INVARIANTS TypeOK InFlightBounded InFlightUnacked Accounted CumAckReceived
PROPERTIES EarlyExitComplete Completes
