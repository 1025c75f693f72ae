SPECIFICATION FairSpec
CONSTANTS
  NSwitches = 2
  EcnK = 0
  QueueDepth = 2
  MaxPackets = 3
  SendMayFail = TRUE
INVARIANT LoggedOnce
INVARIANT EchoIsMark
INVARIANT SummaryFitsLog
INVARIANT NeverOvercounted
PROPERTY Ends
