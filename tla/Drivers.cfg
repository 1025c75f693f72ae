SPECIFICATION FairSpec
CONSTANTS
  Duration = 10
  Delay = 2
  JoinGap = 3
  NFlows = 3
  NRounds = 2
  RestTime = 1
  NTrials = 3
  Grace = 6
  LastWait = 4
  StartTime = 2
  EndTime = 1
  MaxFaults = 1
INVARIANT OneLogMissingAtMost
INVARIANT FaultsStayLocal
INVARIANT NobodyLeftBehind
PROPERTY DriverEnds
