SPECIFICATION SnapshotsSpec
CONSTANTS
  Slots = 2
  Depths = {0, 1}
  MaxTime = 4
  MaxPolls = 4
INVARIANT RowsReplayRing
INVARIANT RowsDateWrites
INVARIANT ChangesRecorded
CHECK_DEADLOCK FALSE
