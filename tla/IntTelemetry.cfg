\* Three packets over three switches, the last of which finds the stack full.
SPECIFICATION Spec
CONSTANTS
  NumSwitches = 3
  MaxHops = 2
  LinkBps = {1, 2}
  Packets = {p1, p2, p3}
  PacketLen = 2
  HopLen = 1
  CounterMod = 20
  TxInit = 15
  QDepths = {0}
  QUnit = 1
  RateUnit = 4
  MaxTime = 2
  MaxCross = 1
  MaxResets = 1
  ResetAt = {1}
SYMMETRY PacketSymmetry
INVARIANTS TrueRate NeverTooBusy NoByteCountedTwice EverySampleCounts StackIsPath
CHECK_DEADLOCK FALSE
