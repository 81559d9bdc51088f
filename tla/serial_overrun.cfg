SPECIFICATION Spec
CONSTANTS
  Total = 1
  MaxR = 1
  LinkTries = 2
  CmdHead = 2
  RangeBytes = 1
  Timer = TRUE
  FaultKinds = {}
  MaxFaults = 0
  MaxLine = 2
  Modes = {"fresh"}
  Hole = Hole
  Fill = Fill
INVARIANT OneReplyByte
CHECK_DEADLOCK FALSE
