SPECIFICATION Spec
CONSTANTS
  Total = 2
  MaxR = 1
  LinkTries = 4
  CmdHead = 2
  RangeBytes = 1
  Timer = FALSE
  FaultKinds = {"corrupt", "soh"}
  MaxFaults = 2
  MaxLine = 4
  Modes = {"fresh"}
  Hole = Hole
  Fill = Fill
INVARIANT PassComplete
CHECK_DEADLOCK FALSE
