SPECIFICATION Spec
CONSTANTS
  Total = 2
  MaxR = 1
  LinkTries = 2
  CmdHead = 2
  RangeBytes = 1
  Timer = TRUE
  FaultKinds = {"corrupt"}
  MaxFaults = 1
  MaxLine = 4
  Modes = {"fresh"}
  Hole = Hole
  Fill = Fill
INVARIANT PassComplete
CHECK_DEADLOCK FALSE
