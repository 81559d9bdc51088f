SPECIFICATION FairSpec
CONSTANTS
  Total = 1
  MaxR = 1
  LinkTries = 2
  CmdHead = 2
  RangeBytes = 1
  Timer = FALSE
  FaultKinds = {"lose"}
  MaxFaults = 1
  MaxLine = 2
  Modes = {"fresh"}
  Hole = Hole
  Fill = Fill
PROPERTY ReplyWaitEnds
CHECK_DEADLOCK FALSE
