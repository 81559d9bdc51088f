SPECIFICATION Spec
CONSTANTS
  Total = 3
  MaxR = 2
  LinkTries = 3
  CmdHead = 2
  RangeBytes = 1
  Timer = FALSE
  FaultKinds = {"corrupt", "lose"}
  MaxFaults = 2
  MaxLine = 2
  Modes = {"fresh", "resume", "range"}
  Hole = Hole
  Fill = Fill
INVARIANTS AckedIsStored TallyExact
PROPERTY ResendIdempotent
CHECK_DEADLOCK FALSE
