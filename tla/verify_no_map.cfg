SPECIFICATION Spec
CONSTANTS
  Total = 3
  MaxR = 2
  Bps = 2
  Modes = {"range"}
  MaxPasses = 1
  Hole = Hole
  Fill = Fill
  NoFile = NoFile
INVARIANT VerdictSound
CHECK_DEADLOCK FALSE
