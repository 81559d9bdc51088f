SPECIFICATION Spec
CONSTANTS
  Total = 3
  MaxR = 1
  Bps = 2
  Modes = {"resume"}
  MaxPasses = 2
  Hole = Hole
  Fill = Fill
  NoFile = NoFile
INVARIANT NoneLost
CHECK_DEADLOCK FALSE
