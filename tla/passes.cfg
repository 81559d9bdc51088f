SPECIFICATION Spec
CONSTANTS
  Total = 3
  MaxR = 1
  Bps = 2
  Modes = {"fresh", "resume", "range"}
  MaxPasses = 2
  Hole = Hole
  Fill = Fill
  NoFile = NoFile
INVARIANTS MapHonest MapRoundTrip RecoveredKept BadListMatches
CHECK_DEADLOCK FALSE
