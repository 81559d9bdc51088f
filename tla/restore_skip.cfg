SPECIFICATION Spec
CONSTANTS
  Total = 3
  MaxR = 2
  ImgSectors = 3
  LinkTries = 2
  Specs <- NoSpecs
  FaultKinds = {}
  MaxFaults = 0
  MaxLine = 4
  Old = Old
  Pad = Pad
INVARIANT AckMeansWritten
CHECK_DEADLOCK FALSE
