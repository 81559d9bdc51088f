SPECIFICATION FairSpec
CONSTANTS
  Total = 1
  MaxR = 2
  ImgSectors = 1
  LinkTries = 2
  Specs <- NoSpecs
  FaultKinds = {"lose", "handshake"}
  MaxFaults = 1
  MaxLine = 3
  Old = Old
  Pad = Pad
PROPERTY CommandArrives
CHECK_DEADLOCK FALSE
