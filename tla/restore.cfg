SPECIFICATION FairSpec
CONSTANTS
  Total = 2
  MaxR = 2
  ImgSectors = 1
  LinkTries = 2
  Specs <- SomeSpecs
  FaultKinds = {"corrupt", "lose", "noise", "handshake"}
  MaxFaults = 1
  MaxLine = 3
  Old = Old
  Pad = Pad
INVARIANTS TypeOK DriveAligned TalliesExact CompleteMeansCloned
PROPERTIES StreamEnds CloneSpec
CHECK_DEADLOCK FALSE
