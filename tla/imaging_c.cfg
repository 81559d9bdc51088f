SPECIFICATION FairSpec
CONSTANTS
  Total = 2
  MaxR = 1
  LinkTries = 2
  CmdHead = 2
  RangeBytes = 1
  Timer = TRUE
  FaultKinds = {"corrupt", "lose", "noise", "handshake", "mimic", "reset", "soh"}
  MaxFaults = 1
  MaxLine = 2
  Modes = {"fresh", "resume", "range"}
  Hole = Hole
  Fill = Fill
INVARIANTS TypeOK ImageHonest BadCountExact LineTruthful TxPosition
PROPERTIES RescueSpec LinkedEnds HandshakeCompletes
CHECK_DEADLOCK FALSE
