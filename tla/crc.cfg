SPECIFICATION Spec
CONSTANTS
  W = 16
  B = 8
  Poly = {0, 5, 12}
  Starts <- Ones
  Bytes <- Filler
  MaxLen = 518
  MaxBurst = 3
INVARIANTS DamageDetected IsRemainder
PROPERTY DifferencePersists
CHECK_DEADLOCK FALSE
