SPECIFICATION Spec
CONSTANTS
  B = 4
  Program <- Code
  Literal <- Literals
  Bytes <- ByteCells
  Words <- WordCells
  Cases <- SomeCases
  Tries = 3
INVARIANTS FlagsTrusted BufferMatches GeometryExact
PROPERTY Sweeps
CHECK_DEADLOCK FALSE
