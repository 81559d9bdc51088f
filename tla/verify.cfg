SPECIFICATION Spec
CONSTANTS
  MaxTotal = 4
  MaxLba = 2
  Slots = 2
  Scale = 2
INVARIANTS PartitionsTruthful HundredMeansComplete
CHECK_DEADLOCK FALSE
