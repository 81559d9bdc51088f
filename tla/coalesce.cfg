SPECIFICATION Spec
CONSTANTS
  Total = 7
  MaxR = 2
INVARIANTS KeepsPromise FewestReread LoopInv
PROPERTY Terminates
