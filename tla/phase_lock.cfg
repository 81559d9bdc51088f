SPECIFICATION Spec
CONSTANTS
  Works <- NestedWorks
  FrameLen = 8
  EotLen = 4
  InfoLen = 5
  Cmd <- ShortCmd
  Timer = FALSE
  LinkTries = 4
  Junk = {"x"}
  MaxLag = 1
  MaxFaults = 1
INVARIANT DeadMeansDead
CHECK_DEADLOCK FALSE
