SPECIFICATION Spec
CONSTANTS
  Works <- PlainWorks
  FrameLen = 7
  EotLen = 4
  InfoLen = 5
  Cmd <- LongCmd
  Timer = TRUE
  LinkTries = 5
  Junk = {"I"}
  MaxLag = 14
  MaxFaults = 1
INVARIANT DeadMeansDead
CHECK_DEADLOCK FALSE
