SPECIFICATION Spec
CONSTANTS
  Works <- PlainWorks
  FrameLen = 7
  EotLen = 4
  InfoLen = 5
  Cmd <- ShortCmd
  Timer = TRUE
  LinkTries = 5
  Junk = {"SOH", "D", "E", "I", "x"}
  MaxLag = 14
  MaxFaults = 1
INVARIANTS NoStaleReply TwoResends CmdResends
PROPERTY Delivered
CHECK_DEADLOCK FALSE
