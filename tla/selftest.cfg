SPECIFICATION Spec
CONSTANTS
  Lists <- AllLists
  Bads <- AnyBads
  LinkTries = 3
  Payload <- Payloads
INVARIANT ParserInStep
PROPERTY TestPasses
CHECK_DEADLOCK FALSE
