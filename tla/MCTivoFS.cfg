CONSTANTS
  c1 = c1
  c2 = c2
  Calls = {c1, c2}
  Drives <- MCDrives
  Paths <- MCPaths
  Unnameable <- NotUtf8
  MaxOutages = 1
SPECIFICATION FairSpec
CHECK_DEADLOCK FALSE
INVARIANTS
  TypeOK
  AnsweredForItsPath
  StaysInTree
  PanicNeedsCause
PROPERTIES
  ImplementsTree
  CallsAnswered
