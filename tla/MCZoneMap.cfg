SPECIFICATION FairSpec
CONSTANTS
  Drives <- MCDrives
  WordSize <- MCWordSize
INVARIANTS
  TypeOK
  YieldedFollowsChain
  OneCopyIsEnough
  MappedDriveNeverPanics
  CallsSplitTheList
PROPERTIES
  ImplementsStream
  CallsReturn
CHECK_DEADLOCK FALSE
