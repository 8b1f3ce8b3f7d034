SPECIFICATION Spec
CONSTANTS
  Drives <- MCDrives
  WordSize <- MCWordSize
INVARIANTS
  WholeListSeen
CHECK_DEADLOCK FALSE
