SPECIFICATION Spec
CONSTANTS
  Drives <- MCDrives
  Queries <- MCQueries
  WordSize <- MCWordSize
  Hash <- FsidHash
PROPERTIES
  FallbackReturnsOriginal
CHECK_DEADLOCK FALSE
