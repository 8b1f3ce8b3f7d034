SPECIFICATION FairSpec
CONSTANTS
  Drives <- MCDrives
  Queries <- MCQueries
  WordSize <- MCWordSize
  Hash <- FsidHash
INVARIANTS
  TypeOK
  StoredIsFound
  ChainInRange
  NeedsReadablePrimary
PROPERTIES
  LookupReturns
CHECK_DEADLOCK FALSE
