SPECIFICATION Spec
CONSTANTS
  Directories <- MCDirectories
  BlockSize <- MCBlockSize
  ByteRange <- MCByteRange
  Strays <- MCStrays
INVARIANTS
  LostOnlyToShortRead
  NothingSkipped
  PlainDriveLooksEmpty
CHECK_DEADLOCK FALSE
