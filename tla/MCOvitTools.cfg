SPECIFICATION FairSpec
CONSTANTS
  Drives <- MCDrives
  Commands <- MCCommands
  WordSize <- MCWordSize
  LongWord <- MCLongWord
  FirstInode <- MCFirstInode
  Hash <- FsidHash
INVARIANTS
  ShownUnderItsNumber
  CountsAgree
  StoredIsShown
PROPERTIES
  CommandEnds
CHECK_DEADLOCK FALSE
