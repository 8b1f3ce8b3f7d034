SPECIFICATION FileSpec
CONSTANTS
  Files <- MCFiles
  BlockWords <- MCBlockWords
  DeadBeef <- MCDeadBeef
INVARIANTS
  StoredFileAnswered
CHECK_DEADLOCK FALSE
