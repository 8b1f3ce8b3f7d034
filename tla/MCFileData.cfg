SPECIFICATION FileSpec
CONSTANTS
  Files <- MCFiles
  BlockWords <- MCBlockWords
  DeadBeef <- MCDeadBeef
INVARIANTS
  HeaderFileAnswered
  BlockFileAnswered
  LengthTellsFailure
CHECK_DEADLOCK FALSE
