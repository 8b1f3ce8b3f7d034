SPECIFICATION IterSpec
CONSTANTS
  Tables <- MCTables
  LongWord <- MCLongWord
INVARIANTS
  IterTypeOK
  SlotsInOrder
  StaysInTable
  NoneMeansAll
CHECK_DEADLOCK FALSE
