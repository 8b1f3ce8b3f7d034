SPECIFICATION Spec
CONSTANTS
  Images <- MCImages
  WordSize <- MCWordSize
INVARIANTS
  SoundDriveLoads
  FaultsOnlyShorten
  LoadPanicJustified
CHECK_DEADLOCK FALSE
