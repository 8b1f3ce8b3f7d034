SPECIFICATION Spec
CONSTANTS
  WordSize <- MCWordSize
  PartitionMaps <- MCPartitionMaps
  QuerySectors <- MCQuerySectors
INVARIANTS
  TypeOK
  Tiled
  InteriorGoesHome
  BoundaryGoesToPredecessor
  PanicsJustified
CHECK_DEADLOCK FALSE
