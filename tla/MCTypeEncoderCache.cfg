SPECIFICATION FairCacheSpec
CONSTANTS
  Goroutines = {g1, g2}
  Types <- MCTypes
  Parts <- MCParts
  Structs = {"T"}
  Interfaces = {"any"}
  MaxDepth = 1
INVARIANTS
  CacheInv
  MadeOnce
  WaitsOnMaker
  FieldsShared
PROPERTIES
  ImplementsService
CHECK_DEADLOCK FALSE
