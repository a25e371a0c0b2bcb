SPECIFICATION QuerySpec
CONSTANTS
  A = A
  B = B
  Components <- MCComponents
  FilterTrees <- MCFilterTrees
  QueryTypes <- MCQueryTypes
  SpawnBundles <- AnyBundle
  InsertBundles <- NoBundles
  RemoveBundles <- OnlyB
  MaxEntities = 4
  MaxHandles = 4
  GenerationCount = 1
CONSTRAINT FourInOneTable
INVARIANTS QueryTypeOK CacheCurrent RowsAccounted IterationComplete
CHECK_DEADLOCK FALSE
