SPECIFICATION Spec
CONSTANTS
  A = A
  B = B
  Components <- MCComponents
  SpawnBundles <- OneOrBoth
  InsertBundles <- NoBundles
  RemoveBundles <- OnlyB
  MaxEntities = 2
  MaxHandles = 2
  GenerationCount = 1
INVARIANT RowStoresComponents
CHECK_DEADLOCK FALSE
