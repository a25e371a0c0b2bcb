SPECIFICATION QuerySpec
CONSTANTS
  A = A
  B = B
  Components <- MCComponents
  FilterTrees <- MCFilterTrees
  QueryTypes <- OneQuery
  SpawnBundles <- OneOrBoth
  InsertBundles <- NoBundles
  RemoveBundles <- NoBundles
  MaxEntities = 3
  MaxHandles = 3
  GenerationCount = 1
INVARIANT IteratesOverAll
CHECK_DEADLOCK FALSE
