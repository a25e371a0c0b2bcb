SPECIFICATION Spec
CONSTANTS
  A = A
  B = B
  Components <- MCComponents
  SpawnBundles <- AnyBundle
  InsertBundles <- OnlyB
  RemoveBundles <- OnlyB
  MaxEntities = 3
  MaxHandles = 3
  GenerationCount = 2
INVARIANTS OneTablePerArchetype ResidesInOneTable HasComponentsExact
PROPERTIES ImplementsMapBySignature SafeStepsImplementMap
CHECK_DEADLOCK FALSE
