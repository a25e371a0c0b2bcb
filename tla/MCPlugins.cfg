SPECIFICATION Spec
CONSTANTS
  T1 = T1
  T2 = T2
  Threads <- MCThreads
  MaxInstances = 3
  MaxSystems = 2
INVARIANTS RegisteredInInitOnly SystemsAccounted
CHECK_DEADLOCK FALSE
