SPECIFICATION Spec
CONSTANTS
  T1 = T1
  T2 = T2
  T3 = T3
  Threads <- MCThreads
  MaxGuards = 2
INVARIANTS TypeOK OverlapsAreRaces WritersExclude
PROPERTIES FailsForCause
CHECK_DEADLOCK FALSE
