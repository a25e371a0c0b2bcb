SPECIFICATION Spec
CONSTANTS
  E1 = E1
  E2 = E2
  E3 = E3
  T1 = T1
  T2 = T2
  Entities <- MCEntities
  Tables <- MCTables
  MaxTick = 2
SYMMETRY Symmetry
INVARIANTS TypeOK TicksExact NoneMissed QuietIsQuiet OnlyZeroSizedCrash
CHECK_DEADLOCK FALSE
