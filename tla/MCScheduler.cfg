SPECIFICATION FairSpec
CONSTANTS
  World = World
  X = X
  Y = Y
  AccessTypes <- MCAccessTypes
  WorldAccess = World
  Schedules <- AnySchedules
  Workers <- ThreeWorkers
  Pools <- AnyPool
  Seeder = 1
  CounterMax = 15
  MaxTicks = 2
INVARIANTS TypeOK AloneNeverOvertaken NoCounterWraps RunIsComplete
PROPERTIES OrderKept RunEnds
CHECK_DEADLOCK FALSE
