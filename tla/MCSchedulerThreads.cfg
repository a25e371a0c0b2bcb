SPECIFICATION Spec
CONSTANTS
  World = World
  X = X
  Y = Y
  AccessTypes <- MCAccessTypes
  WorldAccess = World
  Schedules <- PlainSchedules
  Workers <- ThreeWorkers
  Pools <- ThreePool
  Seeder = 1
  CounterMax = 15
  MaxTicks = 1
INVARIANT OneThreadPerSystem
CHECK_DEADLOCK FALSE
