SPECIFICATION Spec
CONSTANTS
  World = World
  Score = Score
  Mail = Mail
  AccessTypes <- MCAccessTypes
  WorldAccess = World
  Values <- MCValues
  Messages <- MCMessages
  Schedules <- MCSchedules
  Singles <- MCSingles
  MaxArgs = 2
  MaxUpdates = 3
  MaxTick = 3
INVARIANTS NoUpdateLost LenExact
PROPERTIES SharedStaysStill ImplementsLog
CHECK_DEADLOCK FALSE
