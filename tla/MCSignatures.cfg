SPECIFICATION Spec
CONSTANTS
  Width = 2
  ComponentIds <- MCComponentIds
  MaxTables = 3
INVARIANTS TypeOK ContainsErrsBeyondWords OneTableUntilRemoval
PROPERTY ActsOnSets
CHECK_DEADLOCK FALSE
