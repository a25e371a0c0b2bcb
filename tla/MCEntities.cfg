SPECIFICATION RegistrySpec
CONSTANTS
  t1 = t1
  t2 = t2
  Tables <- MCTables
  Rows <- MCRows
  MaxEntities = 3
  GenerationCount = 3
INVARIANTS RegistryTypeOK SparseDenseAgree FreelistExact LookupsAgree
PROPERTIES DeadStaysDead ImplementsLiveHandles
