SPECIFICATION FairSpec
CONSTANTS
  None = None
  server = server
  general = general
  a1 = a1
  a2 = a2
  a3 = a3
  i1 = i1
  i2 = i2
  d1 = d1
  d2 = d2
  Workers = {w1, w2}
  Pools = {server, general}
  Tasks = {a1, a2, i1, d1}
  PoolMax <- MaxOne
  TaskPool <- Mixed
  TaskCat <- Category
  MaxInserts = 3
INVARIANTS
  TypeOK
  PoolThreadsExact
  AnyTimeWithinLimit
  IdleListsExact
  TaskInOnePlace
  FreedWhenQuiet
PROPERTIES
  ImplementsTaskService
  HandedExecuted
  DestructorDrains
  MainServed
