SPECIFICATION FairSpec
CONSTANTS
  t1 = t1
  t2 = t2
  t3 = t3
  Threads <- MCThreads
  MaxDepth = 2
  Budget = 3
INVARIANTS
  TypeOK
  CounterExact
  Exclusion
  NoLostWakeup
PROPERTIES
  WaiterEnters
  ImplementsRWLock
