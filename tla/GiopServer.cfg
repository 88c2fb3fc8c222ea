\* A connection with a dedicated thread or with the pool, opened twice, with
\* faults and one stop(). The server may wait for requests that never come.
SPECIFICATION FairSpec
CONSTANTS
  k1 = k1
  w1 = w1  w2 = w2  w3 = w3
  None = None
  Connections = {k1}
  Workers = {w1, w2, w3}
  Policies = {TRUE}
  UpperLimits = {1, 2}
  LowerLimit = 1
  MaxWorkers = 2
  Watch = 1
  PoolSize = 2
  MaxAccepts = 2
  MaxRequests = 2
  MaxFaults = 1
  MaxStops = 2
CHECK_DEADLOCK FALSE
INVARIANTS
  TypeOK
  FreedOnce
  DyingIsRemoved
  IdleIsEmpty
PROPERTIES
  Attended
  StopEnds
