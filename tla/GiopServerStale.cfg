\* A connection that Select() has taken out to notify it, deleted before it does.
SPECIFICATION Spec
CONSTANTS
  k1 = k1
  w1 = w1  w2 = w2  w3 = w3
  None = None
  Connections = {k1}
  Workers = {w1, w2, w3}
  Policies = {TRUE}
  UpperLimits = {1, 2}
  LowerLimit = 1
  MaxWorkers = 2
  Watch = 1
  PoolSize = 2
  MaxAccepts = 2
  MaxRequests = 2
  MaxFaults = 1
  MaxStops = 0
CHECK_DEADLOCK FALSE
INVARIANT NotifiedExists
