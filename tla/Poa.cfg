SPECIFICATION FairSpec
CONSTANTS
  Objects = {o1}
  Callers = {r1, r2}
  Apps = {p1, p2}
  Ops <- All
  Policies <- TwoPolicies
  MaxCalls = 2
  MaxOps = 3
  MaxEvents = 4
  None = None
INVARIANTS
  TypeOK
  CountsExact
  OnlyAbandonedLeft
PROPERTIES
  ImplementsObjectLife
  JobsEnd
CHECK_DEADLOCK FALSE
