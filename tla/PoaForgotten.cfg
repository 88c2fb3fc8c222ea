SPECIFICATION Spec
CONSTANTS
  Objects = {o1}
  Callers = {r1}
  Apps = {p1, p2}
  Ops <- All
  Policies <- TwoPolicies
  MaxCalls = 1
  MaxOps = 3
  MaxEvents = 4
  None = None
INVARIANT NoForgottenRequest
CHECK_DEADLOCK FALSE
