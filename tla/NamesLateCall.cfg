SPECIFICATION Spec
CONSTANTS
  None = None
  Root = Root
  c1 = c1
  c2 = c2
  t1 = t1
  t2 = t2
  o1 = o1
  o2 = o2
  n1 = n1
  Contexts = {Root, c1}
  MayDestroy = {c1}
  Names = {n1}
  Objects = {o1}
  Clients = {t1, t2}
  Ops = {"bind", "new", "destroy"}
  MaxCalls = 3
  MaxCrashes = 0
  MaxFailures = 0
  Failing = {}
  TornCrash = FALSE
  Overlap = TRUE
  Always = FALSE
INVARIANTS
  RestartReads
