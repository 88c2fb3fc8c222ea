SPECIFICATION Spec
CONSTANTS
  None = None
  Root = Root
  c1 = c1
  c2 = c2
  t1 = t1
  t2 = t2
  o1 = o1
  o2 = o2
  n1 = n1
  Contexts = {Root, c1}
  MayDestroy = {c1}
  Names = {n1}
  Objects = {o1, o2}
  Clients = {t1, t2}
  Ops = {"resolve", "rebind", "unbind", "new", "bindnew", "destroy"}
  MaxCalls = 3
  MaxCrashes = 1
  MaxFailures = 1
  Failing = {"ckp"}
  TornCrash = FALSE
  Overlap = FALSE
  Always = TRUE
INVARIANTS
  TypeOK
  MemoryIsLog
  RestartReads
PROPERTIES
  ImplementsNamingStore
