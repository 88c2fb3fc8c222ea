SPECIFICATION FairSpec
CONSTANTS
  None = None
  Root = Root
  c1 = c1
  c2 = c2
  t1 = t1
  t2 = t2
  o1 = o1
  o2 = o2
  n1 = n1
  Contexts = {Root, c1}
  MayDestroy = {c1}
  Names = {n1}
  Objects = {o1}
  Clients = {t1, t2}
  Ops = {"bind", "destroy", "bindnew"}
  MaxCalls = 3
  MaxCrashes = 1
  MaxFailures = 1
  Failing = {"ckp", "log"}
  TornCrash = TRUE
  Overlap = TRUE
  Always = TRUE
INVARIANTS
  NoneHalfGone
  NoOrphans
  TornIsDue
PROPERTIES
  CallsEnd
