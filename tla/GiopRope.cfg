\* Three callers and one strand: waiting, sharing, retrying, scavenging.
SPECIFICATION FairSpec
CONSTANTS
  c1 = c1  c2 = c2  c3 = c3
  s1 = s1  s2 = s2  a1 = a1  a2 = a2
  None = None
  Callers <- MCCallers
  Timed = {c3}
  Strands = {s1, s2}
  Addresses = {a1, a2}
  Orders <- OneOrTwo
  MaxStrands = 1
  Modes = {TRUE, FALSE}
  Beats = 1
  MaxCalls = 3
  MaxFaults = 1
INVARIANTS
  TypeOK
  CallKeepsStrand
  LimitsKept
PROPERTIES
  ImplementsRemoteCall
  CallsEnd
