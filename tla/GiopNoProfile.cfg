\* Two callers and one connection that breaks: the second is told that the
\* reference has no usable address.
SPECIFICATION Spec
CONSTANTS
  c1 = c1  c2 = c2  c3 = c3
  s1 = s1  s2 = s2  a1 = a1  a2 = a2
  None = None
  Callers = {c1, c2}
  Timed = {}
  Strands = {s1, s2}
  Addresses = {a1, a2}
  Orders <- TwoAddresses
  MaxStrands = 1
  Modes = {TRUE}
  Beats = 1
  MaxCalls = 3
  MaxFaults = 1
INVARIANTS
  NoProfileMeansNone
