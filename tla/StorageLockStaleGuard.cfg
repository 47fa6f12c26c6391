CONSTANTS
  p1 = p1  p2 = p2  p3 = p3  p4 = p4
  h1 = h1  h2 = h2
  None = None
  Proc = {p1, p2, p3, p4}
  Mortal = {p3, p4}
  Impatient = {}
  Host = {h1, h2}
  HostOf <- OneHost
  IoFaults = FALSE
SPECIFICATION Spec
CHECK_DEADLOCK FALSE
SYMMETRY PairSymmetry
INVARIANT MutualExclusion
