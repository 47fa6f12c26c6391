CONSTANTS
  p1 = p1  p2 = p2  p3 = p3  p4 = p4
  h1 = h1  h2 = h2
  None = None
  Proc = {p1, p2, p3}
  Mortal = {p1, p2, p3}
  Impatient = {p1}
  Host = {h1, h2}
  HostOf <- OneHost
  IoFaults = TRUE
SPECIFICATION FairSpec
CHECK_DEADLOCK FALSE
INVARIANT ExclusiveUntilGuardRemoved
PROPERTIES LiveClaimKept AcquisitionSettles
