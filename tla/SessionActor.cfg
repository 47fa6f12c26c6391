CONSTANTS
  c1 = c1  c2 = c2  k1 = k1  k2 = k2  m1 = m1  m2 = m2
  Op = {m1, m2}
  NoOp = NoOp
  Client = {c1, c2}
  Command = {k1, k2}
  Registration = Registration
SPECIFICATION FairSpec
CHECK_DEADLOCK FALSE
INVARIANTS MutationsPrecedeDisposal ClosedIsQuiet TimerMeansIdle ArrivalOrder
PROPERTIES ImplementsLifecycle CloseCompletes IdleCollected AdmittedSettles
