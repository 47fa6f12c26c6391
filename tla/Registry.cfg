CONSTANTS
  t1 = t1  t2 = t2  t3 = t3  a1 = a1  a2 = a2  f1 = f1  s1 = s1  s2 = s2
  None = None
  Task = {t1, t2, t3}
  Addr = {a1, a2}
  Fresh = {f1}
  SessionId = {s1, s2}
  IdOf <- SharedId
  Requests <- MixedRequests
  MaxGen = 4
  MayDispose = TRUE
SPECIFICATION FairSpec
CHECK_DEADLOCK FALSE
INVARIANTS AddressExclusive DurableIdExclusive LiveIsIndexed LocksReleasedLast
PROPERTIES RequestsSettle ShutdownCompletes
