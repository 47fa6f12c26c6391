CONSTANTS
  t1 = t1  t2 = t2  t3 = t3  a1 = a1  a2 = a2  f1 = f1  s1 = s1  s2 = s2
  None = None
  Task = {t1, t2, t3}
  Addr = {a1}
  Fresh = {}
  SessionId = {s1, s2}
  IdOf <- SharedId
  Requests <- ArchiveRequests
  MaxGen = 4
  MayDispose = FALSE
SPECIFICATION Spec
CHECK_DEADLOCK FALSE
PROPERTY ArchiveMovesQuietFile
