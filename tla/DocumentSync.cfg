CONSTANTS
  t1 = t1
  t2 = t2
  Tabs = {t1, t2}
  None = None
  MaxEntries = 2
  MaxUpdates = 1
  MaxLosses = 2
  MaxWire = 2
  MaxWrites = 1
SPECIFICATION Spec
CHECK_DEADLOCK FALSE
SYMMETRY TabSymmetry
INVARIANTS MirrorHasDocument CacheIsFile LeafIsRooted
PROPERTIES SealedStays
