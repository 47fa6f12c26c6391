CONSTANTS
  k1 = k1
  k2 = k2
  Keys = {k1}
  None = None
  MaxJobs = 3
  MaxOutstanding = 2
SPECIFICATION FairSpec
CHECK_DEADLOCK FALSE
INVARIANTS SerialReads ToldIsStored SurvivorsArePrefix ClosedIsStored
PROPERTIES CommitsAreSerial LineSettles
