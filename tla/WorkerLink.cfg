CONSTANTS
  o1 = o1  o2 = o2
  Obs = {o1, o2}
  Created = {o2}
  MaxPatch <- CreatedPatch
SPECIFICATION FairSpec
CHECK_DEADLOCK FALSE
INVARIANTS BaselineFirst StreamIsPrefix NothingOutlivesLink ShutdownReplyMeansDone
PROPERTY CallsSettle
