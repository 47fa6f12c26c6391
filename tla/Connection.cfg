CONSTANTS
  p1 = p1
  MaxTrans = 3
  MaxPatch <- PatchBeforeLast
  Pull = {p1}
  Verbs <- OpenMoveCreate
SPECIFICATION FairSpec
CHECK_DEADLOCK FALSE
INVARIANTS MirrorIsOneStream PullsStayHome OnlyAttachmentLive
PROPERTY TransitionsReply
