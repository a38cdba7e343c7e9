SPECIFICATION FairSpec
CONSTANTS
  o1 = o1
  o2 = o2
  None = None
  Ids <- MCIds
  Objs <- MCObjs
  MaxStreams = 1
  MaxPlaceholders = 1
  MaxBody = 2
  OutboundBudget = 2
INVARIANTS NoUseAfterRelease NoLostObject CountsExact
PROPERTIES AllReleased
CHECK_DEADLOCK FALSE
