SPECIFICATION Spec
CONSTANTS
  Order <- MCOrderVault
  Links <- MCLinks
  Documents <- MCDocuments
  ControlCenter <- MCVault
  FoldPart <- MCFold
  MaxLinks = 2
  MaxEdits = 1
INVARIANTS
  ReachableIsLeast
  OrphansAreCutOff
  DetachedAreConnected
  AlikeLinksReach
PROPERTIES
  NoNodeTwice
CHECK_DEADLOCK FALSE
