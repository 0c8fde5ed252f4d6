SPECIFICATION Spec
CONSTANTS
  Order <- MCOrderFolder
  Links <- MCLinks
  Documents <- MCDocuments
  ControlCenter <- MCFolder
  FoldPart <- MCFold
  MaxLinks = 2
  MaxEdits = 0
INVARIANTS
  IndexLinksReach
CHECK_DEADLOCK FALSE
