SPECIFICATION FairSpec
CHECK_DEADLOCK FALSE
CONSTANTS
  p1 = p1
  p2 = p2
  Procs = {p1, p2}
  CutNewline = FALSE
  MaxOps = 3
  MaxFaults = 2
INVARIANTS
  CompletedIsReadable
  InitSuccessIsComplete
PROPERTIES
  EventsKept
  RecordsKept
  CommandsEnd
