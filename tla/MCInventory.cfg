SPECIFICATION Spec
CONSTANTS
  p1 = p1
  d1 = d1
  Procs = {p1}
  Docs = {d1}
  Scopes <- TwoScopes
  Reasons = {"r"}
  Versions = 2
  MaxOps = 3
  MaxEdits = 2
  MaxFaults = 1
INVARIANTS
  AuditTrail
  IgnoreIsAccounted
  HistoryIsKept
