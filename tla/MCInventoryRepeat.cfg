SPECIFICATION Spec
CONSTANTS
  p1 = p1
  d1 = d1
  Procs = {p1}
  Docs = {d1}
  Scopes <- OneScope
  Reasons = {"r"}
  Versions = 1
  MaxOps = 5
  MaxEdits = 0
  MaxFaults = 0
INVARIANTS
  ConfirmedTakesEffect
