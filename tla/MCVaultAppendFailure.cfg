SPECIFICATION Spec
CONSTANTS
  p1 = p1
  p2 = p2
  Procs = {p1}
  Sources = {"s"}
  Pages = {"a"}
  Texts = {"t", "u"}
  UserText = "user"
  Requests <- MCRequests
  MaxOps = 1
  MaxEdits = 0
  MaxFaults = 1
INVARIANTS
  AppendFailureResumable
