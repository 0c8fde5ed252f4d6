SPECIFICATION Spec
CONSTANTS
  p1 = p1
  p2 = p2
  Procs = {p1, p2}
  Sources = {"s"}
  Pages = {"a"}
  Texts = {"t", "u"}
  UserText = "user"
  Requests <- MCRequests
  MaxOps = 2
  MaxEdits = 0
  MaxFaults = 1
SYMMETRY Symmetry
INVARIANTS
  MutualExclusion
  ConfirmedStateHolds
  CompletedIsLogged
  SuccessIsLogged
PROPERTIES
  LogAppendOnly
  ImplementsLedger
