SPECIFICATION Spec
CONSTANTS
  p1 = p1
  p2 = p2
  Procs = {p1}
  Sources = {"s", "z"}
  Pages = {"a", "b"}
  Texts = {"t", "u"}
  UserText = "user"
  Requests <- MCSharedRequests
  MaxOps = 3
  MaxEdits = 1
  MaxFaults = 1
INVARIANTS
  OneEventPerKey
  ProcessedIsEvidence
  StepIsEvidence
  ProjectionsCurrent
  LogProjectionLead
  HealthyIsSilent
  FindingsAreExplained
PROPERTIES
  RevisionsAdvance
