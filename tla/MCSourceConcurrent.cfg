SPECIFICATION Spec
CHECK_DEADLOCK FALSE
CONSTANTS
  p1 = p1
  p2 = p2
  a = a
  b = b
  c = c
  d = d
  Procs = {p1, p2}
  Paths = {a, b}
  NameOf <- MCNameOf
  Contents = {c, d}
  Modes = {"read", "archive"}
  MaxRuns = 2
  MaxUpsets = 1
SYMMETRY Symmetry
INVARIANTS
  NoSourceLost
  ArchiveHolds
PROPERTIES
  RawImmutable
