SPECIFICATION Spec
CHECK_DEADLOCK FALSE
CONSTANTS
  p1 = p1
  p2 = p2
  a = a
  b = b
  c = c
  d = d
  Procs = {p1}
  Paths = {a, b}
  NameOf <- MCNameOf
  Contents = {c}
  Modes = {"read", "archive"}
  MaxRuns = 3
  MaxUpsets = 3
SYMMETRY Symmetry
INVARIANTS
  OneReaderPerPath
PROPERTIES
  ArchiveIdentity
