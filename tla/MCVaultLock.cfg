SPECIFICATION Spec
CONSTANTS
  p1 = p1
  p2 = p2
  here = here
  there = there
  Hosts = {here, there}
  HostOf <- MCHostOf
  DoctorHost = here
  Unaudited = {"projection rebuild"}
  Procs = {p1, p2}
  Kinds = {"ingest apply", "projection rebuild"}
  MaxRuns = 2
  MaxCrashes = 1
INVARIANTS
  StaleIsDead
  OrphanIsOver
  NoEventMissed
PROPERTIES
  ImplementsMutex
