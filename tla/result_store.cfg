CONSTANTS
  p1 = p1
  p2 = p2
  a1 = a1
  a2 = a2
  a3 = a3
  old = old
  c1 = c1
  c2 = c2
  s1 = s1
  s2 = s2
  Procs <- MCProcs
  Runs <- MCRuns
  KindOf <- MCKindOf
  Sidecar = {a1}
  Legacy = {old}
  Unrecorded = {}
  Sources = {s1, s2}
  DestOf <- MCDestOf
  Contents = {c1, c2}
  Promotable = {a1}
  KeepChoices = {1, 2}
  MaintenanceAlone = TRUE
  MaxWrites = 3
  MaxDeaths = 2
SPECIFICATION Spec
CHECK_DEADLOCK FALSE
SYMMETRY Symmetry
INVARIANTS
  ResultsKept
PROPERTIES
  NothingRewritten
  PruneSettles
