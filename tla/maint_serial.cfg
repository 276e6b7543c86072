CONSTANTS
  Keys = {k1, k2}
  Values = {v1}
  Ingesters = {i1}
  Modes = {"incremental", "full"}
  ShrinkGuarded = FALSE
  MinPriorRows = 2
  MaxClock = 4
  MaxDamage = 0
  NoManifest = NoManifest
  OneCommand = TRUE
  CanCrash = TRUE
  BronzeAnswers = {"none"}
  MaxFaults = 0
SPECIFICATION MaintenanceSpec
CHECK_DEADLOCK FALSE
INVARIANTS
  RetainedServable
PROPERTIES
  MaintenanceKeepsView
  PruneSettles
