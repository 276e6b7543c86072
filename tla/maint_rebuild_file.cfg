CONSTANTS
  Keys = {k1, k2}
  Values = {v1}
  Ingesters = {i1}
  Modes = {"full"}
  ShrinkGuarded = FALSE
  MinPriorRows = 2
  MaxClock = 4
  MaxDamage = 0
  NoManifest = NoManifest
  OneCommand = TRUE
  CanCrash = FALSE
  BronzeAnswers = {"none"}
  MaxFaults = 1
SPECIFICATION MaintenanceSpec
CHECK_DEADLOCK FALSE
PROPERTY RebuildStaysServable
