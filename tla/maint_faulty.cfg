CONSTANTS
  Keys = {k1, k2}
  Values = {v1}
  Ingesters = {i1}
  Modes = {"full"}
  ShrinkGuarded = FALSE
  MinPriorRows = 2
  MaxClock = 4
  MaxDamage = 0
  NoManifest = NoManifest
  OneCommand = TRUE
  CanCrash = TRUE
  BronzeAnswers = {"none", "match", "mismatch"}
  MaxFaults = 1
SPECIFICATION FairMaintenanceSpec
CHECK_DEADLOCK FALSE
PROPERTIES
  RecoveryServesHistory
  RepairsSettle
