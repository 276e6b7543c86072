CONSTANTS
  Keys = {k1, k2}
  Values = {v1, v2}
  Ingesters = {i1, i2}
  Modes = {"incremental", "full"}
  ShrinkGuarded = TRUE
  MinPriorRows = 2
  MaxClock = 3
  MaxDamage = 1
  NoManifest = NoManifest
SPECIFICATION Spec
CHECK_DEADLOCK FALSE
SYMMETRY Symmetry
INVARIANTS
  NoDanglingManifest
  LineageExtendsPrior
  PriorPrecedes
PROPERTY ImplementsCatalog
