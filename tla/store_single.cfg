CONSTANTS
  Keys = {k1, k2, k3}
  Values = {v1}
  Ingesters = {i1}
  Modes = {"incremental", "series", "full"}
  ShrinkGuarded = TRUE
  MinPriorRows = 2
  MaxClock = 3
  MaxDamage = 0
  NoManifest = NoManifest
  qqq = qqq
  soxx = soxx
  Tickers = {qqq, soxx}
  Requests <- MCRequests
  Listed <- MCListed
  LastDay = 3
  Holidays = {2}
  UnitsPerDay = 3
  MinInterval = 2
  RequestsPerDay = 1
  MaxAttempts = 2
  CorrectionSessions = 2
  RequestsMeet = TRUE
  MaxPriceCommands = 2
  vixcls = vixcls
  indpro = indpro
  Series = {vixcls, indpro}
  ReleaseLag <- MCLag
  MacroDay = {0, 1, 2, 3, 4, 5, 6}
  MacroHoliday = {3}
  ArchiveStart = 2
  ChunkDays = 2
  Archives <- MCArchives
  MaxRefreshes = 2
  PanelTickers = {qqq, soxx}
  PanelDays = {0, 1, 2, 3, 4}
  Closed = {1}
  DaysPerMonth = 2
  MaxLag = 1
  FirstDates = {3}
  AckThrough = 0
  SmallPanel = 2
  RequestsExtend = TRUE
  AsOfs = {1}
  Breakable = {"prices"}
  MaxIngests = 1
  MaxBreaks = 1
SPECIFICATION IngestSpec
CHECK_DEADLOCK FALSE
INVARIANTS
  IngestSound
PROPERTIES
  ServedKeysKept
  PanelNotDemoted
  IngestSteps
