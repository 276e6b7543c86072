SPECIFICATION PensionSpec
CONSTANTS
  IsaLaw <- SmallIsaLaw
  PensionLaw <- SmallPensionLaw
  OverseasLaw <- SmallOverseasLaw
  LastYear = 3
  SessionsPerYear = 3
  Plans <- SmallPlans
  Holders <- TwoHolders
  Prices = {2, 4}
  Distribution = 4
  DistributionDays = {5, 8}
  PayLag = 1
  SplitDays = {6}
  CostRate = 50
  UnitScale = 4
  LimitMultiplier = 120
  LimitFinalYear = 2
  spy = spy
  schd = schd
  gold = gold
  mkt = mkt
  valueFactor = valueFactor
  Sleeves = {spy, schd, gold}
  Candidates = {spy, schd}
  Proxies = {mkt, valueFactor}
  Rules <- MCRules
  ListedFrom <- MCListedFrom
  Closes <- MCCloses
  MidClose <- MCMidClose
  Reports <- MCReports
  ReportedMonths = {1, 2, 3, 4}
  NoPanel = NoPanel
  Refused = Refused
  ModernStart = 1
  DecisionMonths = {5}
  LastMonth = 5
  MonthsPerYear = 2
  CohortYears = 2
  StepMonths = 1
  PreRetirementMonths = 2
  Whole = 4
  Schedules <- MCSchedules
  Keep <- MCKeep
  Unit = 4096
  BlockMonths = 2
  HorizonMonths = 3
  LastQuoteDay = 4
  Lateness = {0, 1}
  FxSessions = {1, 2, 3, 4}
  CapPercent = 40
  armBase = armBase
  armOther = armOther
  incomeLow = incomeLow
  incomeHigh = incomeHigh
  Arms <- MCCampaignArms
  Profiles <- MCIncomes
  CampaignYears = 3
  HorizonYears <- MCHorizons
  StepYears = 1
  CashEvents <- MCCash
  Engines <- MCEngines
  Yield <- MCYield
  IndexRows <- MCIndexRows
  MaxIndexAge = 2
  Missing = Missing
  armPlain = armPlain
  armTech = armTech
  armMix = armMix
  MarkSets <- MCMarkSets
  EstimationStart = 2
  EstimationEnd = 8
  DaysPerMonth = 2
  MinReturns = 3
  MarketTicker = spy
  AnchorTicker = schd
  SelectionArms <- MCSelArms
  IdRank <- MCIdRank
  Lines <- MCLines
  Estimates <- MCEstimates
  GridWidth = 1
  GridPoints = 3
  Tails <- MCTails
  CampaignLists <- MCCampaignLists
  AllowedHorizons = {1}
  Tolerance = 1
  MinMultiple = 2
  MaxDrawdown = 4
  Floor = 90
  Undefined = Undefined
INVARIANTS
  AccountSound
  PayoutsSound
  PanelsSound
  EvidenceSound
CHECK_DEADLOCK FALSE
