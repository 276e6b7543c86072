SPECIFICATION Spec
CONSTANTS
  benchmark = benchmark
  reference = reference
  challenger = challenger
  modern = modern
  century = century
  realized = realized
  hold = hold
  roll = roll
  side = side
  young = young
  late = late
  pace = pace
  shape = shape
  tilt = tilt
  base = base
  Arms <- MCArms
  BaselineArm = base
  Workers = 2
  MaxEvaluations = 2
  Gains = {1, 2}
  Objectives = {"ce", "growth_first", "adaptive_growth", "compound_growth"}
  Hurdle = 1
  Modules = 2
  Plans <- MCPlans
  Calendars <- MCCalendars
  BaseTrain <- MCBaseTrain
  BaseTest <- MCBaseTest
  TrainResults <- MCTrainResults
  TestResults <- MCTestResults
  Candidates <- MCCandidates
  Benchmark = benchmark
  Reference = reference
  IdRank <- MCIdRank
  Neighbors <- MCNeighbors
  Cells = {modern, realized}
  RealizedCells = {realized}
  Levels = {98, 99, 100, 101, 102}
  Band = 1
  Drag <- MCDrag
  DrawdownCases <- MCDrawdownCases
  IsaArms <- MCIsaArms
  BaselineArmId = hold
  Lives <- MCLives
  Profile <- MCProfile
  IsaLevels = {100, 101, 103}
  IsaBand = 1
  DrawingYears = {10, 30}
  Revaluations <- MCRevaluations
  Budgets = 2
  PensionFiles <- MCPensionFiles
  HouseholdFiles <- MCHouseholdFiles
  PublicMonth = 36
  IsaLaw <- MCIsaLaw
  Payloads <- MCPayloads
  RuleTickers = {"qqq", "soxx", "bil"}
  CloseLevels = {100, 120}
  RateLevels <- MCRates
  Memberships <- MCMemberships
  Year = 2
  MonthSessions = 6
  MaxMonths = 3
  HorizonEnd = 4
  Campaigns <- MCCampaigns
  Regimes <- MCRegimes
  BaseWealth <- MCBaseWealth
  ArmWealths <- MCArmWealths
  AxisCount = 2
  Low <- MCLow
  High <- MCHigh
  Operational <- MCOperational
  Delta <- MCDelta
  Landscapes <- MCLandscapes
  Contributions = {0, 1}
  Evaluations = {0, 1, 4, 6, 9, 40}
  Threads = {0, 1, 3}
  Theses <- MCTheses
  Vehicle <- MCVehicle
  MinYears <- MCMinYears
  TargetYears <- MCTargetYears
  MappedWindow <- MCMappedWindow
  Worlds <- MCWorlds
  ThesisCases <- MCCases
  AcknowledgedTo = 2026
  Ratios = {97, 100, 103}
INVARIANTS
  TournamentHonest
  VerdictsSound
  AfterTaxCampaignSound
PROPERTIES
  HoldingStable
CHECK_DEADLOCK FALSE
