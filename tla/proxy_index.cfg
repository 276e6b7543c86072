SPECIFICATION SimSpec
CONSTANTS
  IsaLaw <- SmallIsaLaw
  PensionLaw <- SmallPensionLaw
  OverseasLaw <- SmallOverseasLaw
  Arms <- AllArms
  Profiles <- ThreeProfiles
  PensionAnnual = 300
  IsaBudget = 350
  DrawingYears = 2
  Growths = {85, 140}
  MonthsPerYear = 2
  Horizon = 4
  qqq = qqq
  gld = gld
  qqqm = qqqm
  ReserveLaw <- MCReserve
  ShapeLaw <- MCShape
  KafiLaw <- MCKafi
  AdaptiveLaw <- MCAdaptive
  CurrencyLaw <- MCCurrency
  OverlayLaw <- MCOverlay
  MappingLaw <- MCMapping
  Tickers <- MCTickers
  PolicyMix <- MCPolicyMix
  OverrideMix <- MCOverrideMix
  Signals <- MCSignals
  Markets <- MCMarkets
  MonthLength = 2
  Delay = 1
  Base = 40
  Spread = 25
  Commission = 10
  Band = 5
  Configs <- MCConfigs
  Lives <- MCLives
  Worlds <- MCWorlds
  Setups <- MCSetups
  AskedWindows <- MCAskedWindows
  TrendWindow = 4
  VolWindow = 2
  DrawdownWindow = 3
  PercentileWindow = 4
  CohortMonths = 1
  CohortStep = 1
  NoDate = NoDate
  ndx = ndx
  sox = sox
  Tapes <- MCTapes
  Errands <- MCErrands
  BaseSeries = ndx
  MixWeights <- MCMixWeights
  MixScale = 2
  Pot = 7776
  soxx = soxx
  Specs <- MCSpecs
  Coverages <- MCCoverages
  CpiLag = 3
  SeenHistoryCutoff = 14
  AllocationMinStart = 4
  MinCohorts = 2
  DefaultHorizon = 3
  DefaultStep = 1
  ArmCount = 2
  Outcomes <- MCOutcomes
  StressOutcomes <- MCStress
  Regimes <- MCRegimes
  Files <- MCFiles
  Savers <- MCSavers
  SupportedYear = 1
  NoExits = NoExits
INVARIANT IndexCompoundsDailyReturns
CHECK_DEADLOCK FALSE
