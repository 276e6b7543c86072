CONSTANTS
  a = a
  b = b
  Tickers <- MCTickers
  Cash = Cash
  Deposit = 4
  Quotes <- SteadyRates
  Targets <- MCTargets
  Modes = {"buy_only", "rebalance_band"}
  BandPercent = 5
  HarvestGains = TRUE
  RatePercent = 90
  Deduction = 6
  Commission = 0
  Dividends = {1}
  Interests = {1}
  SplitFactors = {2}
  MonthsPerYear = 2
  PaymentMonth = 2
  Horizon = 4
  MaxEvents = 1
SPECIFICATION Spec
CHECK_DEADLOCK FALSE
INVARIANTS
  BooksBalance
  HarvestableIsLargest
PROPERTIES
  SessionSteps
  HarvestWithinDeduction
