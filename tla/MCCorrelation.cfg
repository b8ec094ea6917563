SPECIFICATION Spec
CONSTANTS
  LongWindow = 36000000
  ShortWindow = 3000000
  MarkerWindow = 550000
  CurrentWindow = 600000
  BaselineReach = 3600000
  MinBaselineWidth = 150000
  DeploymentWindow = 6000000
  AlertLead = 10000
  Gap = 10
  MinSpans = 3
  CpuSaturation = 80
  ServiceOrder <- Services
  MaxItems = 60
  Now <- MCNow
  Arrivals <- MCArrivals
  Palette = {"slow", "failing", "baseline", "database", "busy", "deploys", "experiment", "redeploy", "history", "outage"}
  MaxBatches = 4
INVARIANT
  PercentileIsNearestRank
  OrderIndependent
  CitationsSupport
  EachItemJudgedOnce
  TopFiveDominate
  ScoresCapped
  NoDatabaseBlameWithoutSlowQueries
  TimelineCausal
  AlertMeansBudgetGone
  AlertNeedsRecentFailure
CHECK_DEADLOCK FALSE
