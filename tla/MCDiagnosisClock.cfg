SPECIFICATION Spec
CONSTANTS
  LongWindow = 7
  ShortWindow = 4
  MarkerWindow = 1
  CurrentWindow = 2
  BaselineReach = 4
  MinBaselineWidth = 1
  DeploymentWindow = 5
  AlertLead = 1
  Gap = 1
  MinSpans = 1
  CpuSaturation = 80
  DedupWindow = 1
  ServiceOrder <- Services
  MaxItems = 3
  Unreadable = 499
  RequestsAt <- FewRequestsAt
  AlertPayloads = {}
  ClockSteps <- StepsBack
  MinTime = 6
  MaxTime = 9
  MaxAccepted = 3
  MaxAlerts = 0
INVARIANT
  NeighboursDiffer
  AnswerIsLatest
CHECK_DEADLOCK FALSE
