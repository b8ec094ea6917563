SPECIFICATION Spec
CONSTANTS
  LongWindow = 7
  ShortWindow = 4
  MarkerWindow = 1
  CurrentWindow = 2
  BaselineReach = 4
  MinBaselineWidth = 1
  DeploymentWindow = 5
  AlertLead = 1
  Gap = 1
  MinSpans = 1
  CpuSaturation = 80
  DedupWindow = 2
  ServiceOrder <- Services
  MaxItems = 3
  Unreadable = 499
  RequestsAt <- MCRequestsAt
  AlertPayloads <- MCAlertPayloads
  ClockSteps = {1, 2}
  MinTime = 7
  MaxTime = 10
  MaxAccepted = 5
  MaxAlerts = 1
INVARIANT
  TypeOK
  StoreHoldsNewest
  SameFingerprintApart
  CitedEvidenceKept
PROPERTY
  DuplicateIsRecent
  ImplementsLedger
CHECK_DEADLOCK FALSE
