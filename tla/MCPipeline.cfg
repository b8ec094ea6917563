SPECIFICATION FairSpec
CONSTANTS
  Services = {"checkout"}
  Requests = {"a", "b", "p"}
  ServedBy <- ServiceOf
  Probes = {"p"}
  Foreign = {"x"}
  QueueSize = 1
  ExportSize = 1
  SendingQueue = 2
  MaxItems = 2
  MaxUnanswered = 1
  MaxCrashes = 1
INVARIANT
  TypeOK
  DepthIsBacklog
  CountersExplained
  EveryCopyAccounted
PROPERTY
  PipelineDrains
CHECK_DEADLOCK FALSE
