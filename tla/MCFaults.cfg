SPECIFICATION Spec
CONSTANTS
  Experiments = {e1, e2}
  Requests = {r1, r2}
  Nobody = Nobody
  OfferedKinds = {"latency", "http_500", "drop", "cpu_pressure", "dependency_timeout"}
  Durations = {1}
  DelayKind = "dependency_timeout"
  Pause <- MCPause
INVARIANT
  TypeOK
  FailureNotSkipped
  FailuresExplained
CHECK_DEADLOCK FALSE
