SPECIFICATION Spec
CONSTANTS
  Experiments = {e1, e2}
  Requests = {r1}
  Nobody = Nobody
  OfferedKinds = {"latency", "http_500", "cpu_pressure"}
  Durations = {1}
  DelayKind = "database_slowdown"
  Pause <- MCPause
INVARIANT
  CpuCapped
CHECK_DEADLOCK FALSE
