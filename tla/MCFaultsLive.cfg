SPECIFICATION FairSpec
CONSTANTS
  Experiments = {e1, e2}
  Requests = {r1, r2}
  Nobody = Nobody
  OfferedKinds = {"latency", "cpu_pressure", "database_slowdown"}
  Durations = {1}
  DelayKind = "database_slowdown"
  Pause <- MCPause
PROPERTY
  Answered
  Recovery
CHECK_DEADLOCK FALSE
