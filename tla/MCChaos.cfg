SPECIFICATION Spec
CONSTANTS
  order = order
  payment = payment
  p1 = p1
  p2 = p2
  Services = {order, payment}
  Replicas = {p1, p2}
  ReplicasOf <- Compose
  Ids = {e}
  Clients = {c1, c2}
  Durations = {1, 2}
  CallTime = 2
  MaxLate = 1
SYMMETRY Symmetry
INVARIANT
  TypeOK
  RecordTellsEnd
  RunningMeansLive
  StoppedIsOver
  KnownFaultsRecorded
CHECK_DEADLOCK FALSE
