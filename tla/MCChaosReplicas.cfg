SPECIFICATION Spec
CONSTANTS
  order = order
  payment = payment
  p1 = p1
  p2 = p2
  Services = {payment}
  Replicas = {p1, p2}
  ReplicasOf <- Kubernetes
  Ids = {e}
  Clients = {c1}
  Durations = {1, 2}
  CallTime = 1
  MaxLate = 1
INVARIANT
  StoppedIsOver
CHECK_DEADLOCK FALSE
