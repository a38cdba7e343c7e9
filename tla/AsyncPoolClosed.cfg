SPECIFICATION Spec
CONSTANTS
  Clients = {c1, c2}
  Conns = {k1, k2, k3}
  NumWorkers = 2
  MaxOpen = 2
  MaxIdlePerWorker = 1
  HealthCheck = FALSE
  NoConn = NoConn
INVARIANT ClosedPoolIsEmpty
CHECK_DEADLOCK FALSE
