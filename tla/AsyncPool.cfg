SPECIFICATION FairSpec
CONSTANTS
  Clients = {c1, c2, c3}
  Conns = {k1, k2}
  NumWorkers = 2
  MaxOpen = 1
  MaxIdlePerWorker = 1
  HealthCheck = TRUE
  NoConn = NoConn
INVARIANTS TypeOK SemAccounting Custody
PROPERTIES AcquireReturns
CHECK_DEADLOCK FALSE
