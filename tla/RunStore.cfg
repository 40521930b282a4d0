SPECIFICATION StoreSpec
CONSTANTS
  u1 = u1
  u2 = u2
  r1 = r1
  r2 = r2
  r3 = r3
  Run = {r1, r2, r3}
  User = {u1, u2}
  Owner <- MCOwner
  Worker = {w1}
  NoWorker = NoWorker
  ActiveRuns = 1
  QueuedRuns = 1
  GlobalActiveRuns = 2
  GlobalQueuedRuns = 2
  LeaseTicks = 1
  LockWait = 0
  MaxEvents = 1
INVARIANTS
  WithinAllowances
  GatesRespected
  HistoriesClosed
PROPERTIES
  ExpiredLeaseStaysLost
