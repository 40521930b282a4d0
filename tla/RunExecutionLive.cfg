SPECIFICATION FairSpec
CONSTANTS
  u1 = u1
  r1 = r1
  r2 = r2
  Run = {r1, r2}
  User = {u1}
  Owner <- MCOwner
  Worker = {w1}
  NoWorker = NoWorker
  NoRun = NoRun
  Corrupt = {r2}
  ActiveRuns = 1
  QueuedRuns = 2
  GlobalActiveRuns = 2
  GlobalQueuedRuns = 2
  LeaseTicks = 1
  LockWait = 0
  MaxEvents = 1
  MaxFailures = 1
PROPERTY
  RunsMoveOn
