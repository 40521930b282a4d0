SPECIFICATION Spec
CONSTANTS
  u1 = u1
  r1 = r1
  r2 = r2
  Run = {r1, r2}
  User = {u1}
  Owner <- MCOwner
  Worker = {w1, w2}
  NoWorker = NoWorker
  NoRun = NoRun
  Corrupt = {}
  ActiveRuns = 1
  QueuedRuns = 2
  GlobalActiveRuns = 2
  GlobalQueuedRuns = 2
  LeaseTicks = 1
  LockWait = 0
  MaxEvents = 0
  MaxFailures = 1
SYMMETRY FullSymmetry
INVARIANTS
  ExecutionConsistent
PROPERTIES
  KeepsPromise
  OldestEligibleFirst
