SPECIFICATION FairSpec
CONSTANTS
  m1 = m1
  m2 = m2
  Market = {m1}
  Resumed = {m1}
  Resolving = {m1}
  MaxRevision <- OneRevision
  MaxFailures = 1
  HandleCapacity = 2
  MaxPending = 2
  QueueSize = 2
INVARIANTS
  
  ResolutionIsFinal
PROPERTIES
  MarketsAreSeenThrough
CHECK_DEADLOCK FALSE
