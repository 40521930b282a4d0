SPECIFICATION Spec
CONSTANTS
  m1 = m1
  t1 = t1
  t2 = t2
  Market = {m1}
  TokensOf <- OneMarketTokens
  Forever = 9
  Generation = {1}
  QueueSize = 2
  BatchSize = 2
  MaxTime = 2
  MaxEvents = 2
  MaxSessions = 2
  MaxCheckpoints = 1
  MaxFaults = 1
INVARIANTS
  ArchiveConsistent
  NobodyWaitsInVain
PROPERTY
  ImplementsDurableLog
CHECK_DEADLOCK FALSE
