SPECIFICATION Spec
CONSTANTS
  m1 = m1
  m2 = m2
  t1 = t1
  t2 = t2
  t3 = t3
  t4 = t4
  Market = {m1}
  TokensOf <- OneMarketTokens
  Forever = 9
  PlanRefresh = 2
  MaxTime = 3
  MaxEvents = 5
  MaxOf <- Bounds
  Windows <- SomeWindows
  Plans <- AnyMarket
  MaxSessions = 2
  MaxAge = 1
CONSTRAINT FirstComeFirst
INVARIANTS
  AcceptedIsReadable
  BooksAreTheRecorders
  GapsHideBooks
  
CHECK_DEADLOCK FALSE
