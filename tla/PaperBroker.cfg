SPECIFICATION BrokerSpec
CONSTANTS
  first = first
  retry = retry
  again = again
  hedge = hedge
  broken = broken
  token = token
  market = market
  signal = signal
  NoCall = NoCall
  NoSource = NoSource
  Calls = {first, retry, again, hedge, broken}
  OrderOf <- MCOrderOf
  MaxRevision = 1
  Tokens <- MCTokens
  Conditions <- MCConditions
  ConditionOf <- MCConditionOf
  One = 10
  InitialCash = 0
  Prices = {2, 3, 4}
  Sizes = {1, 2}
  Requests = {1, 3}
  SlippagePercent = 40
  MaxLevels = 3
  Orders <- MCOrders
  Books <- MCBooks
  Fees = {1}
  MaxFills = 4
SYMMETRY Duplicates
INVARIANTS
  OneOrderPerSource
  NoFillAcrossGap
  BotToldOnce
  ProfitExplainsEquity
  FillIsBestExecution
PROPERTIES
  LedgerSpec
CHECK_DEADLOCK FALSE
