SPECIFICATION Spec
CONSTANTS
  whale = whale
  shrimp = shrimp
  market = market
  elsewhere = elsewhere
  yes = yes
  no = no
  Anyone = Anyone
  Wallets = {whale, shrimp}
  Markets = {market, elsewhere}
  Tokens = {yes, no}
  MarketOf <- MCMarketOf
  Plans <- MCPlans
  One = 4
  Offers <- MCOffers
  Marks = {2}
  MaxAge = 1
  Overlap = 1
  MaxTracked = 1
  MaxTime = 3
  MaxTrades = 2
  MaxPlans = 2
CONSTRAINT BuysOnce
ACTION_CONSTRAINT WorldWaits
INVARIANTS
  
  FollowedBooksBalance
CHECK_DEADLOCK FALSE
