SPECIFICATION FeedSpec
CONSTANTS
  yes = yes
  no = no
  other = other
  rest = rest
  market = market
  elsewhere = elsewhere
  bid = bid
  ask = ask
  TokenIds = {yes, no, other, rest}
  Conditions = {market, elsewhere}
  ConditionOf <- MCConditionOf
  Subscribed = {yes, no, other}
  Levels = {bid, ask}
  Capacity = 1
  MaxChanges = 2
SYMMETRY Symmetry
INVARIANTS
  DepthConsistent
  BooksFollowExchange
CHECK_DEADLOCK FALSE
