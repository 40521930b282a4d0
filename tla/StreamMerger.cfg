SPECIFICATION FairSpec
CONSTANTS
  yes = yes
  no = no
  other = other
  market = market
  elsewhere = elsewhere
  Tokens = {yes, other}
  Conditions = {market, elsewhere}
  ConditionOf <- MCConditionOf
  Sources = {"market", "wallet", "gamma"}
  MaxEvents = 3
ACTION_CONSTRAINT ClosesSoon
INVARIANTS
  BuffersConsistent
  EventsKeepTheirPlace
PROPERTIES
  NewestBookDelivered
  BooksAreDelivered
CHECK_DEADLOCK FALSE
