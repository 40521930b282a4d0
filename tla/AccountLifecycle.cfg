SPECIFICATION FairLifecycleSpec
CONSTANTS
  u1 = u1
  u2 = u2
  b1 = b1
  r1 = r1
  r2 = r2
  User = {u1, u2}
  Exempt = {u1}
  SessionId = {s1, s2}
  LinkId = {l1}
  MaxPasswords = 1
  Bot = {b1}
  BotOwner <- MCBotOwner
  Run = {r1, r2}
  BotOf <- MCBotOf
  Events = 2
  RetainedRuns = 1
  EventBatch = 1
  RunBatch = 1
  AccountBatch = 1
INVARIANTS
  CredentialsAreCurrent
  
  VisibleHistoryIsWhole
PROPERTIES
  
  DeletionsComplete
CONSTRAINT OneAtATime
CHECK_DEADLOCK FALSE
