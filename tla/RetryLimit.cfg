SPECIFICATION MCSpec
CONSTANTS
  i1 = i1
  i2 = i2
  s1 = s1
  s2 = s2
  c1 = c1
  c2 = c2
  Inputs = {i1, i2}
  Sources = {s1, s2}
  Scopes = {c1, c2}
  SourceOf <- MCSourceOf
  ScopeOf <- MCScopeOf
  FriendKey <- MCFriendKey
  Supports <- MCSupports
  Workers = {w1, w2}
  Threads = {t1, t2}
  None = None
  PingDeadline = 0
  RetryDelay = 0
  InitialDelay = 0
  MaxRetries = 2
  MaxQueueId = 4
  MaxWorkerId = 2
  SignupRequired = FALSE
  BuiltAtSkew = FALSE
SYMMETRY Symmetry
INVARIANTS
  RetryLimitHolds
