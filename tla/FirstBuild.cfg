SPECIFICATION MCSpec
CONSTANTS
  i1 = i1
  i2 = i2
  i3 = i3
  s1 = s1
  s2 = s2
  c1 = c1
  c2 = c2
  Inputs = {i1, i2, i3}
  Sources = {s1, s2}
  Scopes = {c1, c2}
  SourceOf <- MCSourceOf
  ScopeOf <- MCScopeOf
  FriendKey <- MCFriendKey
  Supports <- MCSupports
  Workers = {w1}
  Threads = {t1}
  None = None
  PingDeadline = 0
  RetryDelay = 0
  InitialDelay = 0
  MaxRetries = 0
  MaxQueueId = 2
  MaxWorkerId = 1
  SignupRequired = FALSE
  BuiltAtSkew = FALSE
PROPERTIES
  FirstBuildIsScheduled
