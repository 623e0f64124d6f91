SPECIFICATION MCSpec
CONSTANTS
  i1 = i1
  s1 = s1
  c1 = c1
  Inputs = {i1}
  Sources = {s1}
  Scopes = {c1}
  SourceOf <- MCSourceOf
  ScopeOf <- MCScopeOf
  FriendKey <- MCFriendKey
  Supports <- MCSupports
  Workers = {w1, w2}
  Builders = {w1}
  Threads = {t1}
  None = None
  PingDeadline = 0
  RetryDelay = 1
  InitialDelay = 0
  MaxRetries = 2
  MaxQueueId = 4
  MaxFailures = 1
  MaxWorkerId = 2
  SignupRequired = FALSE
  BuiltAtSkew = FALSE
PROPERTIES
  HeldJobIsReleased
  PackageSettles
