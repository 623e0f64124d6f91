SPECIFICATION Spec
CONSTANTS
  i1 = i1
  s1 = s1
  c1 = c1
  Inputs = {i1}
  Sources = {s1}
  Scopes = {c1}
  SourceOf <- MCSourceOf
  ScopeOf <- MCScopeOf
  FriendKey <- MCFriendKey
  Supports <- MCSupports
  Workers = {w1, w2}
  Threads = {t1}
  None = None
  PingDeadline = 1
  RetryDelay = 0
  InitialDelay = 0
  MaxRetries = None
  MaxQueueId = 3
  MaxWorkerId = 2
  SignupRequired = FALSE
  BuiltAtSkew = TRUE
SYMMETRY Symmetry
PROPERTIES
  ResetShowsUnknown
