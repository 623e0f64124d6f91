SPECIFICATION Spec
CONSTANTS
  i1 = i1
  s1 = s1
  c1 = c1
  Inputs = {i1}
  Sources = {s1}
  Scopes = {c1}
  SourceOf <- MCSourceOf
  ScopeOf <- MCScopeOf
  FriendKey <- MCFriendKey
  Supports <- MCSupports
  Workers = {w1, w2}
  Threads = {t1}
  None = None
  PingDeadline = 1
  RetryDelay = 1
  InitialDelay = 0
  MaxRetries = 2
  MaxQueueId = 2
  MaxWorkerId = 3
  SignupRequired = TRUE
  BuiltAtSkew = TRUE
SYMMETRY Symmetry
INVARIANTS
  TypeOK
  HeldJobsCanExpire
PROPERTIES
  NewWorkersHoldNothing
  LeaseRespected
  QueueImplementsLeases
  StaysScheduled
  FirstBuildIsScheduled
