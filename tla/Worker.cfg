SPECIFICATION FairSpec
CONSTANTS
  None = None
  f1 = f1
  f2 = f2
  Files = {f1, f2}
  Contents <- MCContents
  Kinds <- MCKinds
  Timeout <- MCTimeout
  SizeLimit <- MCSizeLimit
  KillAtLimit <- MCKillAtLimit
  KillDelay = 2
  Notice = 1
  Chunks = {1, 2}
  MaxElapsed = 11
  Jobs <- MCJobs
  ReadSizes = {1, 2}
  PingInterval = 1
  PingLimit = 1
INVARIANTS
  LogWithinLimit
  RunEndsInTime
  GoodMeansReproduced
  ReportIsComplete
PROPERTIES
  BuildEnds
