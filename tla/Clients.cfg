SPECIFICATION ClientsSpec
CONSTANTS
  None = None
  Profiles <- MCProfiles
  Mirrors <- MCMirrors
  SourceComponent <- MCSourceComponent
  Hashes = {"h"}
  GithubAnswers <- MCGithubAnswers
  Queries <- MCQueries
  FirstRows <- MCFirstRows
  NewRows <- MCNewRows
  PageSize = 2
  MaxRowId = 4
  MaxChanges = 3
  Inputs <- MCInputs
  OriginOf <- MCOriginOf
  Backends = {"debian"}
  Specific <- MCSpecific
  Universal <- MCUniversal
  Kinds = {"path"}
  MaxClock = 1
  MaxBuilds = 2
  Artifacts = {"a1", "a2"}
  Logs = {1, 2}
  Keys = {"k1", "k2"}
  WorkerKeys = {"w"}
  Readers = {"r1", "r2"}
INVARIANTS
  ListedIsSeen
  OneInput
  BuildsAreNotMixed
  CommitPrecedesBuild
  ListingShowsOnce
  StatusFiltersFindShown
  DashboardCountsSteady
  CategoriesMatchCounts
  AnswersLast
  AnswersAreSigned
PROPERTIES
  UnseenOnlyIfUnlisted
  ListingEnds
  SignaturesStay
CHECK_DEADLOCK FALSE
