CONSTANTS
  Tags = {1, 2, 3}
  Domain = {d1, d2}
  NoDomain = nodomain
  Torn = torn
  MaxOps = 4
  MaxCrashes = 2
  MaxRuns = 2
  MaxEvents = 1
  Registry <- MCRegistry
  Recipes = {"goose"}
  Forks = {"nanoclaw"}
  WithCli = {"claude-code"}
  WithLegacy = {"claude-code"}
  Other = {"theirs"}
  DataDir = {"std", "alt"}
  Default = "std"
  Starts <- MCStarts
  Records <- MCRecords
  Weak = {"MX", "DMARC"}
  Sender = {"list"}
  Resolvers = 2
  DigAttempts = 2
  PromptAttempts = 2
  Mailbox = {"all", "box"}
  Catchall = "all"
  Owner = {"u", "c"}
  Reserved = "c"
  MaxExams = 1
  MaxTurns = 1
  Tag <- MCTag
  Suffix <- MCSuffix
  OldBanner <- MCOldBanner
  Target = {"gnu", "musl"}
  Zero <- MCZero
SPECIFICATION MCSpec
CHECK_DEADLOCK FALSE
INVARIANTS
  UnitHasBinary
  OldBinarySurvives
PROPERTIES
  UpgradedRunsNew
  SetupServes
  UsersThingsKept
  InstalledWhole
  RemovedIsGone
  VerifiedMeansPublished
  TrustKept
  ToldIsInstalled
  
