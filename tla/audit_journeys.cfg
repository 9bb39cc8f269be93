SPECIFICATION Spec
CONSTANTS
  NONE = NONE
  MaxTabs = 4
  MaxSkipLinks = 2
  MaxExpandables = 2
  MaxTriggers = 2
  Contents <- MCContents
  Starts <- MCWildStarts
  Serves <- MCServes
  Score <- MCScore
  Sitemaps <- MCSitemaps
  MaxPages = 3
  MaxSitemaps = 2
  MaxSeeds = 2
  MaxPerKind = 2
  FetchTimeout = 5
  RetryAfters <- MCRetryAfters
  MaxMishaps = 0
  Cohort <- MCCohort
  Name <- MCName
  Dirs <- MCDirs
  Settings <- MCWildSettings
  Profiles = {"p1", "p2"}
  Versions = {1, 2}
  ImpactRank <- MCImpactRank
  MinMunicipalities = 2
  MinOccurrences = 3
  MaxCommands = 1
INVARIANTS JourneysStaySafe
CHECK_DEADLOCK FALSE
