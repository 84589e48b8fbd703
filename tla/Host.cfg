SPECIFICATION MCSpec
CONSTANTS
  Files = {"a.prism.yaml", "b.prism.yaml"}
  Skipped = {"b.prism.yaml"}
  MaxEdits = 3
  MaxRestarts = 2
  MaxFaults = 1
  Writers = {"t1", "t2", "t3"}
  Owner <- MCOwner
  Values = {"v", "w"}
  CLEANUP_INTERVAL = 2
  MaxCalls = 3
  CacheKeys = {"k1", "k2"}
  Threads = {"t1", "t2"}
  MaxSize = 1
  MaxTouch = 3
  PlIds = {"p", "q"}
  Paths = 1
  Texts = {"t1", "t2", "bad"}
  PlHooks = {"merged", "fetched"}
  Throws = {"bad"}
  EditBound = 1
  PlDisks <- MCDisks
  Defines <- MCDefines
  HookNames <- MCHookNames
  FoNodes = {"a", "b", "c"}
  Threshold = 2
  Cooldown = 2
  FoCap = 1
  FoEvict = 1
  FoReports = 7
  SmNodes = {1, 2}
  MaxRecords = 2
  Samples <- MCSamples
  Weights <- MCWeights
  Schedules <- MCSchedules
  Qualities <- MCQualities
  SmSteps = 3
  Ips = {"i1", "i2", "i3", "i4"}
  MaxRequests = 2
  RateWindow = 2
  MaxIps = 3
  CleanupThreshold = 2
  MaxTicks = 3
  MaxArrivals = 4
  Releases <- MCReleases
  VersionLimit = 4
  Stated <- MCStated
  MaxMigrationRuns = 4
INVARIANTS NoEditMissed CachesServe NodesJudged ServerSound MigrationsResume
PROPERTIES PluginsAgree WholeFile PendingFlushed SwitchEarned
CHECK_DEADLOCK FALSE
