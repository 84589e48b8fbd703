SPECIFICATION SearchSpec
CONSTANTS
  Items <- MCItems
  Pred <- MCPred
  Rewrite <- MCRewrite
  Bases <- MCBases
  Programs = {}
  Documents = {}
  PathOrder <- MCPathOrder
  Guarding <- MCGuarding
  RuntimeFields = {"delay"}
  Predicates = {}
  Transforms = {}
  Content <- MCContent
  Lit <- MCLit
  Dotted = {"p.opts.sni"}
  Bare <- MCBare
  LowerWord <- MCLower
  UpperWord <- MCUpper
  Rank <- MCRank
  Pattern <- MCPattern
  MaxDepth = 4
  Ranges <- MCRanges
  CronYears = 8
  LeapEvery = 2
  MonthLengths <- MCMonths
  HoursPerDay = 2
  MinutesPerHour = 3
  DaysPerWeek = 3
  SafeDay = 2
  LongJump = 5
  SearchDays = 40
  Expressions <- MCExpressions
  HookExpressions = {}
  Starts <- MCStarts
  FieldTexts <- MCFieldTexts
  MaxRounds = 45
  Plugins = {"p", "q"}
  MaxHooks = 2
  MaxPolls = 3
  DayMinutes = 5
  PlatformAlias <- MCPlatformAlias
  CoreAlias <- MCCoreAlias
  RegexMatches <- MCRegexMatches
  Conditions = {}
  Machines <- MCMachines
  Settings = {}
  YamlTexts = {}
  Pids = {0, 1, 7, 10}
  MaxPid = 9
  HttpReload = TRUE
  Shape <- MCShape
  FinalConfigs = {}
PROPERTY SearchEnds
CHECK_DEADLOCK FALSE
