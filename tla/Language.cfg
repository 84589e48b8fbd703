SPECIFICATION MCSpec
CONSTANTS
  Items <- MCItems
  Pred <- MCPred
  Rewrite <- MCRewrite
  Bases <- MCBases
  Programs <- MCPrograms
  Documents <- MCDocuments
  PathOrder <- MCPathOrder
  Guarding <- MCGuarding
  RuntimeFields = {"delay"}
  Predicates <- MCPredicates
  Transforms <- MCTransforms
  Content <- MCContent
  Lit <- MCLit
  Dotted = {"p.opts.sni"}
  Bare <- MCBare
  LowerWord <- MCLower
  UpperWord <- MCUpper
  Rank <- MCRank
  Pattern <- MCPattern
  MaxDepth = 4
  Ranges <- MCRanges
  CronYears = 8
  LeapEvery = 2
  MonthLengths <- MCMonths
  HoursPerDay = 2
  MinutesPerHour = 3
  DaysPerWeek = 3
  SafeDay = 2
  LongJump = 5
  SearchDays = 40
  Expressions <- MCExpressions
  HookExpressions <- MCHookExpressions
  Starts <- MCStarts
  FieldTexts <- MCFieldTexts
  MaxRounds = 45
  Plugins = {"p", "q"}
  MaxHooks = 2
  MaxPolls = 3
  DayMinutes = 5
  PlatformAlias <- MCPlatformAlias
  CoreAlias <- MCCoreAlias
  RegexMatches <- MCRegexMatches
  Conditions <- MCConditions
  Machines <- MCMachines
  Settings <- MCSettings
  YamlTexts <- MCYamlTexts
  Pids = {0, 1, 7, 10}
  MaxPid = 9
  HttpReload = TRUE
  Shape <- MCShape
  FinalConfigs <- MCFinals
INVARIANTS
  ViewsTrue
  DocumentMeaning
  ScopeExact
  ExpressionMeaning
  SchedulesExact
  OutputReaches
  VerdictExact
PROPERTY OpsSound
CHECK_DEADLOCK FALSE
