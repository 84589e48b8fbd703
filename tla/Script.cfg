SPECIFICATION MCSpec
CONSTANTS
  Instances = {"i1", "i2"}
  Threads = {"t1", "t2", "t3"}
  Of <- MCOf
  Keys = {"k1", "k2"}
  BadKeys = {"bad"}
  Values = {"v1"}
  BigValues = {"big"}
  MaxEntries = 1
  MaxOpens = 3
  MaxFaults = 1
  Callers = {"a", "b"}
  Runtimes = {"r"}
  RuntimeOf <- MCRuntimeOf
  Kinds <- MCKinds
  MaxSteps = 0
  MaxRecursion = 1
  MaxLogs = 1
  MaxPatches = 1
  MaxCalls = 2
  MaxOps = 2
  Documents <- MCDocuments
  SetKeys <- MCSetKeys
  SetValues <- MCSetValues
  Numeric = {"0", "1"}
  Access <- MCAccess
  Blocked = {"__when__", ".."}
  MaxKeyDepth = 3
  Names = {"x", "y"}
  StartProxies <- MCStartProxies
  StartRules <- MCStartRules
  NewRules <- MCNewRules
  GroupNames = {"auto", "other"}
  StartGroups <- MCStartGroups
  Renamed <- MCRenamed
  MaxApiCalls = 3
INVARIANTS StoreKept  SetExact
PROPERTIES CallsEnd ListsKept
CHECK_DEADLOCK FALSE
