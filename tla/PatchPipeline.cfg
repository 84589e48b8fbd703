SPECIFICATION FairSpec
CONSTANTS
  Patches = {1, 2, 3}
  FileMaps <- MCFileMaps
  StemMaps <- MCStemMaps
  GroupNames <- MCGroupNames
  KeyOf <- MCKeyOf
  BaseConfig <- MCBaseConfig
  OrderedRefs = 2
  PipelineRefs = 1
INVARIANTS
  OrderKept
  CyclesFound
  NothingLost
PROPERTIES
  Terminates
