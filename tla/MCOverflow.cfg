SPECIFICATION Spec
CONSTANTS
  NodeCount = 2
  SimTimeRange = 64
  Configs <- OverflowConfigs
INVARIANTS
  StopsOnlyWhenDone
