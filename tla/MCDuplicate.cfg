SPECIFICATION Spec
CONSTANTS
  NodeCount = 2
  SimTimeRange = 1000
  Configs <- DuplicateConfigs
INVARIANTS
  OccupancyIsResidentBytes
