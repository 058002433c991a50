SPECIFICATION Spec
CONSTANTS
  NodeCount = 2
  SimTimeRange = 1000
  Configs <- CachingConfigs
INVARIANTS
  OccupancyWithinCapacity
  PlacementRowsTrackResidents
  ViabilityCountsWhatHappened
  HeatIsRememberedLookups
  OracleHoldsTheHottest
  TelemetrySnapshotsAgree
  DemandIsRememberedLookups
PROPERTIES
  ReplacementsRaiseScores
