SPECIFICATION FairSpec
CONSTANTS
  NodeCount = 2
  SimTimeRange = 1000
  Configs <- CoreConfigs
INVARIANTS
  TypeOK
  EventLogInTimeOrder
  EventQueueIsSound
  RequestsAreInExactlyOnePlace
  OutstandingCountsUnfinished
  ChannelFlagsMatchEvents
  ChannelsServeInArrivalOrder
  LatencyIsAccountedFor
PROPERTIES
  PriorTelemetryIsFrozen
  WorkloadCompletes
  ImplementsEpochService
