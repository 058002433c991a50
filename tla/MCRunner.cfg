SPECIFICATION FairRunnerSpec
CONSTANTS
  Missing = Missing
  Unparsable = Unparsable
  None = None
  Jobs <- MCJobs
  Config <- yaml_config
  Verifies <- verify_dry_run
  MaxInvocations = 2
CHECK_DEADLOCK FALSE
INVARIANTS
  MetricsAreFresh
  AggregateIsPublished
  AggregateDescribesOutputs
PROPERTIES
  ImplementsBatchJob
  EveryInvocationEnds
