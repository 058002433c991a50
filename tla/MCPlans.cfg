SPECIFICATION PlanSpec
CONSTANTS
  Missing = Missing
  Unparsable = Unparsable
  Invocations <- MCPlanInvocations
CHECK_DEADLOCK FALSE
INVARIANTS
  MatchedComparison
  NamesIdentifyRuns
  CapacityCheckMirrorsGenerator
  GeneratedConfigsVerify
  PoliciesDifferOnlyInTheirCache
