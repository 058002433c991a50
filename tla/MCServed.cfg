SPECIFICATION PlanSpec
CONSTANTS
  Missing = Missing
  Unparsable = Unparsable
  Invocations <- FineChurn
CHECK_DEADLOCK FALSE
INVARIANT PlannedRunsAreServed
