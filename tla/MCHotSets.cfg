SPECIFICATION Spec
CONSTANTS
  WorkloadConfigs <- MCWorkloads
  WholeHotSet = 4
CHECK_DEADLOCK FALSE
INVARIANTS
  HotSetsKeepTheirShape
  ChurnBringsNewObjects
  AcceptedWorkloadsAreGenerated
