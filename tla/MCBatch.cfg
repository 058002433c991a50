SPECIFICATION BatchSpec
CONSTANTS
  Stems = {a, b, c}
  Folders = {d, e}
  MaxConfigs = 3
  MaxInvocations = 2
  None = None
CHECK_DEADLOCK FALSE
INVARIANT ResultsUpToTheFailure
