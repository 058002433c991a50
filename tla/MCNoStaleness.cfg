SPECIFICATION ReportSpec
CONSTANTS
  Missing = Missing
  Unparsable = Unparsable
  ContentionRows <- MCContentionRows
  Sessions <- TableSessions
CHECK_DEADLOCK FALSE
INVARIANT RowsWithoutStalenessAreLow
