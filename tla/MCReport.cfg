SPECIFICATION ReportSpec
CONSTANTS
  Missing = Missing
  Unparsable = Unparsable
  ContentionRows <- MCContentionRows
  Sessions <- MCSessions
CHECK_DEADLOCK FALSE
INVARIANTS
  BaselinesAreMatched
  FocusedFiguresAverageOnlySeeds
  BestRunsLeadTheirPanels
  TablesAgree
  ReportIsWrittenLast
