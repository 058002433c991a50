SPECIFICATION SummarySpec
CONSTANTS
  Missing = Missing
  Blank = Blank
  Telemetries <- MCTelemetries
CHECK_DEADLOCK FALSE
INVARIANTS
  FallbackAgreesWithSummary
  PercentilesAreQuantiles
