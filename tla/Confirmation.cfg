SPECIFICATION FairSpec
CHECK_DEADLOCK FALSE
CONSTANTS
  none = none
  Metrics <- MixedMetrics
  Constraints = {"latency_ms"}
  RelativeCap <- FivePercent
  AbsoluteCap <- Cap
  Missing = none
  Target = 2
  Minimize = FALSE
  MaxFaults = 2
INVARIANTS
  TypeOK
  NothingRunsUnapproved
  ReportIsCurrent
  ConfirmedWinsEverySeed
PROPERTIES
  SpentBuysNothing
  FinishedIsKept
  ApprovedIsReported
