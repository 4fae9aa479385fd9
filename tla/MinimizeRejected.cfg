SPECIFICATION FairSpec
CHECK_DEADLOCK FALSE
CONSTANTS
  none = none
  Metrics <- PlainMetrics
  Constraints = {"latency_ms"}
  RelativeCap <- FivePercent
  AbsoluteCap <- Cap
  Missing = none
  Target = 1
  Minimize = TRUE
  MaxFaults = 0
INVARIANT
  RejectionIsWarranted
