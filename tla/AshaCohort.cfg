SPECIFICATION Spec
CONSTANTS
  p1 = p1
  p2 = p2
  n1 = n1
  f1 = f1
  f2 = f2
  f3 = f3
  protocol = protocol
  NoPlan = NoPlan
  Ids = {p1, p2}
  Fps = {f1, f3}
  Paper = {p1, p2}
  LossInjection <- NoLoss
  ProtocolOf <- PaperIsPaired
  PilotFloor <- DefaultFloor
  LossFloor <- DefaultLossFloor
  ReductionFactor = 2
  MinCompleted = 2
  BreakerLimit = 2
  FpsOf <- OnePayloadEach
  Measurements <- LowOrHighPilots
  FailureCauses = {"training"}
PROPERTIES
  CohortIsRanked
