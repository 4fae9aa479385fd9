SPECIFICATION Spec
CONSTANTS
  p1 = p1
  p2 = p2
  n1 = n1
  f1 = f1
  f2 = f2
  f3 = f3
  protocol = protocol
  NoPlan = NoPlan
  Ids = {p1, n1}
  Fps = {f1, f2}
  Paper = {p1}
  LossInjection <- NoLoss
  ProtocolOf <- PaperIsPaired
  PilotFloor <- DefaultFloor
  LossFloor <- DefaultLossFloor
  ReductionFactor = 2
  MinCompleted = 1
  BreakerLimit = 2
  FpsOf <- OnePayloadEach
  Measurements <- GoodOrBad
  FailureCauses = {"training"}
INVARIANTS
  RunningIsExecuted
PROPERTIES
  CompletedIsFinal
