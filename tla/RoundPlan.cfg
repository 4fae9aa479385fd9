SPECIFICATION FairSpec
CONSTANTS
  control = control
  none = none
  Candidates = {1, 2, 3}
  Control = control
  None = none
  Effects = {0, 1}
  PostEval = TRUE
  TopK = 1
  MaxFaults = 3
INVARIANTS
  TypeOK
  CohortIsDecidedTogether
  SurvivorsOutrank
  TrainedIsProjected
PROPERTIES
  DecisionsAreFinal
  ImplementsBudgetLadder
  RoundIsClosed
CHECK_DEADLOCK FALSE
