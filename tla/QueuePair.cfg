SPECIFICATION Spec
CONSTANTS
  a = a
  Runs = {a}
  RunOf <- OneRun
  Matched = {2}
  Items = {1, 2}
  FullProfile = {2}
  EvidenceGated = {2}
  Batch = 4
  MaxFaults = 1
  MaxOrphans = 1
INVARIANTS
  TypeOK
  OneTrainerPerItem
  TrainedIsRunning
PROPERTY
  CompletedIsKept
