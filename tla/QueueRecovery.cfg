SPECIFICATION FairSpec
CONSTANTS
  a = a
  Runs = {a}
  RunOf <- OneRun
  Matched = {}
  Items = {1}
  FullProfile = {}
  EvidenceGated = {1}
  Batch = 16
  MaxFaults = 2
  MaxOrphans = 1
INVARIANT
  BatchIsBounded
PROPERTY
  PilotsSettle
