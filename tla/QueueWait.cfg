SPECIFICATION FairSpec
CONSTANTS
  a = a
  Runs = {a}
  RunOf <- OneRun
  Matched = {}
  Items = {1}
  FullProfile = {}
  EvidenceGated = {}
  Batch = 16
  MaxFaults = 2
  MaxOrphans = 2
PROPERTY
  WaitIsResolved
