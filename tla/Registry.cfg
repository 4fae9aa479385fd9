SPECIFICATION FairSpec
CONSTANTS
  c1 = c1
  c2 = c2
  o1 = o1
  o2 = o2
  smoke = smoke
  gpu = gpu
  Nobody = Nobody
  Clients = {c1, c2}
  Overlays = {o1, o2}
  Artifacts = {smoke, gpu}
  MaxDeaths = 1
INVARIANTS
  TypeOK
  OneWriter
  CacheIsExact
PROPERTIES
  EvidenceIsKept
  ImplementsEvidenceStore
  CallsReturn
