SPECIFICATION Spec
CONSTANTS
  Instances = {1}
  Endpoints = {1, 2}
  Identities = {id1}
  Seeds <- SeedFirst
  Interval = 2
  MinExpiry = 3
  Window = 1
  MaxLag = 1
  MaxTime = 12
  Nothing = Nothing
INVARIANTS
  TypeOK
  ReportedOnce
  DetectionBounded
  DepartureBounded
PROPERTIES
  OneMissTolerated
