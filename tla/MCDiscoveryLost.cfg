SPECIFICATION Spec
CONSTANTS
  Instances = {1}
  Endpoints = {1, 2}
  Identities = {id1}
  Seeds <- NoSeeds
  Interval = 2
  MinExpiry = 3
  Window = 1
  MaxLag = 0
  MaxTime = 10
  Nothing = Nothing
  Free = Free
INVARIANTS
  HeldRecordHasSource
