SPECIFICATION FairSpec
CONSTANTS
  Callers = {c1, c2}
  Instances = {1}
  Endpoints = {e1, e2}
  Identities = {id1}
  Times = {1, 2}
  MaxSubs = 2
  None = None
  Free = Free
INVARIANTS
  TypeOK
  DeliverySerialized
  EventIsCurrentUnlessOverlap
  MirrorsConverge
PROPERTIES
  CallsReturn
