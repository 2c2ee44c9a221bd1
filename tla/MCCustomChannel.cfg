SPECIFICATION FairSpec
CONSTANTS
  Getters = {g1}
  Streams = {s1}
  Pushers = {p1}
  HasToken = FALSE
  Values = {v1, v2}
  Refresh = 2
  FetchTimeout = 1
  MaxTime = 7
  None = None
  Free = Free
INVARIANTS
  TypeOK
  WaitBounded
  StreamFresh
  StreamFollows
PROPERTIES
  IsFeedCache
  ReadersAnswered
