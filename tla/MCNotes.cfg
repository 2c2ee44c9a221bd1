SPECIFICATION Spec
CONSTANTS
  Feeds = {f1, f2}
  Getters = {g1, g2}
  Streams = {s1}
  Ids = {i1}
  NoID = NoID
  Contents <- MCContents
  TTL = 3
  Period = 2
  ReadTimeout = 1
  None = None
  Free = Free
INVARIANTS TypeOK WaitBounded Announced
PROPERTIES IsFeedCache
