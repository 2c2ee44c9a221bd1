SPECIFICATION FairSpec
CONSTANTS
  Tuners = {t1, t2}
  healthPort = 1
  broadcastPort = 2
  maxRetries = 2
  Grace = 1
  Others = {2}
  Other = Other
  None = None
INVARIANTS
  TypeOK
  AdvertisedIsServed
  NamesDiffer
  WithdrawnAtExit
PROPERTIES
  SignalEndsProcess
