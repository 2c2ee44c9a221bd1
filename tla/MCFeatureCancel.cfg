SPECIFICATION Spec
CONSTANTS
  Handlers = {h1, h2}
  Verifiers = {h2}
  Adhds = {1}
  contractTools <- OneTool
  Offers <- Single
  Rungs = {0, 3}
  TrustRung = 3
  Refresh = 2
  MaxFetch = 1
  Faulty = FALSE
  Cancels = TRUE
  MaxTime = 4
  MaxChanges = 2
  None = None
PROPERTIES
  UnreachableMeansNoAnswer
