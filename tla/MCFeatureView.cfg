SPECIFICATION Spec
CONSTANTS
  Handlers = {h1, h2}
  Verifiers = {h1, h2}
  Adhds = {1, 2}
  contractTools <- OneTool
  Offers <- Varied
  Rungs = {0, 3}
  TrustRung = 3
  Refresh = 2
  MaxFetch = 1
  Faulty = TRUE
  Cancels = TRUE
  MaxTime = 3
  MaxChanges = 1
  None = None
SYMMETRY HandlerSymmetry
INVARIANTS
  TypeOK
  RungIsAdhds
PROPERTIES
  AnswersFresh
  ProbeBacked
