SPECIFICATION Spec
CONSTANTS
  Answers <- MCAnswers
  Found <- MCFound
  Configured <- MCConfigured
  None = None
INVARIANTS
  NotLaundered
  ReleasedTogether
  RungCoversReleased
  TrailCertifyingFirst
  DemoAndBestWin
