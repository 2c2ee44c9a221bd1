SPECIFICATION CableSpec
CONSTANTS
  Names <- MixedNames
  Presets <- TwoPresets
  SafeChars <- Chars
  Addresses = {e1, e2}
  None = None
SYMMETRY Symmetry
INVARIANTS
  FileFollowsSource
  NoFileOutlivesSource
