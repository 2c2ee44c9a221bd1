SPECIFICATION TVSpec
CONSTANTS
  Instances = {1}
  Endpoints = {1, 2}
  Identities = {id1}
  Seeds <- NoSeeds
  Interval = 2
  MinExpiry = 3
  Window = 1
  MaxLag = 1
  MaxTime = 6
  Nothing = Nothing
  Free = Free
  Names <- AlarmNames
  Presets <- NtpPreset
  SafeChars <- Chars
  Addresses = {1, 2}
  None = None
  NameOf <- AlarmName
INVARIANTS
  SourcesAreBacked
  HeldRecordHasSourceUnlessShadowed
  ScreenFollowsRegistry
