SPECIFICATION CableSpec
CONSTANTS
  Names <- NtpOnly
  Presets <- OnePreset
  SafeChars <- Chars
  Addresses = {e1}
  None = None
PROPERTIES
  PresetNeverRemoved
