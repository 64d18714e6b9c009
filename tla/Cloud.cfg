SPECIFICATION CloudSpec
CONSTANTS
  MaxTaps = 2
  MaxFaults = 1
  MaxCloud = 2
INVARIANTS ConnectedIsSaved NoFilesLeft
PROPERTIES LinkNeedsConsent PinNeedsRequest StatusConverges
CHECK_DEADLOCK FALSE
