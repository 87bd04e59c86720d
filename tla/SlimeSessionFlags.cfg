SPECIFICATION PromptSession
CONSTANTS
  Timeout = 1
  MaxLapses = 2
  MaxStalls = 0
  Events = {"data"}
  HasMag = FALSE
  MagSettings = {}
  PauseSettings = {}
  BundleSupport = {TRUE}
  MaxCrashes = 1
  MaxFaults = 0
INVARIANT FlagsOncePerHandshake
