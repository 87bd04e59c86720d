SPECIFICATION LiveSpec
CONSTANTS
  Timeout = 1
  MaxLapses = 6
  MaxStalls = 0
  Events = {"data"}
  HasMag = FALSE
  MagSettings = {}
  PauseSettings = {}
  BundleSupport = {TRUE, FALSE}
  MaxCrashes = 1
  MaxFaults = 1
PROPERTIES
  Reconnects
  Settles
