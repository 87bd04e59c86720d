SPECIFICATION MagSpec
CONSTANTS
  Cap = 2
  Enough = 1
  MaxSessions = 2
  MaxFaults = 0
PROPERTY AwaitsTheResult
CHECK_DEADLOCK FALSE
