SPECIFICATION WcSpec
CONSTANTS
  WcSegments = 2
  WcMaxSplits = 1
  WcMaxChanges = 2
INVARIANT WcBareIsStill
CHECK_DEADLOCK FALSE
