SPECIFICATION BridgeFairSpec
CONSTANTS
  Macs = {"left"}
  Addresses = {"touch", "hit", "other"}
  Rules <- MixedRules
  PulseTicks = 2
  IdleTicks = 3
  MaxPackets = 1
  MaxChanges = 1
  BindMayFail = FALSE
PROPERTY MotorsStop
CHECK_DEADLOCK FALSE
