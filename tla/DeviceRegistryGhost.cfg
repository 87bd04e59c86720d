SPECIFICATION Spec
CONSTANTS
  N = 2
  Macs = {m1}
  Serials = {s1}
  SyntheticMacs = {}
  SyntheticSerial = s1
  MaxDrains = 0
  MaxFaults = 0
INVARIANT NoGhost
CHECK_DEADLOCK FALSE
