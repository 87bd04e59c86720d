SPECIFICATION MCSpec
CONSTANTS
  N = 3
  Macs = {hardware, synthetic}
  Serials = {s1, s2}
  SyntheticMacs = {synthetic}
  SyntheticSerial = s1
  MaxDrains = 2
  MaxFaults = 1
INVARIANT RegistryInv
PROPERTIES
  IsDirectory
  OrphansEnd
CHECK_DEADLOCK FALSE
