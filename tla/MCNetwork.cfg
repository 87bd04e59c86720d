SPECIFICATION NetworkSpec
CONSTANTS
  Hubs = {"hub"}
  Handles = {"phone", "pad"}
  Ports = {1, 2}
  Roles <- PhoneAndPad
  Slots = {1, 2, 3}
  QueueCap = 1
  StaleSweeps = 1
  MaxFaults = 2
  WcSegments = 2
  WcMaxSplits = 2
  WcMaxChanges = 3
  UdpPeers = {p, q}
  UdpDevs = {1, 2, 3}
  UdpQueueCap = 1
  UdpIdle <- IdleOfEach
  UdpNone = UdpNone
INVARIANTS
  OneTarget
PROPERTIES
  RumbleFollows
  PhoneComesBack
  WcAnswered
  UdpSilentTold
CHECK_DEADLOCK FALSE
