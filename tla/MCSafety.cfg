SPECIFICATION SafetySpec
CONSTANTS
  Timeout = 1
  MaxLapses = 1
  MaxStalls = 1
  Events = {"data", "reset", "gone"}
  HasMag = TRUE
  MagSettings = {TRUE}
  PauseSettings = {TRUE}
  BundleSupport = {TRUE}
  MaxCrashes = 0
  MaxFaults = 1
  WoMaxSeq = 4
  WlLens <- MessageLengths
  WlClaims = {0, 1, 3, 4, 5, 17, 23, 40, 300}
  LcCallers = {1, 2}
  LcMaxCalls = 2
  LcMaxFaults = 1
  DcLoops = {"hub", "pads", "scan"}
  DcCap = 2
  DcMaxFinds = 3
  DcNone = DcNone
  LoMod = 5
  LoSkip = 4
  LoMaxSent = 9
  LoMaxNet = 2
  LoMaxCount = 4
  WiiConns = {"a", "b"}
  WiiIds = {0}
  WiiDevs = {1, 2}
  WiiQueueCap = 1
  WiiBurst = 1
  WiiNone = WiiNone
  RbLong = 10
  RbDebounce = 3
  RbMaxPresses = 4
CONSTRAINTS
  OneDisturbance
  FewUnderWay
  OneReset
INVARIANTS
  AnnouncedInOrder
  AccelMeetsItsRotation
  FieldsInsideApart
  ReadAsWritten
  LiveIsStored
  WaitsAreBounded
  WiiTablesKept
  LossIsCounted
  SpCalIsResolved
  ResetsAnswerPresses
PROPERTIES
  FlagsAtMostOncePerHandshake
  StartsInOrder
