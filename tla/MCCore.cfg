SPECIFICATION CoreSpec
CONSTANTS
  Timeout = 2
  MaxLapses = 1
  MaxStalls = 1
  Macs = {"left", "right"}
  Addresses = {"touch", "hit", "other"}
  Rules <- SeparateRules
  PulseTicks = 2
  IdleTicks = 3
  MaxPackets = 4
  MaxChanges = 2
  BindMayFail = TRUE
  Cap = 3
  Enough = 2
  MaxSessions = 3
  MaxFaults = 1
  CkRates = {10, 14}
  CkWarmup = 2
  CkWindow = 3
  CkMinTs = 40
  CkMaxTs = 150
  CkMaxSilence = 6
  CkMaxFaults = 2
  VqRestMin = 3
  VqCleanMin = 2
  VqNewTime = 3
  VqNewFirst = 2
  VqMaxReject = 2
  VqFactor = 2
  VqInitial = 1
  VqFields = {1, 2, 4}
  UiDevs = {1, 2}
  UiBusCap = 1
  UiQueueCap = 1
  UiMaxChanges = 1
  HidPaths = {"pad", "aux"}
  HidUsage <- PadAndVendor
  HidNamed = {"pad", "aux"}
  HidMaxPlugs = 2
  HidMaxFaults = 1
  RdCap = 2
  RdErrorsMax = 2
  HoLevels = {0, 1, 2}
  HoMaxFaults = 1
  JcDevs = {1, 2}
  JcCooldown = 2
  JcMaxFaults = 1
  JcTrueKind = "left"
  TsLife = 2
  TsMaxBackoff = 2
  TsMaxFaults = 2
  HxLen = 3
  HxMaxRecords = 3
  HxMaxFaults = 1
INVARIANTS
  CoreTypeOK
  OneEventPerFlip
  ResetsHaveCauses
  KnowsRunning
  OneSessionOnly
  HidReadIsKnown
  RdGoneIsTold
  PsMoveStopDark
  JcAxesAgree
PROPERTIES
  OwnMotorsStop
  ClockSettles
  BiasNotForgotten
  HeadingFollows
  TrackersFollow
  HidUnknownIsOffered
  JcComesBack
  TeslaStreams
  IsRecordStream
CHECK_DEADLOCK FALSE
