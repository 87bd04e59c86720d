SPECIFICATION UiSpec
CONSTANTS
  UiDevs = {1, 2}
  UiBusCap = 1
  UiQueueCap = 1
  UiMaxChanges = 1
PROPERTY DevicesMirrored
CHECK_DEADLOCK FALSE
