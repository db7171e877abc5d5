SPECIFICATION FairSpec
CONSTANTS
  HEART_BEAT_TIME = 3
  SEND_DATA_TIME = 2
  PowerOnTicks = 2
  CycleCount = 2
  LogTicks = 1
PROPERTY RuntimeFallback
