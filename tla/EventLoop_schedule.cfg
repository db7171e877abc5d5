SPECIFICATION FairSpec
CONSTANTS
  HEART_BEAT_TIME = 4
  SEND_DATA_TIME = 2
  PowerOnTicks = 3
  CycleCount = 3
  LogTicks = 1
INVARIANTS TypeOK StageNeverLost SessionServed DhcpLoopFed
PROPERTIES ModemStageKept OncePerWindow ImplementsUplink
           LinkLossNoticed HeartbeatDispatched UploadsRecur
