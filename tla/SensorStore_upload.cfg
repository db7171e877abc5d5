SPECIFICATION FairSpec
INVARIANTS TypeOK FirstPacketWhole
PROPERTY SilenceReported
CONSTANTS
  DEVICE_COUNT = 2
  PacksSensorNum = 1
  Readings <- MCReadings
  Period = 3
  SensorCycle = 1
  MaxLag = 1
