SPECIFICATION Spec
PROPERTY OnlyOldCleared
CONSTANTS
  DEVICE_COUNT = 1
  PacksSensorNum = 1
  Readings <- MCReadings
  Period = 5
  SensorCycle = 2
  MaxLag = 2
