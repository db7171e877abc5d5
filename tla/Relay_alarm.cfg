SPECIFICATION FairSpec
INVARIANT TimesMeasured
PROPERTIES OneAlarmPerMessage AlarmLasts RelayEnds AlarmHeard
CONSTANTS
  Period = 16
  AlarmTimes = {0, 1, 2, 3}
  Continuous = 2
  Minute = 3
  MaxLag = 2
