SPECIFICATION FairSpec
CONSTANTS
  Interval = 5
  Timeout = 15
  Lag = 3
  Delay = 2
  MaxLost = 1
CHECK_DEADLOCK FALSE
INVARIANTS
  TypeOK
  NoFalseAlarm
  DetectionBound
PROPERTY DeathDetected
