CONSTANTS
  StallTimeout = 3
  ProbeInterval = 2
  Required = 2
  Delay = 1
SPECIFICATION LiveMonitorSpec
PROPERTIES ReviewHangEnds
CHECK_DEADLOCK FALSE
