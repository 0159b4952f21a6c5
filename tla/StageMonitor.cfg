CONSTANTS
  StallTimeout = 3
  ProbeInterval = 2
  Required = 2
  Delay = 1
SPECIFICATION LiveMonitorSpec
INVARIANTS NoProviderOutlivesStop
PROPERTIES StallIsJustified AnalysisHangEnds CancelEnds
CHECK_DEADLOCK FALSE
