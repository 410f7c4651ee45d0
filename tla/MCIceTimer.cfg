CONSTANTS
  Period = 3
  IceTimeout = 12
  Lag = 2
  MaxTime = 40
SPECIFICATION TimerSpec
INVARIANTS
  SilenceNoticed
PROPERTY TimeoutJustified
CHECK_DEADLOCK FALSE
