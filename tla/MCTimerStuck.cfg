CONSTANTS
  Timer = {t1}
  NoTimer = NoTimer
  MaxInits = 1
  OneShots = {TRUE}
  Paired = TRUE
SPECIFICATION TimerFairSpec
PROPERTIES CallsReturn
CHECK_DEADLOCK FALSE
