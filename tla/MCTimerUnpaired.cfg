CONSTANTS
  Timer = {t1, t2}
  NoTimer = NoTimer
  MaxInits = 1
  OneShots = {FALSE}
  Paired = FALSE
SPECIFICATION TimerFairSpec
PROPERTIES TimersFire
