CONSTANTS
  ThreadCnt = 3
  MaxWork = 4
  MaxInit = 2
  CreateMayFail = TRUE
  Timer = {t1, t2}
  NoTimer = NoTimer
  MaxInits = 1
  OneShots = {TRUE, FALSE}
  Paired = TRUE
SPECIFICATION ThreadsSpec
INVARIANTS
  WorkAccounted WorkConserving NoUseAfterFree
  Served LockLostByLastOneShot
PROPERTIES
  ImplementsWorkQueue DestroyReturns QueuedWorkRuns
  JoinedStopIsFinal CallsReturnOrDeadlock TimersFireOrDeadlock
CHECK_DEADLOCK FALSE
