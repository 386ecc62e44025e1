CONSTANTS
  Listener = {l1, l2}
  Dummy = dummy
  NoTime = NoTime
  MaxTime = 3
  StopDelay = 1
  MaxClients = 1
  MaxSets = 1
  MaxSessions = 2
SPECIFICATION FairSpec
PROPERTIES StopReturns
CHECK_DEADLOCK FALSE
