CONSTANTS
  Listener = {l1, l2}
  Dummy = dummy
  NoTime = NoTime
  MaxTime = 3
  StopDelay = 1
  MaxClients = 2
  MaxSets = 2
  MaxSessions = 2
SPECIFICATION FairSpec
INVARIANTS NoAlarmForgotten ThreadHasDevice
PROPERTIES AlarmDelivered FirstStopReturns
CHECK_DEADLOCK FALSE
