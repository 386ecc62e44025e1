CONSTANTS
  Device = {"keys", "touch"}
  Listener = {"f", "g"}
  MaxStarts = 2
  CamClient = {"c1", "c2"}
  Asked = 2
  Idle = Idle
  MaxSends = 2
  MaxDisturbances = 1
  MaxId = 2
  MaxRequests = 2
  MaxRetries = 1
SPECIFICATION ServicesSpec
INVARIANTS
  ReadsLiveDevice StartedRuns
  ExactlyOnce SuccessIsPaid WaiterIsWoken
  ListMatches ImageBufferLives
PROPERTIES
  DeinitReturns
  StartFailsOnlyAfter CamStopReturns
  SendsReturn
  RequestsAnswered
CHECK_DEADLOCK FALSE
