CONSTANTS
  Device = {"keys", "touch"}
  Listener = {"f", "g"}
  MaxStarts = 2
SPECIFICATION InputSpec
PROPERTIES UnregisterTakesItsOwn
CHECK_DEADLOCK FALSE
