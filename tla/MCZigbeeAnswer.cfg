CONSTANTS
  MaxSends = 2
  MaxDisturbances = 0
SPECIFICATION ZigbeeSpec
PROPERTIES AnswerIsOwn
CHECK_DEADLOCK FALSE
