CONSTANTS
  RbufLen = 32
  Payload <- MCPayload
  FirstSn <- MCFirstSn
  Garbage <- MCGarbage
  Noise <- MCNoise
  StartAt = {0}
  MaxChunk = 16
  MaxPackets = 1
  SplitAfterFE = TRUE
SPECIFICATION UartSpec
INVARIANTS AllHandled
CHECK_DEADLOCK FALSE
