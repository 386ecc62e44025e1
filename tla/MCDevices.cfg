CONSTANTS
  RingByte = {0, 1}
  Zero = 0
  MaxCap = 3
  MaxPush = 4
  RbufLen = 32
  Payload <- MCPayload
  FirstSn <- MCFirstSn
  Garbage <- MCGarbage
  Noise <- MCNoise
  StartAt = {0, 24}
  MaxChunk = 16
  MaxPackets = 2
  SplitAfterFE = FALSE
  EbSize = 2
  Partitions <- MCPartitions
  Ranges <- MCRanges
  MaxBad = 2
  UartThread = {t1, t2}
  Port = {a, b}
  NoPort = NoPort
  MaxChannels = 2
  Owner = {"battery", "vibrator"}
  Counted = {"battery"}
  Nil = Nil
  MaxHandlers = 1
  MaxCount = 2
  MaxFd = 2
  Pin = {"key", "led"}
SPECIFICATION DevicesSpec
INVARIANTS
  DevicesTypeOK
  CursorsAgree
  HandledInOrder AllHandled
  ReadsBack ErasesExactly
  PortsStayOpen IoReachesItsPort
  UnregisteredIsOut
  PinsAgree
PROPERTIES
  ImplementsFifo
CONSTRAINT UntilRaced
CHECK_DEADLOCK FALSE
