CONSTANTS
  Owner = {"battery", "vibrator"}
  Counted = {"battery"}
  Nil = Nil
  MaxHandlers = 1
  MaxCount = 1
  MaxFd = 2
SPECIFICATION NetlinkSpec
INVARIANT RegisteredListens
CHECK_DEADLOCK FALSE
