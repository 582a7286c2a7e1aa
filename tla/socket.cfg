SPECIFICATION FairSpec
CONSTANTS
  b1 = b1
  b2 = b2
  Buffer = {b1, b2}
  Size <- MCSize
  LowWater = 3
CHECK_DEADLOCK FALSE
INVARIANTS SocketSafe EndOfStream
PROPERTIES LingersUntilSent KeepsOrder ClosedIsReleased WriteErrorReported PendingIsSent
