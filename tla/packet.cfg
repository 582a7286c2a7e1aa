SPECIFICATION Spec
CONSTANTS
  Base = 4
  Word = 2
  MinCap = 4
  Slot = {s1, s2}
  Sizes = {3, 5}
  Pieces = {4}
  RecvCap = 4
  MaxPacket = 7
  Stopping = {"copy", "append", "freed", "shared", "uninitialised", "cut", "drain", "header", "endless"}
  MaxOps = 5
SYMMETRY Slots
INVARIANT RefsCounted BuffersKeep StreamAsSent Decoded
CHECK_DEADLOCK FALSE
