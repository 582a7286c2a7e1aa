SPECIFICATION Spec
CONSTANTS
  c1 = c1 c2 = c2 a1 = a1 d1 = d1 s1 = s1 g1 = g1
  None = None
  Handle = {c1, c2, a1, d1, s1, g1}
  Connector = {c1, c2}
  Acceptor = {a1}
  Datagram = {d1}
  Stream = {s1}
  Signal = {g1}
  EpollFails = TRUE
  MaxMade = 2
  MaxPosted = 1
  MaxRun = 0
INVARIANT HandlesSafe
PROPERTY AnsweredOnce
CHECK_DEADLOCK FALSE
