SPECIFICATION FairSpec
CONSTANTS
  c1 = c1 c2 = c2 a1 = a1 d1 = d1 s1 = s1 g1 = g1
  None = None
  Handle = {c1, s1}
  Connector = {c1}
  Acceptor = {}
  Datagram = {}
  Stream = {s1}
  Signal = {}
  EpollFails = TRUE
  MaxMade = 2
  MaxPosted = 1
  MaxRun = 0
PROPERTY RoundEnds DialAnswered
CHECK_DEADLOCK FALSE
