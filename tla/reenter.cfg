SPECIFICATION ArenaSpec
CONSTANTS
  near = near  far = far  last = last  u1 = u1  r1 = r1
  Block = {near, far, last}
  Ball = {o1, o2, o3}
  User = {u1}
  Robot = {r1}
  Dummy = dummy
  None = None
  MaxBalls = 2
  MaxThornBalls = 2
  ThornCount = 0
  ReEnter = TRUE
  Areas <- MCAreas
  Ports <- MCPorts
SYMMETRY Alike
CHECK_DEADLOCK FALSE
INVARIANT
  ClientSees
