SPECIFICATION ArenaSpec
CONSTANTS
  near = near  far = far  last = last  u1 = u1  r1 = r1
  Block = {near, far, last}
  Ball = {o1, o2, o3, o4}
  User = {u1}
  Robot = {r1}
  Dummy = dummy
  None = None
  MaxBalls = 3
  MaxThornBalls = 2
  ThornCount = 1
  ReEnter = FALSE
  Areas <- MCAreas
  Ports <- MCPorts
SYMMETRY Alike
CHECK_DEADLOCK FALSE
INVARIANTS
  ArenaSafe
  ClientSees
