SPECIFICATION TreeSpec
CONSTANTS
  Ball = {b1}
  Thorn = {t1, t2}
  Food = {f1}
  MaxLevel = 3
  MaxObjs = 1
  Side <- MCSide
  Place <- MCPlace
  None = None
INVARIANTS QuadSafe Findable CalledAlive
CHECK_DEADLOCK FALSE
SYMMETRY MCSymmetry
