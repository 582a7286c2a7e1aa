SPECIFICATION FairSpec
CONSTANTS
  Conn = {c1, c2}
  User = {u1, u2}
  BattleUser = {b1, b2}
  Room = {r1, r2}
  UserID <- MCUserID
  Nil = Nil
  Robot = Robot
  MinUserID = 2
  AICount = 1
  LoginOnce = TRUE
  TickMayFail = TRUE
INVARIANTS SessionSafe NoStaleAccount
PROPERTIES BattleUserKept EveryBattleEnds
