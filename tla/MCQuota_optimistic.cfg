SPECIFICATION Spec
CONSTANTS
  free = free
  pro = pro
  c1 = c1
  Request = {r1, r2, r3}
  Reader = {}
  Conn = {r1, r2, r3}
  ConnOf <- PrivateConn
  LuaDown = {r1, r2, r3}
  Plan = {free}
  Limit <- FreeLimit
  Hours <- FreeHours
  MaxTries = 2
  MaxTime = 3
  MaxDrops = 0
INVARIANTS
  AbortsHaveWinners
PROPERTY
  ImplementsLedger
CHECK_DEADLOCK FALSE
