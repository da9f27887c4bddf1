SPECIFICATION Spec
CONSTANTS
  free = free
  pro = pro
  c1 = c1
  Request = {r1, r2, r3}
  Reader = {}
  Conn = {c1}
  ConnOf <- SharedConn
  LuaDown = {r1, r2, r3}
  Plan = {free}
  Limit <- FreeLimit
  Hours <- FreeHours
  MaxTries = 2
  MaxTime = 0
  MaxDrops = 0
INVARIANT GrantsWithinLimit
CHECK_DEADLOCK FALSE
