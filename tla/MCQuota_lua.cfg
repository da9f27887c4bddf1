SPECIFICATION Spec
CONSTANTS
  free = free
  pro = pro
  c1 = c1
  Request = {r1, r2, r3}
  Reader = {}
  Conn = {c1}
  ConnOf <- SharedConn
  LuaDown = {}
  Plan = {free, pro}
  Limit <- TwoPlanLimit
  Hours <- TwoPlanHours
  MaxTries = 1
  MaxTime = 4
  MaxDrops = 1
INVARIANTS
  GrantsWithinLimit
  ExpiredWindowAdmits
CHECK_DEADLOCK FALSE
