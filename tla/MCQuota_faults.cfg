SPECIFICATION Spec
CONSTANTS
  free = free
  pro = pro
  c1 = c1
  Request = {r1, r2}
  Reader = {g1}
  Conn = {c1}
  ConnOf <- SharedConn
  LuaDown = {r2}
  Plan = {free}
  Limit <- OneFree
  Hours <- FreeHours
  MaxTries = 2
  MaxTime = 3
  MaxDrops = 1
INVARIANTS
  TypeOK
  UsedWithinLimit
CHECK_DEADLOCK FALSE
