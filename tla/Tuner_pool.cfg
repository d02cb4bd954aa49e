SPECIFICATION FairSpec
CONSTANTS
  r1 = r1 r2 = r2 o1 = o1
  e1 = e1 e2 = e2 f1 = f1 f2 = f2
  Conn = {c1, c2}
  Run = {r1, r2}
  Branch = {o1}
  User = {r1, r2, o1}
  Nobody = Nobody
  Task = {}
  Logged <- MCLogged
  MinFrequency = 1
  MaxRules = 1
  MaxPromotions = 2
  MaxMishaps = 1
INVARIANT PoolIsClean
PROPERTY RunsEnd
CHECK_DEADLOCK FALSE
