SPECIFICATION Spec
CONSTANTS
  r1 = r1 r2 = r2 o1 = o1
  e1 = e1 e2 = e2 f1 = f1 f2 = f2
  Conn = {c1, c2}
  Run = {r1, r2}
  Branch = {}
  User = {r1,r2}
  Nobody = Nobody
  Task = {e1, e2, f1, f2}
  Logged <- MCLogged
  MinFrequency = 2
  MaxRules = 1
  MaxPromotions = 2
  MaxMishaps = 2
INVARIANTS LockIsExact NoDuplicates RecordsAreTrue
PROPERTY StaleIsOver
CHECK_DEADLOCK FALSE
