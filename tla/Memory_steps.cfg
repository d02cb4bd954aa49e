SPECIFICATION Spec
CONSTANTS
  t1 = t1
  t2 = t2
  o1 = o1
  o2 = o2
  o3 = o3
  Task = {t1, t2}
  Op = {o1, o2, o3}
  MaxInflight = 2
  Budgeted = {"execution"}
  MaxCrashes = 1
  JobsMayOutliveAge = FALSE
SYMMETRY Symmetry
INVARIANTS SlotsAreExact LockMatchesSection NothingLost FailedStaysOff
PROPERTY PruneSparesActive
