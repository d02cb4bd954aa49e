SPECIFICATION FairSpec
CONSTANTS
  t1 = t1
  t2 = t2
  o1 = o1
  o2 = o2
  o3 = o3
  Task = {t1, t2}
  Op = {o1, o2}
  MaxInflight = 1
  Budgeted = {}
  MaxCrashes = 0
  JobsMayOutliveAge = TRUE
PROPERTY NeverBlocksTask
