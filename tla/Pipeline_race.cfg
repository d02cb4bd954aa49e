SPECIFICATION Spec
CONSTANTS
  NumTasks = 2
  PageSize = 1
  Slot = {s1, s2}
  Concurrency = 1
  MaxDepth = 1
  SerializableClaim = FALSE
  MaxFaults = 0
  Sweep = {w1, w2}
  Retention = FALSE
  MaxRestarts = 1
  JobsMayOutliveAge = FALSE
SYMMETRY Symmetry
INVARIANTS TrackedIsExact RowsAreOwned AtMostOneRun
           NoLostWakeup BootRecoversQueued ReapsOnlyOrphans
