SPECIFICATION Spec
CONSTANTS
  NumTasks = 1
  PageSize = 1
  Slot = {s1}
  Concurrency = 1
  MaxDepth = 1
  SerializableClaim = TRUE
  MaxFaults = 0
  Sweep = {w1}
  Retention = FALSE
  MaxRestarts = 0
  JobsMayOutliveAge = FALSE
INVARIANT RefusedNeverRuns
