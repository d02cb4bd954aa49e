SPECIFICATION FairSpec
CONSTANTS
  NumTasks = 1
  PageSize = 1
  Slot = {s1}
  Concurrency = 1
  MaxDepth = 1
  SerializableClaim = TRUE
  MaxFaults = 1
  Sweep = {w1}
  Retention = TRUE
  MaxRestarts = 1
  JobsMayOutliveAge = TRUE
PROPERTIES ImplementsBoard Settles ShutdownEnds
