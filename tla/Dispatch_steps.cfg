SPECIFICATION Spec
CONSTANTS
  a = a
  b = b
  Agent = {a, b}
  MaxRetries = 1
INVARIANTS CompletedIsBacked CallsFollowPolicy LogIsTruthful SignalsMatchLog RowsAreCommitted
PROPERTIES VerdictIsFinal ImplementsJob
CHECK_DEADLOCK FALSE
