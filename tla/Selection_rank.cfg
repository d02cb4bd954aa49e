SPECIFICATION Spec
CONSTANTS
  Agent = {1, 2, 3}
  Version <- MCVersion
  Policy <- MCPolicy
  Task <- MCTask
  Estimate <- MCEstimate
  Unit <- MCUnit
  Precision = 20
  Outcomes = {0, 15}
  MaxChanges = 2
INVARIANTS NobodyIsOvertaken SelectionIsJustified
CHECK_DEADLOCK FALSE
