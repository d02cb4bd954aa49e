SPECIFICATION Spec
CONSTANTS
  q1 = q1
  q2 = q2
  Req = {q1, q2}
  Nobody = Nobody
  Rule <- MCRule
  Utterance <- MCUtterance
  Prompt <- MCPrompt
  Config <- MCConfig
  SeedDims = 512
  MaxChanges = 1
  MaxMishaps = 1
SYMMETRY Symmetry
INVARIANTS OneRouter LegacyIsExcused LogAgrees TraceIsComplete
CHECK_DEADLOCK FALSE
