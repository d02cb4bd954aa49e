SPECIFICATION Spec
CONSTANTS
  a1 = a1
  a2 = a2
  Addr = {a1, a2}
  Proxy = Proxy
  Proxies = 2
  Environment <- MCEnvironment
  Present <- MCPresent
  Limit = 3
  Window = 2
  Grain = 2
  Rounding = 1
  PruneEvery = 3
  Unset = Unset
  Invalid = Invalid
  Horizon = 5
  MaxAdmitted = 5
SYMMETRY Symmetry
INVARIANTS WithinRate RefusedIsDue
CHECK_DEADLOCK FALSE
