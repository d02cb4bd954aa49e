SPECIFICATION FairSpec
CONSTANTS
  NumFiles = 4
  NumStmts = 2
  MaxVersion = 2
  Plain <- PlainStmts
  Tolerated <- OldHashOf2
  Legacy = {0, 1, 3}
  MaxFailures = 2
  FirstFileFails = FALSE
  UpgradeAddsFiles = FALSE
INVARIANTS RecordedIsApplied SuccessIsConsistent
PROPERTIES HashIsPinned Converges
