SPECIFICATION Spec
CONSTANTS
  StableReads = 3
  Timeout = 7
  Divs = {1, 3, 20}
  OtherImages <- MCOther
  RefFactors <- MCRefFactors
INVARIANTS
  DumpTrue
  BusesSafe
  Outcome
PROPERTIES
  Isolated
