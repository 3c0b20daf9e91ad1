SPECIFICATION Spec
CONSTANTS
  Items <- MCWide
  MaxBatch = 2
  MaxRetry = 3
INVARIANTS
  DataAsGiven
CHECK_DEADLOCK FALSE
