SPECIFICATION FairSpec
CONSTANTS
  Items <- MCItems
  MaxBatch = 2
  MaxRetry = 3
INVARIANTS
  TypeOK
  Retried
  AnsweredInOrder
  FitsADU
PROPERTIES
  BatchEnds
CHECK_DEADLOCK FALSE
