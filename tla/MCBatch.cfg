SPECIFICATION BatchSpec
CONSTANTS
  Items <- MCItems
  Files <- MCFiles
  Slaves <- MCSlaves
  MaxBatch = 2
  MaxRetry = 2
  MaxOps = 4
INVARIANTS
  BatchTypeOK
  Accounted
  SlaveAnswers
  ExecutedAtMostRetry
  Addressed
PROPERTIES
  GivesUp
CHECK_DEADLOCK FALSE
