SPECIFICATION Spec
CONSTANTS
  Rates <- MCRates
  Parities <- MCParities
  Terminals <- MCTerminals
  MaxOpens = 3
  MaxFd = 2
INVARIANTS
  TypeOK
  Configured
  Restored
  Descriptors
CHECK_DEADLOCK FALSE
