SPECIFICATION MonitorSpec
CONSTANTS
  MaxLen = 2
  MaxArrivals = 4
  MaxOpens = 3
INVARIANTS
  MonitorTypeOK
  PrintedAsRead
PROPERTIES
  Followed
CHECK_DEADLOCK FALSE
