SPECIFICATION Spec
CONSTANTS
  s1 = s1
  s2 = s2
  a1 = a1
  d0 = d0
  d1 = d1
  d2 = d2
  Requests <- MCReadRequests
  MaxOps = 2
  Cuts = {5}
INVARIANTS
  WholeReply
CHECK_DEADLOCK FALSE
