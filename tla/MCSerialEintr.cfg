SPECIFICATION Spec
CONSTANTS
  Timeouts <- MCTimeouts
  MaxLen = 2
  TxRoom = 1
  MaxArrivals = 1
  MaxCalls = 1
  MaxInterrupts = 1
INVARIANTS
  EveryByteOnce
