SPECIFICATION FairSpec
CONSTANTS
  Timeouts <- MCTimeouts
  MaxLen = 2
  TxRoom = 1
  MaxArrivals = 2
  MaxCalls = 2
  MaxInterrupts = 1
INVARIANTS
  TypeOK
  ReadInOrder
  WriteInOrder
  NothingSkipped
  ShortReadWaited
  CountersTell
PROPERTIES
  CallEnds
  ReadsAsPromised
