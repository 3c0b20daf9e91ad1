SPECIFICATION Spec
CONSTANTS
  Payloads <- MCPayloads
  Masks <- MCMasks
  MaxPad = 3
INVARIANTS
  TypeOK
  PaddedFrameAccepted
  DamageDetected
  TablesAgree
CHECK_DEADLOCK FALSE
