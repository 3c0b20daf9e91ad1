SPECIFICATION FairSpec
CONSTANTS
  Gap = 3
  Ticks = 2
INVARIANTS
  TypeOK
  Silence
PROPERTIES
  OpEnds
  Spaced
