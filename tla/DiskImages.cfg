SPECIFICATION Spec
CONSTANTS
  Sizes <- MCSizes
  Patterns <- MCPatterns
  Boot = 1
  PageSectors = 16
  SumBits = 4
  MaxStores = 2
INVARIANTS
  TypeOK
  BlocksKept
PROPERTY
  Settled
