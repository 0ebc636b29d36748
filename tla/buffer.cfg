SPECIFICATION Spec
CONSTANTS
  a = a
  b = b
  junk = junk
  Byte <- Bytes
  Junk <- junk
  Chunks <- SomeChunks
  DefaultLens <- SomeLens
  MinLen = 2
  MaxLen = 4
  IntWidth = 5
INVARIANTS
  TypeOK
  InBounds
  DiesOnlyHuge
PROPERTIES
  ImplementsQueue
  GrowthTight
CHECK_DEADLOCK FALSE
