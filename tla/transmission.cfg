SPECIFICATION FairSpec
CONSTANTS
  CacheLen = 2
  Window = 2
  MaxIn = 4
  MaxOut = 3
INVARIANTS
  TypeOK
  NothingLost
  OnlyWholeCachesStick
  ReadInPass
PROPERTIES
  HeardInOrder
  SendsFlushed
  CloseReported
  EndNoticed
CHECK_DEADLOCK FALSE
