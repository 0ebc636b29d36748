SPECIFICATION FairSpec
CONSTANTS
  CacheLen = 2
  HeaderLen = 1
  RecordLen = 3
  MaxIn = 2
  MaxOut = 2
INVARIANTS
  TypeOK
  StreamKept
  OnlyBehindHandshake
  OnlyWholeCachesWait
PROPERTIES
  HandshakeEnds
  ImplementsContract
CHECK_DEADLOCK FALSE
