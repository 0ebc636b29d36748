SPECIFICATION FairSpec
CONSTANTS
  CacheLen = 2
  Window = 2
  MaxIn = 4
  MaxOut = 3
PROPERTIES
  DataReachesHandler
CHECK_DEADLOCK FALSE
