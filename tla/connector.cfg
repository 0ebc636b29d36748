SPECIFICATION FairSpec
CONSTANTS
  Names <- ShortNames
  Chains <- ShortChains
  Files <- ShortFiles
  kDnsRequestLen = 23
  MaxSockets = 2
  MaxLives = 2
  MutexKinds <- BlockingOrRecursive
  Addresses <- Ipv4
  DnsInit = TRUE
INVARIANTS
  TypeOK
  NoUseAfterDelete
  AnswersOnce
  QueriesNameHosts
  AnswersFound
PROPERTIES
  NobodyWaits
  StopReturns
CHECK_DEADLOCK FALSE
