SPECIFICATION FairSpec
CONSTANTS
  u1 = u1
  u2 = u2
  worker = worker
  Users <- OneUser
  Worker <- worker
  HandlerCalls = FALSE
  MutexKinds <- BlockingOrRecursive
  Backends <- AnyBackend
  ConnectResults <- LinuxResult
  MaxSockets = 2
  MaxFds = 2
  MaxDepth = 3
INVARIANTS
  NoLeak
  NoneLost
PROPERTIES
  RequestAnswered
  ExitReports
  StopReturns
CHECK_DEADLOCK FALSE
