SPECIFICATION Spec
CONSTANTS
  u1 = u1
  u2 = u2
  worker = worker
  Users <- TwoUsers
  Worker <- worker
  HandlerCalls = FALSE
  MutexKinds <- RecursiveMutex
  Backends <- AnyBackend
  ConnectResults <- LinuxResult
  MaxSockets = 2
  MaxFds = 2
  MaxDepth = 3
INVARIANTS
  NoneLost
CHECK_DEADLOCK FALSE
