SPECIFICATION Spec
CONSTANTS
  u1 = u1
  u2 = u2
  worker = worker
  Users <- OneUser
  Worker <- worker
  HandlerCalls = FALSE
  MutexKinds <- RecursiveMutex
  Backends <- AnyBackend
  ConnectResults <- AnyResult
  MaxSockets = 2
  MaxFds = 2
  MaxDepth = 3
INVARIANTS
  SocketsListened
CHECK_DEADLOCK FALSE
