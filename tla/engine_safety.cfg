SPECIFICATION Spec
CONSTANTS
  u1 = u1
  u2 = u2
  worker = worker
  Users <- TwoUsers
  Worker <- worker
  HandlerCalls = TRUE
  MutexKinds <- AnyMutex
  Backends <- AnyBackend
  ConnectResults <- AnyResult
  MaxSockets = 2
  MaxFds = 2
  MaxDepth = 3
INVARIANTS
  TypeOK
  DisconnectOnce
  DescriptorsOwned
PROPERTIES
  ImplementsContract
  NoDialAfterDisconnect
  MutexNeverReleased
SYMMETRY UserSymmetry
CHECK_DEADLOCK FALSE
