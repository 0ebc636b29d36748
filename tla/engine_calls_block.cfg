SPECIFICATION FairSpec
CONSTANTS
  u1 = u1
  u2 = u2
  worker = worker
  Users <- OneUser
  Worker <- worker
  HandlerCalls = FALSE
  MutexKinds <- LinuxMutex
  Backends <- LinuxBackend
  ConnectResults <- LinuxResult
  MaxSockets = 2
  MaxFds = 2
  MaxDepth = 3
PROPERTIES
  CallsReturn
CHECK_DEADLOCK FALSE
