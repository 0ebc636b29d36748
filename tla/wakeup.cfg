SPECIFICATION FairSpec
CONSTANTS
  Senders = {s1, s2}
  Fds = {0, 1, 2, 3}
  Backends = {"select", "epoll"}
  MaxBytes = 2
INVARIANTS
  TypeOK
  NoFalseWakeUp
PROPERTIES
  WakeUpArrives
CHECK_DEADLOCK FALSE
