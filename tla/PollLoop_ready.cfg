\* No uninitialised memory reads as POLLIN: only a stale slot can.
CONSTANTS
  ListenerFd = 1
  FdLimit = 5
  InitSize = 2
  MaxBacklog = 1
  Garbage = {FALSE}
  MaxData = 1
SPECIFICATION Spec
INVARIANT ReadyOnly
CHECK_DEADLOCK FALSE
