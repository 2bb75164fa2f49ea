\* One descriptor for clients: the second client finds none left.
CONSTANTS
  ListenerFd = 1
  FdLimit = 3
  InitSize = 2
  MaxBacklog = 1
  Garbage = {TRUE, FALSE}
  MaxData = 1
SPECIFICATION FairSpec
PROPERTY PendingIsAccepted
CHECK_DEADLOCK FALSE
