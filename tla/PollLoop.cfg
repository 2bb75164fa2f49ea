\* Two clients and an array that doubles for each: one disconnects while the
\* other is moved behind the scan, in every order.
CONSTANTS
  ListenerFd = 1
  FdLimit = 4
  InitSize = 1
  MaxBacklog = 2
  Garbage = {TRUE, FALSE}
  MaxData = 2
SPECIFICATION FairSpec
INVARIANTS TypeOK Registered
PROPERTIES DropsOnlyTheEnded ReadableIsServed
CHECK_DEADLOCK FALSE
