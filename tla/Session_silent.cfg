\* A server that ends between an add and its answer, or before it: the client's
\* buffer, never written, reads as success.
CONSTANTS
  Programs = {"p1"}
  Others = {}
  ServerVersion = 1
  Versions = {1, 2}
  MaxBody = 2
  MaxMsgs = 2
  MayDie = TRUE
  Garbled = {"ok", "refused"}
SPECIFICATION Spec
INVARIANT SuccessIsGenuine
CHECK_DEADLOCK FALSE
