\* A program killed with an answer unread, or before it is sent.
CONSTANTS
  Programs = {"p1"}
  Others = {}
  ServerVersion = 1
  Versions = {1, 2}
  MaxBody = 1
  MaxMsgs = 2
  MayDie = FALSE
  Garbled = {"ok", "refused"}
SPECIFICATION Spec
INVARIANT SurvivesClients
CHECK_DEADLOCK FALSE
