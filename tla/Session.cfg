\* A program and a peer that is not one: wrong types, refused versions,
\* bodies in two pieces, kills and the death of the server.
CONSTANTS
  Programs = {"p1"}
  Others = {"o1"}
  ServerVersion = 1
  Versions = {1, 2}
  MaxBody = 2
  MaxMsgs = 3
  MayDie = TRUE
  Garbled = {"ok", "refused"}
SPECIFICATION FairSpec
INVARIANTS TypeOK WholeMessages OnlyGreetedOnce AnswerIsGenuine
PROPERTY ProgramsFinish
CHECK_DEADLOCK FALSE
