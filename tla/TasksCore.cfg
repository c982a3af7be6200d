CONSTANTS
  Clients = {c1}
  QueueCap = 1
  NoCall = NoCall
  MaxCalls = 2
  MayShutdown = TRUE
SPECIFICATION FairSpec
INVARIANTS
  TypeOK
  KnownSenders
  AnswersInOrder
PROPERTIES
  ConnectionsCleanedUp
  ShutdownCompletes
CHECK_DEADLOCK FALSE
