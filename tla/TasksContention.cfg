CONSTANTS
  Clients = {c1, c2}
  QueueCap = 1
  NoCall = NoCall
  MaxCalls = 1
  MayShutdown = FALSE
SPECIFICATION FairSpec
INVARIANTS
  AnswersInOrder
PROPERTIES
  InvocationsAnswered
CHECK_DEADLOCK FALSE
