CONSTANTS
  Names = {n}
  NoName = NoName
  Document = Document
  NoCallback = NoCallback
  DistinctNames = TRUE
  InFlight = 2
  MaxIds = 2
  MaxSends = 4
  MaxCalls = 1
  MaxResets = 1
SPECIFICATION FairSpec
INVARIANTS
  NamesAgree
  WorkerSurvives
  InvocationsTracked
PROPERTIES
  SessionEnds
CHECK_DEADLOCK FALSE
