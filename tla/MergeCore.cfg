CONSTANTS
  Upstreams = {u1, u2}
  MaxEntities = 2
  MaxMethods = 1
  MaxChanges = 3
  InFlight = 2
  ParentsFirst = TRUE
SPECIFICATION FairSpec
INVARIANTS
  MirrorsConverge
  MergedSurvives
PROPERTIES
  DepartedAreForgotten
CHECK_DEADLOCK FALSE
