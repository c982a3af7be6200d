CONSTANTS
  Upstreams = {u1, u2}
  MaxEntities = 2
  MaxMethods = 0
  MaxChanges = 3
  InFlight = 2
  ParentsFirst = FALSE
SPECIFICATION Spec
INVARIANTS
  MergedSurvives
CHECK_DEADLOCK FALSE
