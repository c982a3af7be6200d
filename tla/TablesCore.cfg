CONSTANTS
  Clients = {c1, c2}
  r1 = r1
  r2 = r2
  Rows <- TwoRows
  Asked <- AskedChanges
  Made <- MadeChanges
  Idle = Idle
  Gone = Gone
  NoCopy = NoCopy
  AppLocksState = FALSE
  MaxKeys = 2
  MaxAsks = 2
  MaxChanges = 2
SPECIFICATION FairSpec
INVARIANTS
  SubscribersConverge
  FailureNeedsLeaver
PROPERTIES
  SubscriptionsAnswered
CHECK_DEADLOCK FALSE
