CONSTANTS
  Clients = {c1}
  DumpOrder <- LitOrder
  Counted <- LitCounted
  Targets <- LitTargets
  BcastCap = 3
  NoRef = NoRef
  NoPatch = NoPatch
  NoDump = NoDump
  MaxCreated = 1
  MaxPatches = 0
SPECIFICATION Spec
INVARIANTS
  HeaderCounts
CHECK_DEADLOCK FALSE
