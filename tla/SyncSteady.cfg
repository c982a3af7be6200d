CONSTANTS
  Clients = {c1}
  DumpOrder <- SceneOrder
  Counted <- SceneCounted
  Targets <- SceneTargets
  BcastCap = 3
  NoRef = NoRef
  NoPatch = NoPatch
  NoDump = NoDump
  MaxCreated = 2
  MaxPatches = 2
SPECIFICATION FairSpec
INVARIANTS
  SteadyClientsConverge
  SteadyClientsSurvive
  SteadyMirrorsResolve
PROPERTIES
  EventuallyReady
CHECK_DEADLOCK FALSE
