CONSTANTS
  Threads = {t1, t2}
  Lists <- EntityLists
  Fields <- EntityFields
  Owner <- EntityOwner
  Target <- EntityTarget
  NoRef = NoRef
  NoPatch = NoPatch
  NoThread = NoThread
  GenLimit = 1
  SlotLimit = 2
  OverflowChecks = TRUE
  SerialPatches = TRUE
SPECIFICATION FairSpec
PROPERTIES
  UnreferencedIsDeleted
CHECK_DEADLOCK FALSE
