CONSTANTS
  Threads = {t1, t2}
  Lists <- EntityLists
  Fields <- EntityFields
  Owner <- EntityOwner
  Target <- EntityTarget
  NoRef = NoRef
  NoPatch = NoPatch
  NoThread = NoThread
  GenLimit = 3
  SlotLimit = 2
  OverflowChecks = TRUE
  SerialPatches = TRUE
SPECIFICATION FairSpec
INVARIANTS
  TypeOK
  SlotAccounting
  HeldIsListed
  DropExactlyOnce
  ObservedTracks
  ObservedResolves
PROPERTIES
  RegistrySpec
  DeletedUnlessSelfLocked
CHECK_DEADLOCK FALSE
