SPECIFICATION FairSpec
CONSTANTS
  Slots = {1, 2, 3}
  Mutexes = {"m1", "m2"}
  Level <- MCLevel
  Loads <- MCLoads
CHECK_DEADLOCK FALSE
INVARIANTS
  OwnersExact
  NoLostWakeup
  WaitersExact
PROPERTIES
  Served
