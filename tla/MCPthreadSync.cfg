CONSTANTS
  Tids = {1, 2, 3}
  MaxWlist = 6
  Programs <- MCPrograms
  Mutexes = {m1}
  Conds = {c1}
  MaxDepth = 2
  Values = {0, 1}
  MaxUnits = 2
  Counts = {2, 3}
  MaxRounds = 2
  Fds = {0, 1}
  Sizes = {1, 2}
  MaxSize = 2
  MaxEvents = 1
  MaxCreated = 5
SPECIFICATION FairSpec
INVARIANTS
  MutualExclusion
  NoLostWakeup
  SchedulerAgrees
  UnitsAreConserved
  StreamIsFifo
  PipeIsReleased
  Synchronises
  HangIsReal
  JoinGetsItsThread
PROPERTY WokenGoesOn
CHECK_DEADLOCK FALSE
