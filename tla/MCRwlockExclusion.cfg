CONSTANTS
  Tids = {1, 2, 3}
  MaxWlist = 7
  Programs <- MCRwlockPrograms
  Mutexes = {m1}
  Conds = {c1}
  MaxDepth = 2
  Values = {0, 1}
  MaxUnits = 2
  Counts = {2, 3}
  MaxRounds = 2
  Fds = {0, 1}
  Sizes = {1, 2}
  MaxSize = 2
  MaxEvents = 1
  MaxCreated = 5
SPECIFICATION Spec
INVARIANT Exclusion
CHECK_DEADLOCK FALSE
