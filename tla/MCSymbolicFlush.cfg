CONSTANTS
  States = {s1, s2}
  FirstState = s1
  Objects = {local, fixed}
  Locals = {local}
  Fixed = {fixed}
  NoObject = NoObject
  Lines = {1}
  FirstLine = 1
  LastLine = 1
  Bytes = {0}
  Ids = {i1, i2, i3, i4, i5}
  MaxCowKey = 3
  SymbolicFlush = TRUE
SPECIFICATION Spec
SYMMETRY Symmetry
CHECK_DEADLOCK FALSE
INVARIANTS
  OwnedIsPrivate
  FenceReachesAll
