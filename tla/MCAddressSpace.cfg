CONSTANTS
  States = {s1, s2, s3}
  FirstState = s1
  Objects = {o}
  Locals = {}
  Fixed = {}
  NoObject = NoObject
  Lines = {1}
  FirstLine = 1
  LastLine = 1
  Bytes = {0, 1}
  Ids = {i1, i2, i3, i4}
  MaxCowKey = 3
  SymbolicFlush = FALSE
SPECIFICATION Spec
SYMMETRY Symmetry
CHECK_DEADLOCK FALSE
PROPERTIES
  NeverWriteShared
  Isolation
