SPECIFICATION Spec
CONSTANTS
  Size = 2
  NLines = 4
INVARIANTS
  NoFlushLost
  PersistedIsDurable
