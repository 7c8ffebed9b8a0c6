SPECIFICATION Spec
CONSTANTS
  AllocSites = {}
  NoAlloc = NoAlloc
  s1 = s1
  s2 = s2
  s3 = s3
  f1 = f1
  Insts = {s1, s2, s3, f1}
  Locations <- MCLocations
  Hash <- MCHash
  MaxOccurences = 5
SYMMETRY StoreSymmetry
CHECK_DEADLOCK FALSE
INVARIANTS
  MaskingIsConsistent
  StatsAgree
PROPERTIES
  ReportsAreStable
