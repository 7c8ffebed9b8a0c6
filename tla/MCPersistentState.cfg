SPECIFICATION Spec
CONSTANTS
  Objects = {"o1"}
  AllocSites = {"o1"}
  NoAlloc = NoAlloc
  Sites = {"s1", "s2"}
  Insts = {"s1", "s2"}
  NoSite = NoSite
  Lines = {0, 1}
  Worlds = {"w0", "w1"}
  Indices = {"c0", "c1", "sym"}
  LineOf <- MCLineOf
  Spans <- MCSpans
  Hash <- MCHash
  StoreKinds = {TRUE, FALSE}
  MaxUpdates = 3
  MaxOccurences = 1
CHECK_DEADLOCK FALSE
INVARIANTS
  BlamesLastWriter
  ExitReportsEveryLoss
  NeverModifiedIsHonest
PROPERTIES
  FenceReportIsHonest
  
  
