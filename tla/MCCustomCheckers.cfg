CONSTANTS
  States = {s1, s2}
  Worlds <- MCWorlds
  Ranges <- MCRanges
  Base = 1
  MaxDepth = 2
SPECIFICATION Spec
INVARIANTS TxAddIsExact BareStoreIsReported 
CHECK_DEADLOCK FALSE
