SPECIFICATION FairSpec
CONSTANTS
  Blocks <- MCBlocks
  BlockCap = 2
  Clients <- MCClients
CHECK_DEADLOCK FALSE
INVARIANTS
  Atomicity
  
  LockCoversUndo
  
PROPERTIES
  Recovers
