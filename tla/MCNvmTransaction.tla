------------------------ MODULE MCNvmTransaction ------------------------
EXTENDS NvmTransaction

MCBlocks == <<"b1", "b2", "b3", "b4", "b5">>

NestedCalls == {"begin", "nested", "write", "savepoint", "rollback", "on_commit", "on_abort",
                "on_unlock", "abort"}

MCClients ==
  { \* two transactions and a power failure
    [power |-> TRUE, tx |-> 2, ops |-> 3, crashes |-> 1,
     calls |-> {"begin", "write", "savepoint", "rollback", "commit", "abort"}],
    \* nesting and callbacks, and an end of the process
    [power |-> FALSE, tx |-> 1, ops |-> 3, crashes |-> 1, calls |-> NestedCalls],
    \* a second end, possibly during the recovery
    [power |-> FALSE, tx |-> 1, ops |-> 2, crashes |-> 2, calls |-> NestedCalls] }
===========================================================================
