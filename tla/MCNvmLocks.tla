--------------------------- MODULE MCNvmLocks ---------------------------
EXTENDS NvmLocks

MCLevel == [m \in Mutexes |-> IF m = "m1" THEN 1 ELSE 2]

Request(ms, waits) == [m : ms, excl : BOOLEAN, wait : waits]

MCLoads ==
  { \* three threads on one mutex and a power failure; only writers time out
    [requests |-> Request({"m1"}, {"forever"}) \cup [m : {"m1"}, excl : {TRUE}, wait : {"timed"}],
     power |-> TRUE, crashes |-> 1, locks |-> 1, rounds |-> <<1, 1, 1>>],
    \* two threads on two mutexes, upgrades and out of order locking included
    [requests |-> Request({"m1"}, {"forever", "none"}) \cup Request({"m2"}, {"forever", "timed"}),
     power |-> FALSE, crashes |-> 0, locks |-> 2, rounds |-> <<1, 1, 0>>],
    \* two power failures, the second one possibly during the recovery
    [requests |-> Request({"m1"}, {"forever", "timed"}), power |-> TRUE, crashes |-> 2,
     locks |-> 1, rounds |-> <<2, 1, 0>>] }
===========================================================================
