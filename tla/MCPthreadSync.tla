--------------------------- MODULE MCPthreadSync ---------------------------
(***************************************************************************)
(* Small instances of PthreadSync for TLC.                                 *)
(***************************************************************************)
EXTENDS PthreadSync

\* Every kind of object, and two kinds that share the waiting lists
MCPrograms == {{"mutex"}, {"rwlock"}, {"semaphore", "barrier"}, {"threads"}, {"pipe"}}

\* A program that uses the read-write lock only
MCRwlockPrograms == {{"rwlock"}}
=============================================================================
