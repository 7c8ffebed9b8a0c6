------------------------ MODULE AddressSpaceRefinement ------------------------
(***************************************************************************)
(* AddressSpace implements PrivateMemory: the memory of a state is what it *)
(* sees through its address space.                                         *)
(***************************************************************************)
EXTENDS AddressSpace

PM == INSTANCE PrivateMemory WITH memory <- MemoryOf

\* With shared ObjectStates every state still has a memory of its own.
Isolation == PM!Spec
=============================================================================
