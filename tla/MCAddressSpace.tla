--------------------------- MODULE MCAddressSpace ---------------------------
(***************************************************************************)
(* Small instances of AddressSpace for TLC.                                *)
(***************************************************************************)
EXTENDS AddressSpaceRefinement, TLC

\* Pointers to ObjectStates have no order, and neither have the states that forks make.
Symmetry == Permutations(Ids) \cup Permutations(States \ {FirstState})
=============================================================================
