--------------------------- MODULE MCCustomCheckers ---------------------------
(* The instances of CustomCheckers that TLC checks *)
EXTENDS CustomCheckers

\* Two neighbours, and one or the other depending on the input
MCWorlds == 1 .. 2
First == <<0, 1>>
Second == <<1, 2>>
MCRanges ==
  {[w \in MCWorlds |-> First], [w \in MCWorlds |-> Second],
   [w \in MCWorlds |-> IF w = 1 THEN First ELSE Second]}
=============================================================================
