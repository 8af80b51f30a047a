------------------------ MODULE MC_NetworkController ------------------------
(* NetworkController for TLC: the keys, and the workers, are alike.          *)
EXTENDS NetworkController, TLC

Symmetry == Permutations(Keys) \cup Permutations(Workers)
=============================================================================
