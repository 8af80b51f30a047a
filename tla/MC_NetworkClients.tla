---------------------------- MODULE MC_NetworkClients ----------------------------
(* NetworkClients for TLC: programs are alike, and so are namespaces.        *)
EXTENDS NetworkClients, TLC

Symmetry == Permutations(Programs) \cup Permutations(Namespaces)
=============================================================================
