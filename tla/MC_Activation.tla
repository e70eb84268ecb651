--------------------------- MODULE MC_Activation ---------------------------
(* Instances of Activation for TLC.                                        *)
EXTENDS Activation, TLC

CONSTANTS n1, n2, i1, i2

Symmetry == Permutations(Node) \cup Permutations(Instance)
=============================================================================
