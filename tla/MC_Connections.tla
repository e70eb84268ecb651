--------------------------- MODULE MC_Connections ---------------------------
(* Instances of Connections for TLC.                                       *)
EXTENDS Connections, TLC

CONSTANTS i1, i2, a1, a2, r1, r2

OneInstance  == {i1}
TwoInstances == {i1, i2}
TwoUsers     == {1, 2}
TwoAccounts  == {a1, a2}
TwoRequests  == {r1, r2}

Symmetry == Permutations(Account) \cup Permutations(Request) \cup Permutations(Instance)
=============================================================================
