---------------------------- MODULE MC_Instances ----------------------------
(* Instances of Instances for TLC.                                         *)
EXTENDS Instances, TLC

CONSTANTS i1, i2, a1, r1, r2

TwoInstances == {i1, i2}
OneAlias     == {a1}
TwoRequests  == {r1, r2}
SecondInstance == {i2}
NotMigrated  == {}

RequestSymmetry == Permutations(Request)
=============================================================================
