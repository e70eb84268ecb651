---------------------- MODULE MC_SubscriptionRequests -----------------------
(* Instances of SubscriptionRequests for TLC.                              *)
EXTENDS SubscriptionRequests, TLC

CONSTANTS r1, r2, s1, s2, u1, u2, n1, n2, e1, e2

TwoRequests   == {r1, r2}
TwoSubIDs     == {s1, s2}
OneUser       == {u1}
TwoUsers      == {u1, u2}
OneName       == {n1}
TwoNames      == {n1, n2}
OneEvent      == {e1}
TwoEvents     == {e1, e2}
OneEventSet   == {{e1}}
TwoEventSets  == {{e1}, {e1, e2}}

\* A user's direct channel with the bot is the user's own.
OwnChannel == [u \in User |-> u]

RequestSymmetry == Permutations(Request) \cup Permutations(SubID)
DataSymmetry    == RequestSymmetry \cup Permutations(Name)
=============================================================================
