------------------------- MODULE MC_WebhookDelivery -------------------------
(* Instances of WebhookDelivery for TLC.                                   *)
EXTENDS WebhookDelivery

CONSTANTS u1, u2, a1, a2, s1, s2, s3

Users    == {u1, u2}
Accounts == {a1, a2}
TwoSubs   == {s1, s2}
ThreeSubs == {s1, s2, s3}
OneWatcher == {a2}

\* One subscription of each user; the third is of an older version.
SubOwner == [s \in SubID |-> CASE s = s1 -> u1 [] s = s2 -> u2 [] s = s3 -> NoUser]
SubRoles == [s \in SubID |-> CASE s = s1 -> <<"watcher", "reporter">>
                               [] s = s2 -> <<"assignee", "reporter">>
                               [] s = s3 -> <<>>]
=============================================================================
