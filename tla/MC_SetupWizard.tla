--------------------------- MODULE MC_SetupWizard ---------------------------
(* An instance of SetupWizard for TLC: an administrator and another user,  *)
(* a Jira server and a Jira Cloud instance.                                *)
EXTENDS SetupWizard

CONSTANTS u1, u2, s1, c1

TwoUsers == {u1, u2}
OneAdmin == {u1}
OneServer == {s1}
OneCloud == {c1}
=============================================================================
