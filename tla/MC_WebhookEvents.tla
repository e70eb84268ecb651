-------------------------- MODULE MC_WebhookEvents --------------------------
(* An instance of WebhookEvents for TLC: changelogs of up to two entries,  *)
(* subscriptions with up to two filters, two values.                       *)
EXTENDS WebhookEvents

CONSTANTS v1, v2

TwoValues == {v1, v2}
=============================================================================
