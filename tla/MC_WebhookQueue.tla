-------------------------- MODULE MC_WebhookQueue ---------------------------
(* Instances of WebhookQueue for TLC.                                      *)
EXTENDS WebhookQueue

CONSTANTS d1, d2, d3, s1, s2, w1, w2

ThreeDeliveries == {d1, d2, d3}
OneServer       == {s1}
TwoServers      == {s1, s2}
OneWorker       == {w1}
TwoWorkers      == {w1, w2}
NoWorker        == {}
=============================================================================
