-------------------------- MODULE MC_ConnectFlows --------------------------
(* Instances of ConnectFlows for TLC.                                      *)
EXTENDS ConnectFlows, TLC

CONSTANTS u1, u2, r1, r2, server, oauth, connect

MCType == [i \in Instance |-> CASE i = server  -> "server"
                                [] i = oauth   -> "oauth"
                                [] i = connect -> "jwt"]

Symmetry == Permutations(User) \cup Permutations(Request)
=============================================================================
