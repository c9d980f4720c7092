----------------------------- MODULE MCTraffic -----------------------------
(* Instances of Traffic for TLC. *)
EXTENDS Traffic, TLC

CONSTANTS a, b, k1, k2

\* two connections of one client
OneClient == (k1 :> a) @@ (k2 :> a)

\* one connection of each of two clients
TwoClients == (k1 :> a) @@ (k2 :> b)

Chunks == {1}

ConnSymmetry == Permutations({k1, k2})
=============================================================================
