----------------------------- MODULE MCInbounds -----------------------------
(* Instances of Inbounds for TLC. *)
EXTENDS Inbounds

CONSTANTS a, b, c

\* every inbound has a path of its own
OwnPaths == [i \in Inbounds |-> i]
=============================================================================
