------------------------------- MODULE MCMux -------------------------------
(* Instances of Mux for TLC. *)
EXTENDS Mux

TwoEach == [e \in Ends |-> 2]
=============================================================================
