------------------------------- MODULE MCGnp -------------------------------
(* Instances of Gnp for TLC. *)
EXTENDS Gnp

\* 104 characters: the JSON of the default settings of an inbound
DefaultSettings == {104}

\* none, and one that is truncated
SomeAgents == {0, 150}
=============================================================================
