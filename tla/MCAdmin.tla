------------------------------ MODULE MCAdmin ------------------------------
(* An instance of Admin for TLC. *)
EXTENDS Admin

\* an outbound of its own, one that dials through another, and one that cannot be
\* built
SomeOutbounds ==
    {[tag |-> "y", kind |-> "block", via |-> None],
     [tag |-> "x", kind |-> "direct", via |-> "y"],
     [tag |-> "y", kind |-> "bad", via |-> None]}

\* a rule for one inbound, and one for all
SomeRules == {[tag |-> "y", inb |-> "a"], [tag |-> "x", inb |-> None]}

\* two requests of the routing tables, or three of Xray, or one of each
SomeWeights == [routing |-> 3, xray |-> 2]
=============================================================================
