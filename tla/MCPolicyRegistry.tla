-------------------------- MODULE MCPolicyRegistry --------------------------
(* Instances of PolicyRegistry for TLC. *)
EXTENDS PolicyRegistry, TLC

CONSTANTS g1, g2, g3

\* The file at the first start: g1 alone.
OneGate == [g \in Gate |-> IF g = g1 THEN "on" ELSE "absent"]

\* The file at the first start: every gate.
AllGates == [g \in Gate |-> "on"]
=============================================================================
