---------------------------- MODULE EditedPolicy ----------------------------
(***************************************************************************)
(* What the policy endpoints promise, with no mutex, no file and no        *)
(* registry: one policy, changed by one whole edit at a time, each edit    *)
(* computed from the policy it replaces.  PolicyRegistry implements it.    *)
(***************************************************************************)
EXTENDS PolicyEdits

VARIABLE policy

Init == policy \in {p \in Policy : Compiles(p)}

Edit(r) ==
  /\ CanEdit(r, policy)
  /\ Compiles(Edited(r, policy))
  /\ policy' = Edited(r, policy)

Next == \E r \in Request : Edit(r)

Spec == Init /\ [][Next]_policy
=============================================================================
