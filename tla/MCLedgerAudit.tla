--------------------------- MODULE MCLedgerAudit ----------------------------
(* Instances of LedgerAudit for TLC. *)
EXTENDS LedgerAudit

\* Every leaf of every chain.
MCLeaf ==
  UNION {UNION {ToSet(Leaves(Chain(a))) : a \in [1 .. n -> Unlinked]} : n \in 1 .. MaxLeaves}
=============================================================================
