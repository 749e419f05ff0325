--------------------------- MODULE MCCursorHooks ----------------------------
(* Instances of CursorHooks for TLC. *)
EXTENDS CursorHooks, TLC

Symmetric == Permutations(Worker)
=============================================================================
