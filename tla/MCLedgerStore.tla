--------------------------- MODULE MCLedgerStore ----------------------------
(* Small instances of LedgerStore for TLC. *)
EXTENDS LedgerStore, TLC
=============================================================================
