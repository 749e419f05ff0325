----------------------------- MODULE DurableLog -----------------------------
(***************************************************************************)
(* What the ledger promises to its callers, with no file, no mutex and no  *)
(* chain: a log that only grows at its end, whose acknowledged positions   *)
(* are durable, and which a failure may shorten only behind everything     *)
(* that was acknowledged.  LedgerStore implements it.                      *)
(***************************************************************************)
EXTENDS Naturals, Sequences

CONSTANT Payload     \* what a caller asks to have recorded

VARIABLES
  log,       \* the payloads a reader of the ledger sees, in order
  durable,   \* how many of them no failure can take away any more
  acked      \* the positions whose writer was told that it succeeded

vars == <<log, durable, acked>>

Init ==
  /\ log = <<>>
  /\ durable = 0
  /\ acked = {}

\* A record becomes visible; its writer does not know yet.
Write(p) ==
  /\ log' = Append(log, p)
  /\ UNCHANGED <<durable, acked>>

\* Everything visible becomes durable and the newest writer is told so.
Commit ==
  /\ log # <<>>
  /\ Len(log) \notin acked
  /\ durable' = Len(log)
  /\ acked' = acked \cup {Len(log)}
  /\ UNCHANGED log

\* A failure drops records that were visible but not durable.
Lose(n) ==
  /\ n \in durable .. Len(log)
  /\ log' = SubSeq(log, 1, n)
  /\ UNCHANGED <<durable, acked>>

Next ==
  \/ \E p \in Payload : Write(p)
  \/ Commit
  \/ \E n \in durable .. Len(log) : Lose(n)

Spec == Init /\ [][Next]_vars

-----------------------------------------------------------------------------
\* No acknowledged record is ever lost, and none is ever altered.
AckedKept == acked \subseteq 1 .. Len(log)

AckedNeverAltered ==
  [][\A i \in acked : i \in DOMAIN log' /\ log'[i] = log[i]]_vars
=============================================================================
