---------------------------- MODULE PolicyEdits -----------------------------
(***************************************************************************)
(* What each policy edit does to the YAML form of a policy: the mutation   *)
(* callbacks of control-plane/internal/api/policy_crud.go and              *)
(* false_positive.go.  A policy is identified with its bytes, hence with   *)
(* its hash; of the bytes the model keeps which gates there are and        *)
(* whether they are disabled.                                              *)
(***************************************************************************)
EXTENDS Naturals

CONSTANTS
  Gate,       \* gate ids
  BadGate     \* gates whose block does not compile (a bad regex, no criteria)

ASSUME GateAssumption == BadGate \subseteq Gate

Policy == [Gate -> {"absent", "on", "disabled"}]

\* One record per endpoint.  "replace" is add_yaml with replace=true; "apply"
\* is false_positive.apply: disable gate, append by.
Request ==
  [kind : {"add", "replace", "delete", "disable", "enable"}, gate : Gate]
    \cup {r \in [kind : {"apply"}, gate : Gate, by : Gate] : r.gate # r.by}

Present(p) == {g \in Gate : p[g] # "absent"}

\* The callback returns no error.
CanEdit(r, p) ==
  \/ r.kind = "add" /\ r.gate \notin Present(p)
  \/ r.kind = "replace"
  \/ r.kind \in {"delete", "disable", "enable"} /\ r.gate \in Present(p)
  \/ r.kind = "apply" /\ r.gate \in Present(p) /\ r.by \notin Present(p)

Edited(r, p) ==
  [g \in Gate |->
    CASE g = r.gate /\ r.kind \in {"add", "replace", "enable"} -> "on"
      [] g = r.gate /\ r.kind = "delete" -> "absent"
      [] g = r.gate /\ r.kind \in {"disable", "apply"} -> "disabled"
      [] r.kind = "apply" /\ g = r.by -> "on"
      [] OTHER -> p[g]]

\* LoadBytes: every block, disabled or not, must compile.
Compiles(p) == Present(p) \cap BadGate = {}
=============================================================================
