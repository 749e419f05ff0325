--------------------------- MODULE MCGroupPolicy ---------------------------
(* Instances of GroupPolicy for TLC. *)
EXTENDS GroupPolicy, MCPolicyLayers

\* Every bundle and session, over one content of the files ...
EveryBundle ==
  /\ mode = "enforce" /\ daemon = <<>> /\ daemonMode = "firewall"
  /\ gates = [g \in Group |-> IF g = "compliance" THEN <<G("fs", "", 0, Denies)>>
                             ELSE <<G("fs", "", 0, Allows)>>]
  /\ personal = <<>>
\* ... and every content of the files, over one group and its user.
OneBundle ==
  /\ inherits = [g \in Group |-> <<>>] /\ session = <<"default">>
  /\ gates = [g \in Group |-> <<>>] /\ personal = <<>>

Edited == inherits = [g \in Group |-> <<>>] /\ session = <<"default">> /\ gates["compliance"] = <<>>

MCInit == (EveryBundle \/ OneBundle) /\ GroupInit
MCNext == GroupNext /\ (decided => Edited)
MCSpec == MCInit /\ [][MCNext]_allVars /\ WF_allVars(Walking(Walk!Next))
=============================================================================
