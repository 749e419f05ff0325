-------------------------- MODULE MCPolicyLayers --------------------------
EXTENDS PolicyLayers

G(id, m, p, evals) ==
  [id |-> id, mode |-> m, disabled |-> FALSE, priority |-> p, evals |-> evals]

Denies == <<"always deny">>
Allows == <<"always allow">>
MCRuleId == {"net", "fs"}

\* "net" may be shared between layers with a priority, "fs" never is.
Files(prio, modes) ==
  {<<>>}
  \cup {<<G("fs", m, 0, e)>> : m \in modes, e \in {Denies, Allows, <<"allow">>}}
  \cup {<<G("net", m, p, e)>> : m \in modes, p \in prio, e \in {Denies, <<"allow">>}}

MCDaemonFile ==
  {<<>>, <<G("fs", "", 0, Denies)>>, <<G("net", "", 1, Denies)>>,
   <<G("fs", "", 0, <<"skip">>), G("net", "monitor", 1, Denies)>>,
   <<G("net", "", 2, <<"allow">>), G("fs", "enforce", 0, Denies)>>}
MCRepoFile ==
  {<<>>, <<G("fs", "enforce", 0, <<"allow">>)>>, <<G("net", "monitor", 0, Denies)>>,
   <<G("net", "", 0, <<"skip", "always allow">>)>>, <<G("net", "", 2, <<"allow">>)>>,
   <<G("fs", "", 0, Allows), G("net", "", 0, Denies)>>}
MCLayerFile ==
  {<<>>, <<G("fs", "", 0, Denies)>>, <<G("fs", "", 0, Allows)>>}
  \cup {<<G("net", "", p, e)>> : p \in {1, 2}, e \in {Denies, Allows}}
MCEditGate == {G("net", "monitor", 2, <<"allow">>)}

OtherEditGate == {G("fs", "", 0, Denies)}

\* for the runs about what the documentation says
PlainLayerFile == Files({0}, {""})
PlainRepoFile == Files({0}, {"", "monitor"})
=============================================================================
