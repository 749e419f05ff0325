----------------------------- MODULE MCGateFlow -----------------------------
(* Instances of GateFlow for TLC. *)
EXTENDS GateFlow, TLC

\* Two requests about one session, of every kind but the desktop hooks, with an
\* edit of a policy that decides nothing of interest and a restart ...
Sessions ==
  [kinds |-> {"check", "claude", "observe", "stop", "create", "unattested", "rotate", "end"},
   outcome |-> <<"allow", "allow">>, modes |-> {}, fails |-> FALSE, guarded |-> FALSE, restarts |-> 1]

\* ... and decisions under a policy for every kind of result, while the mode is
\* flipped, appends fail and a guardrail denies.
Verdicts ==
  [kinds |-> {"check", "codex"}, outcome |-> <<"deny", "monitored", "matched", "allow">>,
   modes |-> {"", "monitor"}, fails |-> TRUE, guarded |-> TRUE, restarts |-> 0]

MCScenario == {Sessions, Verdicts}

Symmetric == Permutations(Worker)
=============================================================================
