\* Requests about one session, and the decisions of gate checks.
SPECIFICATION Spec
CONSTANTS
  None = None
  Scenario <- MCScenario
  Worker = {w1, w2}
  Id = {i1}
  Key = {k1}
  Call = {c1}
  MaxEntries = 2
INVARIANTS SessionsHold  ClaudeFollowsLive VerdictsAudited
PROPERTIES EndedIsFinal
SYMMETRY Symmetric
CHECK_DEADLOCK FALSE
