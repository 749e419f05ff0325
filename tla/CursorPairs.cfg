\* Events of a call with an id and of one without, two at a time, with policy
\* edits, mode changes, expiries, restarts and failing appends.
SPECIFICATION Spec
CONSTANTS
  None = None
  Call = {c1, c2}
  Anonymous = {c2}
  Worker = {w1, w2}
  Overlap = FALSE
  MayFail = TRUE
  MaxEvents = 3
  MaxDisturb = 1
INVARIANTS PairIsOneCall AnswersAudited
SYMMETRY Symmetric
\* the bound on events
CHECK_DEADLOCK FALSE
