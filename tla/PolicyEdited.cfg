SPECIFICATION Spec
CONSTANTS
  g1 = g1
  g2 = g2
  g3 = g3
  Gate = {g1, g3}
  BadGate = {g3}
  Worker = {w1, w2}
  Session = {s1}
  MaxPins = 2
  InitialPolicy <- OneGate
  Kinds = {"add", "replace", "delete", "disable", "enable", "apply"}
  MaxSwaps = 3
  None = None
INVARIANTS LiveNeverAhead PinSurvivesOneEdit
PROPERTIES ImplementsEditedPolicy
CHECK_DEADLOCK FALSE
