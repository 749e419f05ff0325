\* Every chain of up to five entries after one change of any kind, its
\* verification, and every proof of it checked with every leaf and index.
SPECIFICATION AuditSpec
CONSTANTS
  Leaf <- MCLeaf
  MaxLeaves = 5
  MaxIndex = 5
  Payload = {"p1", "p2"}
  Sig = {"s1"}
  Verdict = {"allow"}
INVARIANTS ProofVerifies ProofsSound AuditIsRight
\* the audit is over
CHECK_DEADLOCK FALSE
