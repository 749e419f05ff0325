\* Every bundle of three groups, cyclic ones included, and for one bundle every
\* way to combine the files of a call.
SPECIFICATION MCSpec
CONSTANTS
  RuleId <- MCRuleId
  DaemonFile <- MCDaemonFile
  RepoFile <- MCRepoFile
  LayerFile <- MCLayerFile
  EditGate <- MCEditGate
  FileMode = {"monitor", "enforce"}
  Layers = 2
  MaxGates = 2
  Name = {"compliance", "default", "redteam", "ghost"}
  Group = {"compliance", "default", "redteam"}
  MaxParents = 2
  MaxRoots = 2
  Broken = {"redteam"}
INVARIANTS LayersInherited PrioritiesAreExplicit DeniesAreHeld
PROPERTIES Terminates
\* a call of a bundle that is not edited is decided once
CHECK_DEADLOCK FALSE
