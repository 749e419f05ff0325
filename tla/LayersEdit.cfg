\* group-policy.md: priority gates, after an edit of another gate
SPECIFICATION Spec
CONSTANTS
  RuleId <- MCRuleId
  DaemonFile <- MCDaemonFile
  RepoFile <- PlainRepoFile
  LayerFile <- PlainLayerFile
  EditGate <- OtherEditGate
  FileMode = {"monitor", "enforce"}
  Layers = 2
  MaxGates = 2
PROPERTY AddKeepsGates
