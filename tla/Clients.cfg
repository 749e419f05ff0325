SPECIFICATION ClientsFairSpec
CONSTANTS
  None = None
  Rows = 2
  Buffer = 4
  GateId = {g1, g2}
  PolicyMode = "enforce"
  Catalog <- MCCatalog
  Enforceable = {"safety", "jailbreak"}
  LedgerKind <- MCLedgerKind
  Text = {"r1"}
  SessionList <- MCSessions
  Focus = {"stats", "events", "guardrails", "sessions", "gates", "mode"}
  MaxFlight = 2
  MaxChanges <- MCChanges
  MaxLedger = 2
  MaxFlows = 1
  MaxLines = 3
  ServerIds = {2}
  MaxRequests = 3
  Process = {p1, p2}
  Passphrase = {"p", "q"}
  kyTogether <- MCTogether
  MaxKeys = 2
  Caller = {c1}
  Upstream = "openagentlock/rules"
  Other = "other"
  Client = {k1, k2}
  MaxTokens = 2
  MaySaveFail = TRUE
  Repairer = {"tui", "web"}
  Draft = "draft"
  Replacement = {"r1", "r2"}
  rpMaxEdits = 1
  wbEntry <- MCEntry
  wbCap = 4
  wbGate = {"g1", "g2"}
  wbDefault = "enforce"
  wbGuardrail = {"safety", "jailbreak"}
  wbMaxChanges = 2
  mcServer = {"s", "t"}
  mcPrint = {"f", "g"}
  mcEvaluator = {"e1", "e2"}
  mcMaxCalls = 2
  ckRows <- MCRows
  ckKind <- MCKind
  ckDisks <- MCDisks
  ckMaxChanges = 1
  gdCaller = {k1, k2}
  gdConfigured = {"nvidia", "openrouter"}
  gdEntry <- MCGuardrails
  gdChoices <- MCChoices
  gdMaxTraces = 1
  gdMaxCalls = 2
  gdMaxChanges = 1
INVARIANTS
  CursorOnScreen
  ShimFollowsDaemon
  ProxiesHold
  SignersHold
  RegistriesHold
  
  
  
  PinsHold
  CheckupHolds
  GuardrailsHold
PROPERTIES
  ClientsSettle
CHECK_DEADLOCK FALSE
