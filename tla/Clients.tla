------------------------------- MODULE Clients -------------------------------
(* The programs around the daemon, side by side: hook shims, MCP proxy and     *)
(* server, the dashboards, sessions and signers, registries, login, repairs,   *)
(* pins, checkups, and the guardrails. They meet only in the daemon's gate,    *)
(* which each takes as the source or the reader of any answer: a behaviour is  *)
(* about one of them, and the others stay as they were. One run checks them    *)
(* all, and its size is the sum of theirs.                                     *)
EXTENDS TuiDashboard, HookShim, McpProxy, McpServer, SessionKeys, RulesRegistry,
        DaemonLogin, RepairClients, WebDashboard, McpPins, Checkup, Guardrails

VARIABLE part   \* the program that this behaviour is about

partVars == <<part, vars, hkVars, pxVars, svVars, kyVars, rgVars, lgVars, rpVars, wbVars, mcVars, ckVars, gdVars>>

Part == {"tui", "hooks", "proxy", "server", "keys", "rules", "login", "repair", "web", "pins", "checkup",
         "guardrails"}

\* A program that a behaviour is not about starts in one of its states.
Inits ==
  /\ Init /\ hkInit /\ pxInit /\ svInit /\ kyInit /\ rgInit /\ lgInit /\ rpInit /\ wbInit /\ mcInit /\ ckInit /\ gdInit
  /\ part # "tui" => focus = (CHOOSE f \in Focus : TRUE)
  /\ part # "keys" => kyTiers = (CHOOSE t \in kyTogether : TRUE)
  /\ part # "web" => wbTab = "events"
  /\ part # "checkup" =>
       /\ ckDisk = [h \in ckHarness |-> CHOOSE c \in ckDisks[h] : TRUE]
       /\ ckDaemon = [up |-> TRUE, sound |-> TRUE] /\ ckCommand = "status"
  /\ part # "guardrails" => gdEnabled = (CHOOSE l \in gdChoices : TRUE)

Only(p) ==
  /\ part = p /\ UNCHANGED part
  /\ p # "tui" => UNCHANGED vars
  /\ p # "hooks" => UNCHANGED hkVars
  /\ p # "proxy" => UNCHANGED pxVars
  /\ p # "server" => UNCHANGED svVars
  /\ p # "keys" => UNCHANGED kyVars
  /\ p # "rules" => UNCHANGED rgVars
  /\ p # "login" => UNCHANGED lgVars
  /\ p # "repair" => UNCHANGED rpVars
  /\ p # "web" => UNCHANGED wbVars
  /\ p # "pins" => UNCHANGED mcVars
  /\ p # "checkup" => UNCHANGED ckVars
  /\ p # "guardrails" => UNCHANGED gdVars

ClientsInit == part \in Part /\ Inits

ClientsNext ==
  \/ Only("tui") /\ Next
  \/ Only("hooks") /\ hkNext
  \/ Only("proxy") /\ pxNext
  \/ Only("server") /\ svNext
  \/ Only("keys") /\ kyNextStep
  \/ Only("rules") /\ rgNext
  \/ Only("login") /\ lgNextStep
  \/ Only("repair") /\ rpNext
  \/ Only("web") /\ wbNext
  \/ Only("pins") /\ mcNext
  \/ Only("checkup") /\ ckNext
  \/ Only("guardrails") /\ gdNext

ClientsSpec == ClientsInit /\ [][ClientsNext]_partVars

\* The fairness of the dashboards and of the proxy.
ClientsFairSpec ==
  /\ ClientsSpec
  /\ WF_partVars(Only("tui") /\ Network) /\ WF_partVars(Only("tui") /\ Tick)
  /\ WF_partVars(Only("tui") /\ Connect) /\ WF_partVars(Only("tui") /\ readSSE)
  /\ WF_partVars(Only("web") /\ StreamOpens) /\ WF_partVars(Only("web") /\ EntryArrives)
  /\ WF_partVars(Only("web") /\ wbAnswers) /\ WF_partVars(Only("web") /\ usePoll)
  /\ WF_partVars(Only("proxy") /\ ProxySteps)

-----------------------------------------------------------------------------
\* The two MCP processes: order, answers and refusals of the proxy, and answers
\* of the server (mcp-proxy.ts, mcp-server.ts).
ProxiesHold == ProxyHolds /\ AnswersInOrder

\* When edits, failures and reconnections are over, both dashboards come to show
\* what the daemon has and stay so: late answers, optimistic toggles and their
\* rollback, a changed window, a stream that starts again (the polls, the refresh
\* after an edit, the tail). The proxy deals with every line and then passes the
\* end of its input on, in that order: its chain of lines never stops, whatever
\* the daemon answers, provided that it answers or fails (fetch has no limit).
ClientsSettle ==
  <>[](/\ part = "tui" => Fresh
       /\ part = "web" => wbFresh
       /\ part = "proxy" => LinesSettled)
=============================================================================
