----------------------------- MODULE DaemonLogin ----------------------------
(* The client of the CLI and of its dashboard (cli/src/util/api.ts), the login *)
(* commands, and the password mode of the daemon that they meet                *)
(* (control-plane/internal/auth, api/auth_http.go, api/router.go). A client is *)
(* also the name of the user that it creates.                                  *)
EXTENDS Naturals, FiniteSets

CONSTANTS Client, MaxTokens, MaySaveFail

ASSUME LoginAssumption == MaxTokens \in Nat /\ MaySaveFail \in BOOLEAN

VARIABLES
  lgUsers,    \* users in the daemon's memory
  lgDisk,     \* users in users.json
  lgTokens,   \* bearer tokens the daemon has issued and knows
  lgNext,     \* the next token
  lgClients,  \* [pc, token] of each client
  lgCreated,  \* users reported as created
  lgLast      \* the last request: whether admitted, handled, reported as done

lgVars == <<lgUsers, lgDisk, lgTokens, lgNext, lgClients, lgCreated, lgLast>>

NoToken == 0
Success == {200, 201, 204, 207}
Fn(carries, accepts, status) == [carries |-> carries, accepts |-> accepts, status |-> status]

-----------------------------------------------------------------------------
(* The functions of the client by what they do to a request and its answer:    *)
(* how the token travels, which statuses are taken for success, and which the  *)
(* daemon's handler answers when it has done what was asked.                   *)

TailCalls ==
  [f \in {"tailLedger"} |-> Fn("query", Success, {200})]

AuthCalls ==
  [f \in {"authMode", "authLogin", "authBootstrap", "authLogout", "health"} |->
     CASE f = "authBootstrap" -> Fn("none", {201}, {201})
       [] f = "authLogout"    -> Fn("header", Success \cup {401, 409, 500}, {200})
       [] OTHER               -> Fn("none", Success, {200})]

SessionCalls ==
  [f \in {"createSession", "checkGate", "endSession", "rotateSession", "ledgerRoot",
          "ledgerVerify", "createUnattestedSession"} |->
     CASE f \in {"createSession", "createUnattestedSession"} -> Fn("header", {201}, {201})
       [] f = "endSession"                                   -> Fn("header", {204}, {204})
       [] f \in {"checkGate", "rotateSession"}               -> Fn("header", {200}, {200})
       [] OTHER                                              -> Fn("header", Success, {200})]

\* An uninstallation that has left something behind is a 207.
InstallCalls ==
  [f \in {"installCapabilities", "installPlan", "installApply", "installUninstall",
          "installUninstallHarnesses"} |->
     CASE f = "installCapabilities"           -> Fn("none", Success, {200})
       [] f \in {"installPlan", "installApply"} -> Fn("header", Success, {200})
       [] OTHER                               -> Fn("header", Success \cup {207}, {200, 207})]

PolicyCalls ==
  [f \in {"listSessions", "getMode", "patchMode", "policyView", "installGateYAML",
          "deleteGate", "addGate", "patchGate"} |->
     Fn("header", Success, IF f \in {"installGateYAML", "addGate"} THEN {201} ELSE {200})]

ReportCalls ==
  [f \in {"ledgerInsights", "falsePositiveCase", "falsePositiveValidate", "falsePositiveApply",
          "guardrailProviders", "guardrailCatalog", "guardrailEnabled", "saveGuardrailEnabled",
          "guardrailTrace"} |-> Fn("header", Success, {200})]

apiClient ==
  LET tables == <<TailCalls, AuthCalls, SessionCalls, InstallCalls, PolicyCalls, ReportCalls>>
      In(f) == CHOOSE i \in DOMAIN tables : f \in DOMAIN tables[i]
  IN  [f \in UNION {DOMAIN tables[i] : i \in DOMAIN tables} |-> tables[In(f)][f]]

Public == {"health", "authLogin", "authBootstrap", "authMode"}

-----------------------------------------------------------------------------
(* The daemon: Middleware looks at the header alone, then the route decides.   *)

Admits(f, token) ==
  f \in Public \/ (apiClient[f].carries = "header" /\ token \in lgTokens)

Moves(c, pc) == lgClients' = [lgClients EXCEPT ![c].pc = pc]
lgAt(c, pc) == lgClients[c].pc = pc
QuietCall == UNCHANGED lgLast

\* Any function, with the token that the client has; the handler may refuse.
ClientCalls(c) ==
  /\ lgAt(c, "ready")
  /\ \E f \in DOMAIN apiClient \ {"authLogin", "authBootstrap", "authLogout"} :
     LET admitted == Admits(f, lgClients[c].token) IN
     \E status \in IF admitted THEN apiClient[f].status \cup {409, 500} ELSE {401} :
       lgLast' = [admitted |-> admitted, done |-> status \in apiClient[f].status,
                  reported |-> status \in apiClient[f].accepts]
  /\ UNCHANGED <<lgUsers, lgDisk, lgTokens, lgNext, lgClients, lgCreated>>

\* Mutant: the users are counted before the mutex is taken, and not under it.
authBootstrapHandler_Unchecked(c) ==
  \/ /\ lgAt(c, "bootstrap")
     /\ Moves(c, IF lgUsers # {} THEN "exit" ELSE "inside")
     /\ UNCHANGED <<lgUsers, lgDisk, lgCreated>>
  \/ /\ lgAt(c, "inside")
     /\ lgUsers' = lgUsers \cup {c} /\ lgDisk' = lgUsers \cup {c}
     /\ lgCreated' = lgCreated \cup {c} /\ Moves(c, "login")

\* The handler counts the users before it takes the request, and Bootstrap again
\* under the mutex; the user is in memory before the file is written.
authBootstrapHandler(c) ==
  \/ /\ lgAt(c, "bootstrap")
     /\ Moves(c, IF lgUsers # {} THEN "exit" ELSE "inside")
     /\ UNCHANGED <<lgUsers, lgDisk, lgCreated>>
  \/ /\ lgAt(c, "inside")
     /\ \/ /\ lgUsers # {} /\ Moves(c, "exit")
           /\ UNCHANGED <<lgUsers, lgDisk, lgCreated>>
        \/ /\ lgUsers = {} /\ lgUsers' = {c} /\ lgDisk' = {c}
           /\ lgCreated' = lgCreated \cup {c} /\ Moves(c, "login")
        \/ /\ lgUsers = {} /\ MaySaveFail /\ lgUsers' = {c}
           /\ Moves(c, "exit") /\ UNCHANGED <<lgDisk, lgCreated>>

authLoginHandler(c) ==
  /\ lgAt(c, "login") /\ lgNext <= MaxTokens
  /\ \/ /\ lgUsers # {}
        /\ lgTokens' = lgTokens \cup {lgNext} /\ lgNext' = lgNext + 1
        /\ lgClients' = [lgClients EXCEPT ![c] = [pc |-> "ready", token |-> lgNext]]
     \/ Moves(c, "exit") /\ UNCHANGED <<lgTokens, lgNext>>
  /\ UNCHANGED <<lgUsers, lgDisk, lgCreated>> /\ QuietCall

\* The token is forgotten here whether or not the daemon has heard of it.
authLogout(c) ==
  /\ lgAt(c, "ready") /\ lgClients[c].token # NoToken
  /\ lgTokens' \in {lgTokens, lgTokens \ {lgClients[c].token}}
  /\ lgClients' = [lgClients EXCEPT ![c].token = NoToken]
  /\ UNCHANGED <<lgUsers, lgDisk, lgNext, lgCreated>> /\ QuietCall

\* `agentlock login`, with or without --bootstrap: the mode is asked first.
runLogin(c) ==
  /\ lgAt(c, "exit")
  /\ \/ lgUsers = {} /\ Moves(c, "bootstrap")
     \/ Moves(c, "login")
     \/ UNCHANGED lgClients
  /\ UNCHANGED <<lgUsers, lgDisk, lgTokens, lgNext, lgCreated>> /\ QuietCall

\* `agentlock dashboard`: a client without a token logs in, or stops when there
\* are no users; one with a token, good or not, goes on.
runDashboard(c) ==
  /\ lgAt(c, "exit")
  /\ IF lgClients[c].token # NoToken THEN Moves(c, "ready")
     ELSE lgUsers # {} /\ Moves(c, "login")
  /\ UNCHANGED <<lgUsers, lgDisk, lgTokens, lgNext, lgCreated>> /\ QuietCall

ClientEnds(c) ==
  /\ lgAt(c, "ready") /\ Moves(c, "exit")
  /\ UNCHANGED <<lgUsers, lgDisk, lgTokens, lgNext, lgCreated>> /\ QuietCall

TokenExpires ==
  /\ \E t \in lgTokens : lgTokens' = lgTokens \ {t}
  /\ UNCHANGED <<lgUsers, lgDisk, lgNext, lgClients, lgCreated>> /\ QuietCall

\* The daemon starts again with the users of the file and without tokens.
DaemonRestarts ==
  /\ lgUsers' = lgDisk /\ lgTokens' = {}
  /\ UNCHANGED <<lgDisk, lgNext, lgClients, lgCreated>> /\ QuietCall

lgInit ==
  /\ lgUsers = {} /\ lgDisk = {} /\ lgTokens = {} /\ lgNext = 1 /\ lgCreated = {}
  /\ lgClients = [c \in Client |-> [pc |-> "exit", token |-> NoToken]]
  /\ lgLast = [admitted |-> TRUE, done |-> TRUE, reported |-> TRUE]

lgNextStep ==
  \/ TokenExpires \/ DaemonRestarts
  \/ \E c \in Client :
       \/ ClientCalls(c) \/ authLoginHandler(c) \/ authLogout(c)
       \/ authBootstrapHandler(c) /\ UNCHANGED <<lgTokens, lgNext>> /\ QuietCall
       \/ runLogin(c) \/ runDashboard(c) \/ ClientEnds(c)

lgSpec == lgInit /\ [][lgNextStep]_lgVars

-----------------------------------------------------------------------------
\* However many clients bootstrap at once and whenever the daemon restarts: there
\* is one first user at most, and who was told "created user" still is one
\* (authBootstrapHandler, Bootstrap, load).
OneFirstUser ==
  /\ Cardinality(lgUsers) <= 1 /\ Cardinality(lgDisk) <= 1
  /\ lgCreated \subseteq lgDisk \cap lgUsers

\* A function of the client returns exactly when the daemon has done what it was
\* asked, and nothing is done for a request without a token that is still known,
\* but for the public paths (the status checks of api.ts, Middleware).
ReportsAreTrue ==
  /\ lgLast.reported <=> lgLast.done
  /\ lgLast.done => lgLast.admitted

LoginHolds == OneFirstUser /\ ReportsAreTrue

\* Not so: "the token rides as a query param. The daemon accepts both". Under a
\* password the tail is refused to everyone, and so is installCapabilities.
TokenAdmits ==
  \A f \in DOMAIN apiClient, t \in lgTokens : Admits(f, t)

\* Not so when the file cannot be written: a failed bootstrap creates nobody.
FailedBootstrapCreatesNobody == lgUsers \subseteq lgCreated
=============================================================================
