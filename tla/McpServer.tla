------------------------------ MODULE McpServer -----------------------------
(* `agentlock mcp-server` (cli/src/commands/mcp-server.ts): requests are read  *)
(* and answered one after the other; two tools ask the daemon.                 *)
EXTENDS Integers, Sequences, Selection

CONSTANT MaxRequests  \* lines the host sends

ASSUME ServerAssumption == MaxRequests \in Nat

VARIABLES
  svLines,    \* the methods of the lines received
  svAt,       \* the line being dispatched
  svWaiting,  \* whether it waits for the daemon
  svUp,       \* whether the daemon is reachable
  svOut       \* answers: [id, result]

svVars == <<svLines, svAt, svWaiting, svUp, svOut>>

TOOLS == {"agentlock_status", "agentlock_recent_decisions"}
Methods ==
  {"initialize", "tools/list", "shutdown", "unknown tool", "unknown method",
   "notifications/initialized", "unparsable"} \cup TOOLS

\* What dispatch answers at once; "" is silence.
dispatch ==
  [m \in Methods \ TOOLS |->
     CASE m \in {"initialize", "tools/list", "shutdown"}       -> "result"
       [] m \in {"notifications/initialized", "unparsable"}    -> ""
       [] OTHER                                                -> "error"]

Answer(result) ==
  /\ svOut' = IF result = "" THEN svOut ELSE Append(svOut, [id |-> svAt, result |-> result])
  /\ svAt' = svAt + 1

LineArrives ==
  /\ Len(svLines) < MaxRequests
  /\ \E m \in Methods : svLines' = Append(svLines, m)
  /\ UNCHANGED <<svAt, svWaiting, svUp, svOut>>

Dispatch ==
  /\ svAt <= Len(svLines) /\ ~svWaiting
  /\ IF svLines[svAt] \in TOOLS
       THEN svWaiting' = TRUE /\ UNCHANGED <<svAt, svOut>>
       ELSE Answer(dispatch[svLines[svAt]]) /\ UNCHANGED svWaiting
  /\ UNCHANGED <<svLines, svUp>>

\* The health of a daemon, or the error of its absence.
callStatus ==
  /\ svWaiting /\ svLines[svAt] = "agentlock_status"
  /\ Answer("text") /\ svWaiting' = FALSE
  /\ UNCHANGED <<svLines, svUp>>

\* The body of the tail is complete when the daemon ends the stream: it has no
\* limit parameter and follows the ledger for as long as it runs.
callRecentDecisions ==
  /\ svWaiting /\ svLines[svAt] = "agentlock_recent_decisions" /\ ~svUp
  /\ Answer("text") /\ svWaiting' = FALSE
  /\ UNCHANGED <<svLines, svUp>>

DaemonToggles ==
  /\ svUp' = ~svUp /\ UNCHANGED <<svLines, svAt, svWaiting, svOut>>

svInit == svLines = <<>> /\ svAt = 1 /\ svWaiting = FALSE /\ svUp = TRUE /\ svOut = <<>>
ServerSteps == Dispatch \/ callStatus \/ callRecentDecisions
svNext == LineArrives \/ ServerSteps \/ DaemonToggles
svSpec == svInit /\ [][svNext]_svVars

-----------------------------------------------------------------------------
\* Every request that has been passed has its answer, one, and answers come in
\* the order of the requests, also when one has to wait for the daemon.
AnswersInOrder ==
  LET passed == 1..(svAt - 1)
      wanted == {n \in passed : svLines[n] \notin {"notifications/initialized", "unparsable"}}
  IN  [i \in DOMAIN svOut |-> svOut[i].id] = Among([n \in passed |-> n], wanted)

\* Not so: "Return the last N entries from the OpenAgentLock ledger". With a
\* running daemon the second tool is never answered, nor is what follows it.
RequestsAnswered == \A n \in 1..MaxRequests : n \in DOMAIN svLines ~> svAt > n
=============================================================================
