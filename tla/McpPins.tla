------------------------------- MODULE McpPins -------------------------------
(* Pins of MCP servers: the pin-tofu evaluators (internal/policy/policy.go),   *)
(* the check, accept and refuse endpoints (internal/api/mcp.go), and the page  *)
(* on which a user answers (dashboard-ui/src/routes/mcp.tsx). One file holds   *)
(* the pins, one the open questions. An evaluator has a mutex of its own, the  *)
(* endpoints share another: both read the pin file, and write it later.        *)
EXTENDS Integers, Sequences

CONSTANTS
  mcServer, mcPrint,     \* servers and the fingerprints they may show
  mcEvaluator,           \* pin-tofu evaluators: one for every policy in memory
  mcMaxCalls             \* bound: gate calls and checks

ASSUME McpAssumption == mcMaxCalls \in Nat

VARIABLES
  mcPins,      \* the pin file: server -> set of at most one fingerprint
  mcRows,      \* the file of open questions: [server, print]
  mcEval,      \* evaluator -> {} or {[row, read]}: between its read and its write
  mcAccepting, \* {} or {[row, read]}: the accept that holds pinFileMu
  mcPage,      \* [rows, selected, acting]: what the page shows and does
  mcRequests,  \* requests of the page on their way
  mcTold,      \* history: pins read as missing, pins shown to a user and accepted
  mcAsked,     \* history: questions asked and not answered
  mcCalls

mcVars == <<mcPins, mcRows, mcEval, mcAccepting, mcPage, mcRequests, mcTold, mcAsked, mcCalls>>

mcRow == [server : mcServer, print : mcPrint]
Pinned(pins, r) == r.print \in pins[r.server]
mcAnswer(q, how) == mcRequests' = (mcRequests \ {q}) \cup {[q EXCEPT !.answer = how]}
Calls == mcCalls < mcMaxCalls /\ mcCalls' = mcCalls + 1

-----------------------------------------------------------------------------
(* The gate. *)

\* Evaluate: a server without a pin is pinned by the write below; the pin of any
\* other is compared and stays.
Evaluate(e) ==
  /\ mcEval[e] = {} /\ Calls
  /\ \E r \in mcRow : mcPins[r.server] = {} /\
       /\ mcEval' = [mcEval EXCEPT ![e] = {[row |-> r, read |-> mcPins]}]
       /\ mcTold' = mcTold \cup {r}
  /\ UNCHANGED <<mcPins, mcRows, mcAccepting, mcPage, mcRequests, mcAsked>>

WritePin(pins, r) == [pins EXCEPT ![r.server] = {r.print}]

writePinStore(e) ==
  /\ \E w \in mcEval[e] : mcPins' = WritePin(w.read, w.row)
  /\ mcEval' = [mcEval EXCEPT ![e] = {}]
  /\ UNCHANGED <<mcRows, mcAccepting, mcPage, mcRequests, mcTold, mcAsked, mcCalls>>

-----------------------------------------------------------------------------
(* The endpoints; each waits for pinFileMu. *)

\* Mutant: one row for a server, whatever its fingerprint.
upsertPendingMCPPin_ByServer(rows, r) == {q \in rows : q.server # r.server} \cup {r}

upsertPendingMCPPin(rows, r) == rows \cup {r}

mcpPinCheck ==
  /\ mcAccepting = {} /\ Calls
  /\ \E r \in mcRow :
       IF Pinned(mcPins, r)
         THEN mcRows' = mcRows \ {r} /\ mcAsked' = mcAsked \ {r}
         ELSE mcRows' = upsertPendingMCPPin(mcRows, r) /\ mcAsked' = mcAsked \cup {r}
  /\ UNCHANGED <<mcPins, mcEval, mcAccepting, mcPage, mcRequests, mcTold>>

\* The handler does not look for an open question: it pins what it is sent.
mcpPinAccept ==
  /\ mcAccepting = {}
  /\ \E q \in mcRequests :
       /\ q.action = "accept" /\ q.answer = ""
       /\ mcAccepting' = {[row |-> q.row, read |-> mcPins]}
  /\ UNCHANGED <<mcPins, mcRows, mcEval, mcPage, mcRequests, mcTold, mcAsked, mcCalls>>

\* writePins, then removePendingMCPPin; the second write may fail.
mcpPinAccepted ==
  \E w \in mcAccepting, q \in mcRequests :
    /\ q.action = "accept" /\ q.answer = "" /\ q.row = w.row
    /\ mcPins' = WritePin(w.read, w.row)
    /\ \/ /\ mcRows' = mcRows \ {w.row} /\ mcAsked' = mcAsked \ {w.row}
          /\ mcAnswer(q, "ok")
       \/ UNCHANGED <<mcRows, mcAsked>> /\ mcAnswer(q, "failed")
    /\ mcAccepting' = {}
    /\ UNCHANGED <<mcEval, mcPage, mcTold, mcCalls>>

mcpPinRefuse ==
  /\ mcAccepting = {}
  /\ \E q \in mcRequests :
       /\ q.action = "refuse" /\ q.answer = ""
       /\ mcRows' = mcRows \ {q.row} /\ mcAsked' = mcAsked \ {q.row}
       /\ mcAnswer(q, "ok")
  /\ UNCHANGED <<mcPins, mcEval, mcAccepting, mcPage, mcTold, mcCalls>>

-----------------------------------------------------------------------------
(* The page. *)

\* The poll: the questions, as they are now.
useMCPPins ==
  /\ mcPage' = [mcPage EXCEPT !.rows = mcRows]
  /\ mcPage' # mcPage
  /\ UNCHANGED <<mcPins, mcRows, mcEval, mcAccepting, mcRequests, mcTold, mcAsked, mcCalls>>

\* The dialog keeps the row it was opened for.
Details ==
  /\ \/ mcPage.selected = {} /\ \E r \in mcPage.rows : mcPage' = [mcPage EXCEPT !.selected = {r}]
     \/ mcPage.selected # {} /\ mcPage' = [mcPage EXCEPT !.selected = {}]
  /\ UNCHANGED <<mcPins, mcRows, mcEval, mcAccepting, mcRequests, mcTold, mcAsked, mcCalls>>

\* act: from a row while nothing else is going on, from the dialog at any time.
act ==
  /\ \E r \in mcRow, a \in {"accept", "refuse"} :
       /\ r \in mcPage.selected \/ (r \in mcPage.rows /\ ~mcPage.acting)
       /\ \A q \in mcRequests : q.row # r
       /\ mcRequests' = mcRequests \cup {[action |-> a, row |-> r, answer |-> ""]}
       /\ mcTold' = IF a = "accept" THEN mcTold \cup {r} ELSE mcTold
  /\ mcPage' = [mcPage EXCEPT !.acting = TRUE]
  /\ UNCHANGED <<mcPins, mcRows, mcEval, mcAccepting, mcAsked, mcCalls>>

\* The answer, the refresh, and the end of the dialog; an error leaves it open.
Acted ==
  \E q \in mcRequests :
    /\ q.answer # "" /\ mcRequests' = mcRequests \ {q}
    /\ mcPage' = IF q.answer = "ok" THEN [rows |-> mcRows, selected |-> {}, acting |-> FALSE]
                 ELSE [mcPage EXCEPT !.acting = FALSE]
    /\ UNCHANGED <<mcPins, mcRows, mcEval, mcAccepting, mcTold, mcAsked, mcCalls>>

-----------------------------------------------------------------------------
mcInit ==
  /\ mcPins = [s \in mcServer |-> {}] /\ mcRows = {}
  /\ mcEval = [e \in mcEvaluator |-> {}] /\ mcAccepting = {}
  /\ mcPage = [rows |-> {}, selected |-> {}, acting |-> FALSE]
  /\ mcRequests = {} /\ mcTold = {} /\ mcAsked = {} /\ mcCalls = 0

mcNext ==
  \/ \E e \in mcEvaluator : Evaluate(e) \/ writePinStore(e)
  \/ mcpPinCheck \/ mcpPinAccept \/ mcpPinAccepted \/ mcpPinRefuse
  \/ useMCPPins \/ Details \/ act \/ Acted

mcSpec == mcInit /\ [][mcNext]_mcVars

-----------------------------------------------------------------------------
\* Whatever writes overwrite each other, the file never holds a pin out of the
\* blue: a gate saw it when the server had none, or a user was shown that very
\* fingerprint and accepted it, also in a dialog that was open while it changed.
PinsAreTold == \A r \in mcRow : Pinned(mcPins, r) => r \in mcTold

\* A question that was asked stays on file until it is answered: no other check,
\* answer or gate drops it.
QuestionsStay == mcAsked = mcRows

PinsHold == PinsAreTold /\ QuestionsStay
=============================================================================
