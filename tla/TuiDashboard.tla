---------------------------- MODULE TuiDashboard ----------------------------
(* The terminal dashboard (cli/src/tui/dashboard.tsx): what it has last heard  *)
(* from the daemon, what its one key handler does with a key, and the requests *)
(* that are on their way. Answers arrive in any order. What is drawn is a      *)
(* function of this state and appears only where a key depends on it.          *)
EXTENDS Integers, Sequences, FiniteSets, SequencesExt, Selection

CONSTANTS
  None,
  Rows,         \* rows of a list that fit on the screen (VISIBLE_ROWS)
  Buffer,       \* ledger entries kept (500)
  GateId,
  PolicyMode,   \* "monitor" or "enforce", of the daemon's policy
  Catalog,      \* guardrails, in catalog order
  Enforceable,  \* those with runtime support
  LedgerKind,   \* [source, verdict, rule, monitor] of the entries that are written
  Text,         \* what may be typed as a rule filter
  SessionList,  \* harnesses of the sessions
  Focus,        \* the tabs whose data a behaviour may be about
  MaxFlight, MaxLedger, MaxFlows,   \* bounds
  MaxChanges    \* focus -> bound: edits, failures and lost connections

ASSUME DashboardAssumption ==
  /\ Rows \in Nat \ {0} /\ Buffer \in Nat
  /\ Focus \subseteq {"stats", "events", "guardrails", "sessions", "gates", "mode"}
  /\ Enforceable \subseteq {Catalog[i] : i \in DOMAIN Catalog}
  /\ IsFiniteSet(GateId)
  /\ Catalog \in Seq({Catalog[i] : i \in DOMAIN Catalog})
  /\ SessionList \in Seq({SessionList[i] : i \in DOMAIN SessionList})

VARIABLES
  daemon,   \* [gates, mode, enabled, sessions, ledger]
  seen,     \* the last answers heard, and the events received, newest first
  ui,       \* tab, cursor, scroll, filters, modals, the armed delete
  tail,     \* the event stream: [status, next], next entry to be sent
  flight,   \* requests and answers on their way
  flows,    \* editor and repair flows in progress
  focus,    \* the tab whose data change in this behaviour
  changes   \* edits, failures and connection losses so far, bounded

vars == <<daemon, seen, ui, tail, flight, flows, focus, changes>>

TABS == <<"stats", "events", "guardrails", "sessions", "gates", "mode">>
TabName == {TABS[i] : i \in DOMAIN TABS}
FILTER_FIELDS == <<"source", "verdict", "rule">>
NoText == ""
EMPTY_FILTERS ==
  [source |-> "", verdict |-> "", rule |-> "", internal |-> FALSE, outcomes |-> FALSE]
InsightWindow == {"1h", "24h"}

Ranges(s) == {s[i] : i \in DOMAIN s}
Clamped(x, max) == IF x < 0 THEN 0 ELSE IF x > max THEN max ELSE x

-----------------------------------------------------------------------------
(* What the handler and the panes derive from the state. *)

isOutcomeEntry(e) == e.verdict \in {"complete", "failure"}

INTERNAL_SOURCES == {"internal", "agentlock", ""}

canReportFalsePositive(e) ==
  /\ e.rule \notin {"", "default"}
  /\ ~isOutcomeEntry(e)
  /\ e.verdict = "deny" \/ e.monitor

filteredEvents ==
  LET f == ui.filters
      Passes(e) ==
        /\ ~isOutcomeEntry(e)
        /\ f.source \in {"", e.source}
        /\ f.verdict \in {"", e.verdict}
        /\ f.rule \in {"", e.rule}
        /\ f.internal \/ (e.source \notin INTERNAL_SOURCES /\ (e.rule # "" \/ e.monitor))
  IN  Among(seen.events, {e \in Ranges(seen.events) : Passes(e)})

eventFilterOptions(field) ==
  LET values == {e[field] : e \in {x \in Ranges(seen.events) : ~isOutcomeEntry(x)}}
  IN  <<"">> \o SetToSeq(values \ {""})

\* The handler is installed once and sees the sessions of the first render,
\* which has none; everything else it reads through a ref.
visibleSessions == <<>>

\* The list that each pane is given.
Listed(t) ==
  CASE t = "events"     -> filteredEvents
    [] t = "guardrails" -> seen.catalog
    [] t = "sessions"   -> Among(seen.sessions, {h \in Ranges(seen.sessions) : ui.showInternal \/ h # "internal"})
    [] t = "gates"      -> seen.policy
    [] OTHER            -> <<>>

\* The positions in that list that are drawn, and the one that is marked.
Drawn(t) == {i \in DOMAIN Listed(t) : ui.scroll[t] < i /\ i <= ui.scroll[t] + Rows}
Marked(t, i) == ui.cursor[t] = i - 1

\* A pane is a set of rows: what is shown of each in the order of the list.
EventsPane ==
  {[at |-> i, row |-> filteredEvents[i].seq, marked |-> Marked("events", i)] :
     i \in Drawn("events")}

SessionsPane ==
  {[at |-> i, row |-> Listed("sessions")[i], marked |-> Marked("sessions", i)] :
     i \in Drawn("sessions")}

GuardrailsPane ==
  {[at |-> i, row |-> seen.catalog[i], marked |-> Marked("guardrails", i),
    active |-> seen.catalog[i] \in seen.enabled] : i \in Drawn("guardrails")}

GatesPane ==
  {[at |-> i, row |-> seen.policy[i], marked |-> Marked("gates", i),
    armed |-> ui.pending = seen.policy[i].id] : i \in Drawn("gates")}

\* What the handler counts.
RowsOf(t) == IF t = "sessions" THEN visibleSessions ELSE Listed(t)

Selected(t) == IF ui.cursor[t] < Len(RowsOf(t)) THEN RowsOf(t)[ui.cursor[t] + 1] ELSE None

isGuardrailEnabled(entry) == entry \in seen.enabled

effectiveGateMode(g) == IF g.mode = "" THEN PolicyMode ELSE g.mode

\* The policy view of the daemon: modes are the effective ones.
PolicyView == [i \in DOMAIN daemon.gates |->
                 [daemon.gates[i] EXCEPT !.mode = effectiveGateMode(daemon.gates[i])]]

\* The YAML that the editor is opened on: the top-level summary of the match is
\* all that is written back, the evaluators by the names of their types.
serializeGateForEdit(g) ==
  [g EXCEPT !.match = IF @ = "nested" THEN "any" ELSE @]

-----------------------------------------------------------------------------
(* Requests. The answer is None until the daemon has handled the request. *)

Send(reqs) == flight' = flight \o reqs

Request(kind, arg) == [kind |-> kind, arg |-> arg, answer |-> None]

policyView == Request("policyView", None)
saveGuardrailEnabled(next, current) ==
  Request("saveGuardrailEnabled", [next |-> next, current |-> current])

\* Mutant: the enabled guardrails are asked for at the start alone.
Polls_OnceEnabled(what) ==
  CASE what = "mode"       -> <<Request("getMode", None)>>
    [] what = "sessions"   -> <<Request("listSessions", None)>>
    [] what = "gates"      -> <<policyView>>
    [] what = "stats"      -> <<Request("ledgerInsights", ui.window)>>
    [] OTHER               -> <<>>

\* What a poll asks for. The answers about other tabs' data say what is already
\* known, as those data do not change in this behaviour.
Polls(what) ==
  CASE what = "mode"       -> <<Request("getMode", None)>>
    [] what = "sessions"   -> <<Request("listSessions", None)>>
    [] what = "gates"      -> <<policyView>>
    [] what = "guardrails" -> <<Request("guardrailEnabled", None)>>
    [] what = "stats"      -> <<Request("ledgerInsights", ui.window)>>
    [] OTHER               -> <<>>

Room(n) == Len(flight) + n <= MaxFlight

GateIndex(id) == {i \in DOMAIN daemon.gates : daemon.gates[i].id = id}

\* The daemon's part of a request about one gate: its new gates, or None when it
\* refuses. A patch sends the absolute value.
GatesAfter(r) ==
  LET at == GateIndex(r.arg.id) IN
  CASE r.kind = "patchGate" /\ at # {} ->
         [daemon.gates EXCEPT ![CHOOSE i \in at : TRUE][r.arg.field] = r.arg.value]
    [] r.kind = "deleteGate" /\ at # {} -> RemoveAt(daemon.gates, CHOOSE i \in at : TRUE)
    [] OTHER -> None

\* The daemon answers a question with what it has now.
Handle(i) ==
  LET r == flight[i]
      answer == CASE r.kind = "getMode"          -> daemon.mode
                  [] r.kind = "patchMode"        -> r.arg
                  [] r.kind = "listSessions"     -> daemon.sessions
                  [] r.kind = "policyView"       -> PolicyView
                  [] r.kind = "guardrailEnabled" -> daemon.enabled
                  [] r.kind = "saveGuardrailEnabled" -> r.arg.next
                  [] r.kind = "ledgerInsights"   -> [window |-> r.arg, total |-> Len(daemon.ledger)]
  IN  /\ r.answer = None
      /\ r.kind \notin {"patchGate", "deleteGate"}
      /\ flight' = [flight EXCEPT ![i].answer = answer]
      /\ daemon' = CASE r.kind = "patchMode" -> [daemon EXCEPT !.mode = answer]
                     [] r.kind = "saveGuardrailEnabled" -> [daemon EXCEPT !.enabled = answer]
                     [] OTHER -> daemon
      /\ UNCHANGED <<seen, ui, tail, flows, focus, changes>>

\* An answer arrives and replaces what was shown.
Receive(i) ==
  LET r == flight[i] IN
  /\ r.answer # None
  /\ flight' = RemoveAt(flight, i)
  /\ seen' = CASE r.kind \in {"getMode", "patchMode"} -> [seen EXCEPT !.mode = r.answer]
               [] r.kind = "listSessions"   -> [seen EXCEPT !.sessions = r.answer]
               [] r.kind = "policyView"     -> [seen EXCEPT !.policy = r.answer]
               [] r.kind = "ledgerInsights" -> [seen EXCEPT !.insights = r.answer]
               [] OTHER                     -> [seen EXCEPT !.enabled = r.answer]
  /\ UNCHANGED <<daemon, ui, tail, flows, focus, changes>>

\* A gate request is handled and acknowledged; the view is asked for again.
GateEdited(i) ==
  LET r == flight[i] IN
  /\ r.kind \in {"patchGate", "deleteGate"}
  /\ LET after == GatesAfter(r) IN
     IF after = None
       THEN flight' = RemoveAt(flight, i) /\ UNCHANGED <<daemon, ui>>
       ELSE /\ daemon' = [daemon EXCEPT !.gates = after]
            /\ flight' = Append(RemoveAt(flight, i), policyView)
            /\ ui' = IF r.kind = "deleteGate" THEN [ui EXCEPT !.pending = None] ELSE ui
  /\ UNCHANGED <<seen, tail, flows, focus, changes>>

\* A request fails or its answer is lost. Only the optimistic guardrail toggle
\* has something to take back.
Fails(i) ==
  LET r == flight[i] IN
  /\ changes < MaxChanges[focus]
  /\ changes' = changes + 1
  /\ flight' = RemoveAt(flight, i)
  /\ seen' = IF r.kind = "saveGuardrailEnabled"
               THEN [seen EXCEPT !.enabled = r.arg.current] ELSE seen
  /\ UNCHANGED <<daemon, ui, tail, flows, focus>>

Tick ==
  /\ Room(Len(Polls(focus)))
  /\ Send(Polls(focus))
  /\ UNCHANGED <<daemon, seen, ui, tail, flows, focus, changes>>

-----------------------------------------------------------------------------
(* The event stream, which starts from the first entry on every connection. *)

Connect ==
  /\ focus = "events" /\ tail.status = "closed"
  /\ tail' = [status |-> "open", next |-> 1]
  /\ UNCHANGED <<daemon, seen, ui, flight, flows, focus, changes>>

readSSE ==
  /\ tail.status = "open" /\ tail.next <= Len(daemon.ledger)
  /\ LET all == <<daemon.ledger[tail.next]>> \o seen.events
     IN  seen' = [seen EXCEPT !.events =
                    SubSeq(all, 1, IF Len(all) < Buffer THEN Len(all) ELSE Buffer)]
  /\ tail' = [tail EXCEPT !.next = @ + 1]
  /\ UNCHANGED <<daemon, ui, flight, flows, focus, changes>>

Disconnect ==
  /\ tail.status = "open" /\ changes < MaxChanges[focus]
  /\ changes' = changes + 1
  /\ tail' = [tail EXCEPT !.status = "closed"]
  /\ UNCHANGED <<daemon, seen, ui, flight, flows, focus>>

-----------------------------------------------------------------------------
(* Keys. A modal takes every key, then the filter line, then the tabs. *)

KeysOnly == UNCHANGED <<daemon, seen, tail, flight, flows, focus, changes>>
InDetail == ~ui.editorActive /\ ui.detail # None
InGateDetail == ~ui.editorActive /\ ui.detail = None /\ ui.gateDetail # None
InFilter == ~ui.editorActive /\ ui.detail = None /\ ui.gateDetail = None /\ ui.field # None
InTab(t) ==
  /\ ~ui.editorActive /\ ui.detail = None /\ ui.gateDetail = None /\ ui.field = None
  /\ ui.tab = t

\* The keys of one tab, in the behaviours that are about it.
At(t) == InTab(t) /\ focus = t

\* Mutant: the list stays scrolled.
TopOf_Scrolled(u, t) == [u EXCEPT !.cursor[t] = 0]

TopOf(u, t) == [u EXCEPT !.cursor[t] = 0, !.scroll[t] = 0]

\* f in the event detail
ReportKey ==
  /\ InDetail /\ Cardinality(flows) < MaxFlows
  /\ \E e \in Ranges(seen.events) :
       /\ e.seq = ui.detail /\ canReportFalsePositive(e)
       /\ \E n \in 1..MaxFlows :
            /\ \A fl \in flows : fl.n # n
            /\ flows' = flows \cup {[n |-> n, kind |-> "repair", seq |-> e.seq, stage |-> "case"]}
  /\ UNCHANGED <<daemon, seen, ui, tail, flight, focus, changes>>

CloseKey ==
  /\ \/ InDetail /\ ui' = [ui EXCEPT !.detail = None]
     \/ InGateDetail /\ ui' = [ui EXCEPT !.gateDetail = None]
     \/ InFilter /\ ui' = [ui EXCEPT !.field = None, !.text = NoText]
  /\ KeysOnly

\* tab and enter in the filter line: the rule text is taken over by either.
FilterDoneKey ==
  LET saved == IF ui.field = "rule" THEN [ui EXCEPT !.filters.rule = ui.text] ELSE ui
      i == CHOOSE k \in DOMAIN FILTER_FIELDS : FILTER_FIELDS[k] = ui.field
      next == FILTER_FIELDS[(i % Len(FILTER_FIELDS)) + 1]
  IN  /\ InFilter
      /\ \/ ui' = TopOf([saved EXCEPT !.field = None, !.text = NoText], "events")
         \/ ui' = TopOf([saved EXCEPT !.field = next,
                           !.text = IF next = "rule" THEN ui.filters.rule ELSE NoText], "events")
      /\ KeysOnly

cycleEventFilter ==
  /\ InFilter /\ ui.field \in {"source", "verdict"}
  /\ LET values == eventFilterOptions(ui.field)
         at == {k \in DOMAIN values : values[k] = ui.filters[ui.field]}
         i == IF at = {} THEN 0 ELSE (CHOOSE k \in at : TRUE) - 1
     IN  \E delta \in {-1, 1} :
           LET next == values[((i + delta + Len(values)) % Len(values)) + 1]
           IN  ui' = TopOf([ui EXCEPT !.filters[ui.field] = next], "events")
  /\ KeysOnly

ClearFieldKey ==
  /\ InFilter /\ ui.field \in {"source", "verdict"}
  /\ ui' = TopOf([ui EXCEPT !.filters[ui.field] = NoText], "events")
  /\ KeysOnly

TypeKey ==
  /\ InFilter /\ ui.field = "rule"
  /\ \E t \in Text : ui' = [ui EXCEPT !.text = t]
  /\ KeysOnly

TabKey ==
  /\ InTab(ui.tab)
  /\ LET i == CHOOSE k \in DOMAIN TABS : TABS[k] = ui.tab
     IN  \E d \in {0, 4} : ui' = [ui EXCEPT !.tab = TABS[((i + d) % Len(TABS)) + 1]]
  /\ KeysOnly

moveCursor ==
  /\ InTab(ui.tab)
  /\ LET t == ui.tab
         max == Len(RowsOf(t))
     IN  /\ max > 0
         /\ \E delta \in {-1, 1} :
              LET next == Clamped(ui.cursor[t] + delta, max - 1)
                  off == ui.scroll[t]
              IN  ui' = [ui EXCEPT
                           !.cursor[t] = next,
                           !.scroll[t] = IF next < off THEN next
                                         ELSE IF next >= off + Rows THEN next - Rows + 1
                                         ELSE off]
  /\ KeysOnly

RefreshKey ==
  /\ InTab(ui.tab) /\ focus # "events"
  /\ Room(Len(Polls(focus))) /\ Send(Polls(focus))
  /\ UNCHANGED <<daemon, seen, ui, tail, flows, focus, changes>>

ModeKey ==
  /\ InTab(ui.tab) /\ seen.mode # None
  /\ focus = "mode" /\ Room(1) /\ changes < MaxChanges[focus]
  /\ changes' = changes + 1
  /\ Send(<<Request("patchMode", IF seen.mode = "firewall" THEN "monitor" ELSE "firewall")>>)
  /\ UNCHANGED <<daemon, seen, ui, tail, flows, focus>>

\* The effect on the window asks for its insights at once.
WindowKey ==
  /\ At("stats") /\ changes < MaxChanges[focus] /\ Room(1)
  /\ \E w \in InsightWindow \ {ui.window} :
       /\ ui' = [ui EXCEPT !.window = w]
       /\ Send(<<Request("ledgerInsights", w)>>)
  /\ changes' = changes + 1
  /\ UNCHANGED <<daemon, seen, tail, flows, focus>>

EventsKey ==
  /\ At("events")
  /\ \/ /\ Selected("events") # None
        /\ ui' = [ui EXCEPT !.detail = Selected("events").seq]
     \/ ui' = [ui EXCEPT !.field = "source", !.text = NoText]
     \/ ui' = TopOf([ui EXCEPT !.filters = EMPTY_FILTERS], "events")
     \/ ui' = [ui EXCEPT !.filters.internal = ~@]
     \/ ui' = [ui EXCEPT !.filters.outcomes = ~@]
  /\ KeysOnly

toggleGuardrail ==
  /\ At("guardrails") /\ Selected("guardrails") \in Enforceable
  /\ Room(1) /\ changes < MaxChanges[focus]
  /\ LET entry == Selected("guardrails")
         next == IF isGuardrailEnabled(entry) THEN seen.enabled \ {entry}
                                              ELSE seen.enabled \cup {entry}
     IN  /\ seen' = [seen EXCEPT !.enabled = next]
         /\ Send(<<saveGuardrailEnabled(next, seen.enabled)>>)
  /\ changes' = changes + 1
  /\ UNCHANGED <<daemon, ui, tail, flows, focus>>

SessionsKey ==
  /\ At("sessions")
  /\ ui' = TopOf([ui EXCEPT !.showInternal = ~@], "sessions")
  /\ KeysOnly

GateDetailKey ==
  /\ At("gates") /\ Selected("gates") # None
  /\ ui' = [ui EXCEPT !.gateDetail = Selected("gates").id]
  /\ KeysOnly

\* space and M
PatchKey ==
  /\ At("gates") /\ Selected("gates") # None /\ Room(1) /\ changes < MaxChanges[focus]
  /\ LET sel == Selected("gates")
         cycle == [inherit |-> "monitor", monitor |-> "enforce", enforce |-> "inherit"]
     IN  \/ Send(<<Request("patchGate",
                     [id |-> sel.id, field |-> "disabled", value |-> ~sel.disabled])>>)
         \/ Send(<<Request("patchGate",
                     [id |-> sel.id, field |-> "mode", value |-> cycle[sel.mode]])>>)
  /\ changes' = changes + 1
  /\ UNCHANGED <<daemon, seen, ui, tail, flows, focus>>

\* x, once to arm and again to delete; the armed id stays until the answer.
DeleteKey ==
  /\ At("gates") /\ Selected("gates") # None
  /\ LET id == Selected("gates").id IN
     IF ui.pending = id
       THEN /\ Room(1) /\ changes < MaxChanges[focus]
            /\ Send(<<Request("deleteGate", [id |-> id])>>)
            /\ changes' = changes + 1 /\ UNCHANGED ui
       ELSE ui' = [ui EXCEPT !.pending = id] /\ UNCHANGED <<flight, changes>>
  /\ UNCHANGED <<daemon, seen, tail, flows, focus>>

\* The two seconds of an armed delete are over.
Expire ==
  /\ ui.pending # None
  /\ ui' = [ui EXCEPT !.pending = None]
  /\ KeysOnly

\* a and e: the editor is started before anything is awaited.
EditKey ==
  /\ At("gates") /\ Cardinality(flows) < MaxFlows
  /\ \E n \in 1..MaxFlows :
       /\ \A fl \in flows : fl.n # n
       /\ \E seed \in {[id |-> g, mode |-> "", disabled |-> FALSE, match |-> "any"] : g \in GateId}
                      \cup {serializeGateForEdit(g) : g \in {Selected("gates")} \ {None}} :
            flows' = flows \cup
              {[n |-> n, kind |-> IF seed.mode = "" THEN "add" ELSE "edit",
                gate |-> seed, stage |-> "edit"]}
  /\ ui' = [ui EXCEPT !.editorActive = TRUE]
  /\ UNCHANGED <<daemon, seen, tail, flight, focus, changes>>

-----------------------------------------------------------------------------
(* Editor and repair flows. *)

Moved(fl, stage) == flows' = (flows \ {fl}) \cup {[fl EXCEPT !.stage = stage]}

\* The case has arrived: its editor is started, or the request failed.
CaseArrives(fl) ==
  /\ fl.stage = "case"
  /\ \/ Moved(fl, "edit") /\ ui' = [ui EXCEPT !.editorActive = TRUE]
     \/ flows' = flows \ {fl} /\ UNCHANGED ui
  /\ UNCHANGED <<daemon, seen, tail, flight, focus, changes>>

\* The editor ends: with a text to send, or without.
runEditor(fl) ==
  /\ fl.stage = "edit"
  /\ ui' = [ui EXCEPT !.editorActive = FALSE]
  /\ \/ Moved(fl, "apply")
     \/ flows' = flows \ {fl}
  /\ UNCHANGED <<daemon, seen, tail, flight, focus, changes>>

\* installGateYAML: without replace an id that exists is refused, with it one
\* that does not exist (any more) is added.
Install(fl) ==
  LET at == GateIndex(fl.gate.id)
      accepted == fl.kind = "edit" \/ at = {}
  IN  /\ fl.stage = "apply" /\ fl.kind # "repair" /\ Room(1) /\ changes < MaxChanges[focus]
      /\ changes' = changes + 1
      /\ flows' = flows \ {fl}
      /\ IF accepted
           THEN /\ daemon' = [daemon EXCEPT !.gates =
                                IF at = {} THEN Append(@, fl.gate)
                                ELSE [@ EXCEPT ![CHOOSE i \in at : TRUE] = fl.gate]]
                /\ Send(<<policyView>>)
           ELSE UNCHANGED <<daemon, flight>>
      /\ UNCHANGED <<seen, ui, tail, focus>>

\* Validation and, if it succeeds, the repair; the view is asked for again. What
\* a repair does to the policy is PolicyRegistry's.
Repair(fl) ==
  /\ fl.stage = "apply" /\ fl.kind = "repair"
  /\ flows' = flows \ {fl}
  /\ UNCHANGED <<daemon, seen, ui, tail, flight, focus, changes>>

-----------------------------------------------------------------------------
(* Everybody else: the web dashboard, another terminal, the harnesses. *)

OthersEdit ==
  /\ changes < MaxChanges[focus] /\ changes' = changes + 1
  /\ \/ /\ focus = "gates"
        /\ \E i \in DOMAIN daemon.gates : daemon' = [daemon EXCEPT !.gates = RemoveAt(@, i)]
     \/ /\ focus = "gates"
        /\ \E i \in DOMAIN daemon.gates :
             daemon' = [daemon EXCEPT !.gates[i].disabled = ~@]
     \/ focus = "mode" /\ daemon' = [daemon EXCEPT !.mode = IF @ = "firewall" THEN "monitor" ELSE "firewall"]
     \/ focus = "guardrails" /\ \E s \in SUBSET Enforceable : daemon' = [daemon EXCEPT !.enabled = s]
     \/ focus = "sessions" /\ daemon.sessions = <<>> /\ daemon' = [daemon EXCEPT !.sessions = SessionList]
  /\ UNCHANGED <<seen, ui, tail, flight, flows, focus>>

LedgerGrows ==
  /\ focus \in {"events", "stats"} /\ Len(daemon.ledger) < MaxLedger
  /\ \E k \in LedgerKind :
       daemon' = [daemon EXCEPT !.ledger =
         Append(@, [seq |-> Len(@) + 1, source |-> k.source, verdict |-> k.verdict,
                    rule |-> k.rule, monitor |-> k.monitor])]
  /\ UNCHANGED <<seen, ui, tail, flight, flows, focus, changes>>

-----------------------------------------------------------------------------
InitialGate(g) == [id |-> g, mode |-> "", disabled |-> FALSE, match |-> "nested"]
InitialGates == SetToSeq({InitialGate(g) : g \in GateId})

Init ==
  /\ focus \in Focus
  /\ daemon = [gates |-> IF focus = "gates" THEN InitialGates ELSE <<>>,
               mode |-> "firewall", enabled |-> {}, sessions |-> <<>>, ledger |-> <<>>]
  /\ seen = [policy |-> <<>>, mode |-> None, enabled |-> {}, sessions |-> <<>>,
             insights |-> None, events |-> <<>>,
             catalog |-> IF focus = "guardrails" THEN Catalog ELSE <<>>]
  /\ ui = [tab |-> focus, cursor |-> [t \in TabName |-> 0], scroll |-> [t \in TabName |-> 0],
           filters |-> EMPTY_FILTERS, field |-> None, text |-> "", detail |-> None,
           gateDetail |-> None, showInternal |-> FALSE, pending |-> None,
           editorActive |-> FALSE, window |-> "24h"]
  /\ tail = [status |-> "closed", next |-> 1]
  /\ flight = <<>> /\ flows = {} /\ changes = 0

Keys ==
  \/ ReportKey \/ CloseKey \/ FilterDoneKey \/ cycleEventFilter \/ ClearFieldKey \/ TypeKey
  \/ TabKey \/ moveCursor \/ RefreshKey \/ ModeKey \/ WindowKey \/ EventsKey
  \/ toggleGuardrail \/ SessionsKey \/ GateDetailKey \/ PatchKey \/ DeleteKey \/ EditKey

Network ==
  \E i \in DOMAIN flight : Handle(i) \/ Receive(i) \/ GateEdited(i)

Flows == \E fl \in flows : CaseArrives(fl) \/ runEditor(fl) \/ Install(fl) \/ Repair(fl)

Next ==
  \/ Keys \/ Network \/ Flows \/ Tick \/ Expire
  \/ \E i \in DOMAIN flight : Fails(i)
  \/ Connect \/ readSSE \/ Disconnect \/ OthersEdit \/ LedgerGrows

Spec == Init /\ [][Next]_vars

-----------------------------------------------------------------------------
\* The row that the next key acts on can be seen: when the list of a pane has a
\* row at the cursor, the pane draws it, marked, whatever has been pressed and
\* however the lists have changed in between (moveCursor and the resets).
MarkIsDrawn(t, pane) ==
  ui.cursor[t] < Len(Listed(t)) =>
    \E r \in pane : r.marked /\ r.row = (IF t = "events" THEN Listed(t)[ui.cursor[t] + 1].seq
                                        ELSE Listed(t)[ui.cursor[t] + 1])
CursorOnScreen ==
  /\ MarkIsDrawn("events", EventsPane)
  /\ MarkIsDrawn("sessions", SessionsPane)
  /\ MarkIsDrawn("guardrails", GuardrailsPane)
  /\ MarkIsDrawn("gates", GatesPane)

\* What the tab in focus shows is what the daemon has.
Fresh ==
  CASE focus = "mode"       -> seen.mode = daemon.mode
    [] focus = "sessions"   -> seen.sessions = daemon.sessions
    [] focus = "gates"      -> seen.policy = PolicyView
    [] focus = "guardrails" -> seen.enabled = daemon.enabled
    [] focus = "stats"      -> seen.insights = [window |-> ui.window, total |-> Len(daemon.ledger)]
    [] focus = "events"     -> Ranges(daemon.ledger) \subseteq Ranges(seen.events)

-----------------------------------------------------------------------------
(* What comments and documentation say and the code does not do. *)

\* "the renderer is suspended and keypresses skip the TUI handler (the editor
\* owns the TTY)": while an editor runs, no key reaches the handler.
EditorOwnsKeys == (\E fl \in flows : fl.stage = "edit") => ui.editorActive

\* "j/k move cursor / scroll within the focused tab": the keys count the rows
\* that are drawn.
KeysSeeWhatIsDrawn == \A t \in TabName : RowsOf(t) = Listed(t)

\* "shown (seq DESC)"
NewestFirst ==
  \A i, j \in DOMAIN seen.events : i < j => seen.events[i].seq > seen.events[j].seq

\* A gate whose mode is "inherit" follows the mode of the policy.
InheritInherits ==
  \A i \in DOMAIN daemon.gates :
    daemon.gates[i].mode = "inherit" =>
      (effectiveGateMode(daemon.gates[i]) = "monitor" <=> PolicyMode = "monitor")

\* "reconstructs an editable YAML form of a single gate": a gate that has been
\* edited matches what it matched.
EditKeepsMatch ==
  \A i \in DOMAIN daemon.gates : daemon.gates[i].match # "any"
=============================================================================
