---------------------------- MODULE WebDashboard ----------------------------
(* The web dashboard (control-plane/dashboard-ui/src): the event list fed by   *)
(* the ledger stream, the rules with their edit drawer and the form for new    *)
(* ones, the guardrail switches and the mode toggle. Every page polls, edits   *)
(* by requests, and shows the answers in the order in which they arrive.       *)
EXTENDS Integers, Sequences, FiniteSets, SequencesExt, Selection

CONSTANTS
  wbEntry,       \* the ledger: a sequence of [source, verdict]
  wbCap,         \* events kept (5000)
  wbGate,        \* the rules
  wbDefault,     \* the mode of the policy, "monitor" or "enforce"
  wbGuardrail,   \* guardrails with runtime support
  wbMaxChanges   \* bound: edits, failures and lost connections

ASSUME WebAssumption ==
  /\ wbCap \in Nat \ {0} /\ wbDefault \in {"monitor", "enforce"} /\ wbMaxChanges \in Nat

VARIABLES
  wbTab,      \* the page that is open
  wbDaemon,   \* [gates, mode, enabled, sent]: mode is the runtime override,
              \* sent the number of entries the open stream has sent
  wbSeen,     \* the answers and events received
  wbUi,       \* filters and page, the drawer, the form, the stream's status
  wbFlight,   \* requests and answers on their way, in the order they were made
  wbChanges

wbVars == <<wbTab, wbDaemon, wbSeen, wbUi, wbFlight, wbChanges>>

Spends == wbChanges < wbMaxChanges /\ wbChanges' = wbChanges + 1
wbSend(r) == wbFlight' = Append(wbFlight, r)
wbRequest(kind) == [kind |-> kind, answer |-> <<>>]
wbRoom == Len(wbFlight) < 2

-----------------------------------------------------------------------------
(* Events. *)

wbINTERNAL_SOURCES == {"system", "installer", "admin"}
wbIsOutcome(e) == e.verdict \in {"complete", "failure"}

\* The rows in the order of their numbers, newest first; the sort is stable.
NewestFirstRows(s) ==
  LET Before(j, k) == s[j].seq > s[k].seq \/ (s[j].seq = s[k].seq /\ j < k)
  IN  [i \in 1 .. Len(s) |->
         s[CHOOSE j \in 1 .. Len(s) :
             Cardinality({k \in 1 .. Len(s) : Before(k, j)}) = i - 1]]

wbFiltered ==
  LET f == wbUi.filters
      Passes(e) == /\ f.internal \/ e.source \notin wbINTERNAL_SOURCES
                   /\ ~wbIsOutcome(e)
                   /\ f.verdict \in {"", e.verdict}
  IN  NewestFirstRows(Among(wbSeen.entries, {e \in ToSet(wbSeen.entries) : Passes(e)}))

pageCount ==
  LET n == Len(wbFiltered) IN
  IF n = 0 THEN 1 ELSE (n + wbUi.pageSize - 1) \div wbUi.pageSize

\* Mutant: the page is not clamped.
safePage_Unclamped == wbUi.page

safePage == IF wbUi.page < pageCount - 1 THEN wbUi.page ELSE pageCount - 1
paged == SubSeq(wbFiltered, safePage * wbUi.pageSize + 1,
                IF (safePage + 1) * wbUi.pageSize < Len(wbFiltered)
                THEN (safePage + 1) * wbUi.pageSize ELSE Len(wbFiltered))

\* A stream is opened: it starts with the first entry.
StreamOpens ==
  /\ wbTab = "events" /\ wbUi.status # "connected"
  /\ wbUi' = [wbUi EXCEPT !.status = "connected"]
  /\ wbDaemon' = [wbDaemon EXCEPT !.sent = 0]
  /\ UNCHANGED <<wbTab, wbSeen, wbFlight, wbChanges>>

\* onmessage: an entry is appended, the oldest is dropped at the cap.
EntryArrives ==
  /\ wbTab = "events" /\ wbUi.status = "connected" /\ wbDaemon.sent < Len(wbEntry)
  /\ LET n == wbDaemon.sent + 1
         e == wbEntry[n]
         all == Append(wbSeen.entries,
                  [seq |-> n, source |-> e.source, verdict |-> e.verdict])
     IN  /\ wbDaemon' = [wbDaemon EXCEPT !.sent = n]
         /\ wbSeen' = [wbSeen EXCEPT !.entries =
              SubSeq(all, IF Len(all) > wbCap THEN Len(all) - wbCap + 1 ELSE 1, Len(all))]
  /\ UNCHANGED <<wbTab, wbUi, wbFlight, wbChanges>>

StreamBreaks ==
  /\ wbTab = "events" /\ wbUi.status = "connected" /\ Spends
  /\ wbUi' = [wbUi EXCEPT !.status = "reconnecting"]
  /\ UNCHANGED <<wbTab, wbDaemon, wbSeen, wbFlight>>

\* A filter or the page size: the effect goes back to the first page.
FilterEvents ==
  /\ wbTab = "events"
  /\ \/ wbUi' = [wbUi EXCEPT !.filters.internal = ~@, !.page = 0]
     \/ \E v \in {"", "deny"} \ {wbUi.filters.verdict} :
          wbUi' = [wbUi EXCEPT !.filters.verdict = v, !.page = 0]
     \/ wbUi' = [wbUi EXCEPT !.pageSize = 3 - @, !.page = 0]
  /\ UNCHANGED <<wbTab, wbDaemon, wbSeen, wbFlight, wbChanges>>

PageButtons ==
  /\ wbTab = "events"
  /\ \/ safePage > 0 /\ wbUi' = [wbUi EXCEPT !.page = @ - 1]
     \/ /\ safePage < pageCount - 1
        /\ wbUi' = [wbUi EXCEPT !.page = IF @ + 1 < pageCount - 1 THEN @ + 1 ELSE pageCount - 1]
  /\ UNCHANGED <<wbTab, wbDaemon, wbSeen, wbFlight, wbChanges>>

-----------------------------------------------------------------------------
(* Rules: the list, its switches and the edit drawer. *)

\* The view: modes are the effective ones.
wbView == [g \in wbGate |-> LET it == wbDaemon.gates[g] IN
             [it EXCEPT !.mode = IF @ = "" THEN wbDefault ELSE @]]

Absent == [there |-> FALSE, disabled |-> FALSE, mode |-> wbDefault]
\* The fields of the form; the patterns behave as the mode does.
Fields == {"disabled", "mode"}
wbSelected == wbUi.selected # {} /\ wbSeen.gates[wbUi.gate].there

\* The effect of the drawer on the gate that is drawn: every answer brings a new
\* object, and the form is filled again.
Refilled(ui, gates) ==
  IF ui.selected = {} \/ ~gates[ui.gate].there THEN ui
  ELSE [ui EXCEPT !.form = gates[ui.gate], !.touched = {}]

SelectRule ==
  /\ wbTab = "rules"
  /\ \E g \in wbGate : wbSeen.gates[g].there /\
       wbUi' = Refilled([wbUi EXCEPT !.selected = {g}, !.gate = g], wbSeen.gates)
  /\ UNCHANGED <<wbTab, wbDaemon, wbSeen, wbFlight, wbChanges>>

EditForm ==
  /\ wbTab = "rules" /\ wbSelected
  /\ \E f \in Fields :
       /\ f \notin wbUi.touched
       /\ wbUi' = [wbUi EXCEPT !.touched = @ \cup {f},
            !.form[f] = IF f = "disabled" THEN ~@ ELSE "inherit"]
  /\ UNCHANGED <<wbTab, wbDaemon, wbSeen, wbFlight, wbChanges>>

wbPatch(g, set, of) == [kind |-> "patch", answer |-> <<>>, gate |-> g, set |-> set, of |-> of]

\* onSave sends every field, onToggle the switch alone, onDelete the id.
EditRule ==
  /\ wbTab = "rules" /\ wbRoom /\ Spends
  /\ \/ wbSelected /\ wbSend(wbPatch(wbUi.gate, wbUi.form, Fields))
     \/ \E g \in wbGate : wbSeen.gates[g].there /\
          \/ wbSend(wbPatch(g, [wbSeen.gates[g] EXCEPT !.disabled = ~@], {"disabled"}))
          \/ wbSend([kind |-> "delete", answer |-> <<>>, gate |-> g])
  /\ UNCHANGED <<wbTab, wbDaemon, wbSeen, wbUi>>

\* The daemon makes the edit; the page clears the selection of a deleted rule and
\* asks for the view again.
RuleEdited(i) ==
  LET r == wbFlight[i]
      g == r.gate IN
  /\ r.kind \in {"patch", "delete"}
  /\ IF ~wbDaemon.gates[g].there
       THEN wbFlight' = RemoveAt(wbFlight, i) /\ UNCHANGED <<wbDaemon, wbUi>>
       ELSE /\ wbDaemon' = [wbDaemon EXCEPT !.gates[g] =
                 IF r.kind = "delete" THEN Absent
                 ELSE [k \in DOMAIN @ |-> IF k \in r.of THEN r.set[k] ELSE @[k]]]
            /\ wbFlight' = Append(RemoveAt(wbFlight, i), wbRequest("view"))
            /\ wbUi' = IF r.kind = "delete" /\ g \in wbUi.selected
                         THEN [wbUi EXCEPT !.selected = {}, !.touched = {}] ELSE wbUi
  /\ UNCHANGED <<wbTab, wbSeen, wbChanges>>

-----------------------------------------------------------------------------
(* The form for a new rule. *)

PRESETS == [bash |-> {"command"}, secretRead |-> {"path"}, netEgress |-> {"url"},
            custom |-> {"command", "path", "url"}]
Pattern == {"command", "path", "url"}
NoPatterns == [p \in Pattern |-> <<>>]

\* "Block this next time" on an event: the value of its call, trimmed and anchored
\* at both ends; the form splits the text at line ends, every line a pattern.
Value == {"plain", "padded", "two lines"}
NoValue == ""
rulePresetFromLedgerEntry(v) ==
  IF v = "two lines" THEN <<"^first", "last$">> ELSE <<"^plain$">>

Prefilled(t, v) ==
  [p \in Pattern |-> IF p \in PRESETS[t] THEN rulePresetFromLedgerEntry(v) ELSE <<>>]

OpenAddRule ==
  /\ wbTab = "add" /\ wbUi.value = NoValue
  /\ \E v \in Value, t \in DOMAIN PRESETS \ {"custom"} :
       wbUi' = [wbUi EXCEPT !.type = t, !.value = v,
                  !.patterns = Prefilled(t, v)]
  /\ UNCHANGED <<wbTab, wbDaemon, wbSeen, wbFlight, wbChanges>>

\* onRuleTypeChange empties the patterns of the type before.
ChangeRuleType ==
  /\ wbTab = "add"
  /\ \E t \in DOMAIN PRESETS \ {wbUi.type} :
       wbUi' = [wbUi EXCEPT !.type = t, !.patterns = NoPatterns]
  /\ UNCHANGED <<wbTab, wbDaemon, wbSeen, wbFlight, wbChanges>>

TypePattern ==
  /\ wbTab = "add"
  /\ \E p \in PRESETS[wbUi.type] : wbUi' = [wbUi EXCEPT !.patterns[p] = <<"typed">>]
  /\ UNCHANGED <<wbTab, wbDaemon, wbSeen, wbFlight, wbChanges>>

\* What onSubmit sends: the patterns of the fields that are shown.
AddBody == [p \in Pattern |-> IF p \in PRESETS[wbUi.type] THEN wbUi.patterns[p] ELSE <<>>]

-----------------------------------------------------------------------------
(* Guardrails. *)

toggleEntry ==
  /\ wbTab = "guardrails" /\ wbRoom /\ Spends
  /\ \E e \in wbGuardrail :
       LET next == IF e \in wbSeen.enabled THEN wbSeen.enabled \ {e} ELSE wbSeen.enabled \cup {e}
       IN  /\ wbSeen' = [wbSeen EXCEPT !.enabled = next]
           /\ wbSend([kind |-> "save", answer |-> <<>>, next |-> next,
                      prev |-> wbSeen.enabled, id |-> wbUi.saves + 1])
  /\ wbUi' = [wbUi EXCEPT !.saves = @ + 1]
  /\ UNCHANGED <<wbTab, wbDaemon>>

SaveHandled(i) ==
  LET r == wbFlight[i] IN
  /\ r.kind = "save" /\ r.answer = <<>>
  /\ \A k \in 1..(i - 1) : wbFlight[k].answer # <<>>     \* in the order they were made
  /\ wbDaemon' = [wbDaemon EXCEPT !.enabled = r.next]
  /\ wbFlight' = [wbFlight EXCEPT ![i].answer = <<r.next>>]
  /\ UNCHANGED <<wbTab, wbSeen, wbUi, wbChanges>>

\* Only the last save's answer counts, and only its failure is rolled back.
SaveAnswered(i) ==
  LET r == wbFlight[i] IN
  /\ r.kind = "save" /\ r.answer # <<>>
  /\ wbSeen' = IF r.id = wbUi.saves THEN [wbSeen EXCEPT !.enabled = r.answer[1]] ELSE wbSeen
  /\ wbFlight' = RemoveAt(wbFlight, i)
  /\ UNCHANGED <<wbTab, wbDaemon, wbUi, wbChanges>>

SaveRefused(i) ==
  LET r == wbFlight[i] IN
  /\ r.kind = "save" /\ r.answer = <<>> /\ wbUi.refused = 0
  /\ wbSeen' = IF r.id = wbUi.saves THEN [wbSeen EXCEPT !.enabled = r.prev] ELSE wbSeen
  /\ wbUi' = [wbUi EXCEPT !.refused = 1]
  /\ wbFlight' = RemoveAt(wbFlight, i)
  /\ UNCHANGED <<wbTab, wbDaemon, wbChanges>>

-----------------------------------------------------------------------------
(* The mode toggle. *)

\* onClick and onClear: the change, then the mode is asked for.
setMode ==
  /\ wbTab = "mode" /\ wbRoom /\ Spends
  /\ \E m \in {"monitor", "firewall", ""} : wbSend([kind |-> "setMode", answer |-> <<>>, mode |-> m])
  /\ UNCHANGED <<wbTab, wbDaemon, wbSeen, wbUi>>

ModeSet(i) ==
  LET r == wbFlight[i] IN
  /\ r.kind = "setMode"
  /\ wbDaemon' = [wbDaemon EXCEPT !.mode = r.mode]
  /\ wbFlight' = Append(RemoveAt(wbFlight, i), wbRequest("mode"))
  /\ UNCHANGED <<wbTab, wbSeen, wbUi, wbChanges>>

-----------------------------------------------------------------------------
(* Polls, and everybody else. *)

usePoll ==
  /\ wbTab \in {"rules", "mode"} /\ wbRoom
  /\ wbSend(wbRequest(IF wbTab = "mode" THEN "mode" ELSE "view"))
  /\ UNCHANGED <<wbTab, wbDaemon, wbSeen, wbUi, wbChanges>>

PollHandled(i) ==
  LET r == wbFlight[i] IN
  /\ r.kind \in {"mode", "view"} /\ r.answer = <<>>
  /\ wbFlight' = [wbFlight EXCEPT ![i].answer =
                    IF r.kind = "mode" THEN <<wbDaemon.mode>> ELSE <<wbView>>]
  /\ UNCHANGED <<wbTab, wbDaemon, wbSeen, wbUi, wbChanges>>

PollAnswered(i) ==
  LET r == wbFlight[i] IN
  /\ r.kind \in {"mode", "view"} /\ r.answer # <<>>
  /\ wbFlight' = RemoveAt(wbFlight, i)
  /\ IF r.kind = "mode" THEN wbSeen' = [wbSeen EXCEPT !.mode = r.answer[1]] /\ UNCHANGED wbUi
     ELSE /\ wbSeen' = [wbSeen EXCEPT !.gates = r.answer[1]]
          /\ wbUi' = Refilled(wbUi, r.answer[1])
  /\ UNCHANGED <<wbTab, wbDaemon, wbChanges>>

wbFails(i) ==
  /\ wbFlight[i].kind # "save" /\ Spends
  /\ wbFlight' = RemoveAt(wbFlight, i)
  /\ UNCHANGED <<wbTab, wbDaemon, wbSeen, wbUi>>

OthersChange ==
  /\ Spends
  /\ \/ /\ wbTab = "rules"
        /\ \E g \in wbGate : wbDaemon.gates[g].there /\
             \/ wbDaemon' = [wbDaemon EXCEPT !.gates[g] = Absent]
             \/ wbDaemon' = [wbDaemon EXCEPT !.gates[g].disabled = ~@]
     \/ wbTab = "mode" /\ wbDaemon' = [wbDaemon EXCEPT !.mode = "firewall"]
  /\ UNCHANGED <<wbTab, wbSeen, wbUi, wbFlight>>

-----------------------------------------------------------------------------
wbInit ==
  /\ wbTab \in {"events", "rules", "add", "guardrails", "mode"}
  /\ wbDaemon = [gates |-> [g \in wbGate |-> [Absent EXCEPT !.there = TRUE, !.mode = ""]],
                 mode |-> "", enabled |-> {}, sent |-> 0]
  /\ wbSeen = [entries |-> <<>>, gates |-> [g \in wbGate |-> Absent], mode |-> "", enabled |-> {}]
  /\ wbUi = [status |-> "connecting", filters |-> [internal |-> FALSE, verdict |-> ""],
             page |-> 0, pageSize |-> 1, selected |-> {}, gate |-> CHOOSE g \in wbGate : TRUE,
             form |-> Absent, touched |-> {}, type |-> "custom", value |-> NoValue, patterns |-> NoPatterns,
             saves |-> 0, refused |-> 0]
  /\ wbFlight = <<>> /\ wbChanges = 0

wbAnswers ==
  \E i \in DOMAIN wbFlight :
    \/ RuleEdited(i) \/ SaveHandled(i) \/ SaveAnswered(i) \/ ModeSet(i)
    \/ PollHandled(i) \/ PollAnswered(i)

wbNext ==
  \/ StreamOpens \/ EntryArrives \/ StreamBreaks \/ FilterEvents \/ PageButtons
  \/ SelectRule \/ EditForm \/ EditRule \/ OpenAddRule \/ ChangeRuleType \/ TypePattern
  \/ toggleEntry \/ setMode \/ usePoll \/ OthersChange \/ wbAnswers
  \/ \E i \in DOMAIN wbFlight : SaveRefused(i) \/ wbFails(i)

wbSpec == wbInit /\ [][wbNext]_wbVars

\* The stream is opened again and read, requests are answered, the polls go on.
wbFairness ==
  WF_wbVars(StreamOpens) /\ WF_wbVars(EntryArrives) /\ WF_wbVars(wbAnswers) /\ WF_wbVars(usePoll)

-----------------------------------------------------------------------------
\* As long as an event passes the filters the page shows one, also when entries
\* are dropped at the cap while a late page is open (safePage).
PageShowsEvents == wbFiltered # <<>> => paged # <<>>

\* The drawer never sends a value that is neither what its user typed since nor
\* what the list beside it shows: no field of a rule that was reloaded, deleted or
\* exchanged under the open drawer is carried over.
SaveSendsWhatIsShown ==
  wbSelected => \A f \in Fields \ wbUi.touched : wbUi.form[f] = wbSeen.gates[wbUi.gate][f]

\* A pattern typed for another type of rule is not part of the rule that is added.
AddSendsWhatIsShown ==
  \A p \in Pattern : wbUi.patterns[p] # <<>> => AddBody[p] = wbUi.patterns[p]

\* When all saves are answered the switches show what the daemon enforces, if no
\* more than one of them failed and they were handled in order.
SwitchesSettle ==
  wbTab = "guardrails" /\ wbFlight = <<>> => wbSeen.enabled = wbDaemon.enabled

WebHolds == PageShowsEvents /\ SaveSendsWhatIsShown /\ AddSendsWhatIsShown /\ SwitchesSettle

\* Rules, mode and events come to show what the daemon has once edits are over.
wbFresh ==
  CASE wbTab = "rules"  -> wbSeen.gates = wbView
    [] wbTab = "mode"   -> wbSeen.mode = wbDaemon.mode
    [] wbTab = "events" -> \A n \in DOMAIN wbEntry : \E e \in ToSet(wbSeen.entries) : e.seq = n
    [] OTHER            -> TRUE
wbEventuallyFresh == <>[]wbFresh
=============================================================================
