------------------------------ MODULE Guardrails ------------------------------
(* The guardrail service (internal/guardrails/service.go): after the policy has *)
(* allowed a gate check, the enabled classifiers of external providers are      *)
(* asked one after the other, and a trace of what they said is kept for the     *)
(* check's ledger entry. Catalogs are cached; two checks and the catalog page   *)
(* fill the same cache, while users choose others and providers change or fail. *)
EXTENDS Integers, Sequences, FiniteSets, SequencesExt

CONSTANTS
  gdCaller,      \* concurrent gate checks
  gdConfigured,  \* providers with a key in the environment
  gdEntry,       \* entries: [provider, id]
  gdChoices,     \* the lists of entries that users enable
  gdMaxTraces,   \* traces kept (1024)
  gdMaxCalls, gdMaxChanges   \* bounds

Registered == {"nvidia", "openrouter"}
ASSUME GuardrailAssumption ==
  /\ gdConfigured \subseteq Registered /\ gdMaxTraces \in Nat \ {0}
  /\ gdChoices \subseteq Seq(gdEntry) /\ gdMaxCalls \in Nat /\ gdMaxChanges \in Nat

VARIABLES
  gdEnabled,   \* the store's list of enabled entries
  gdCatalog,   \* external: provider -> the entries it lists
  gdCache,     \* provider -> {}, or the set of one listing that has not expired
  gdCalls,     \* caller -> where it is, what it has
  gdPage,      \* {}, or {the listing that ListCatalogStatus has got}
  gdTraces,    \* seq -> trace
  gdOrder,     \* traceOrder
  gdLedger,    \* the entries of gate checks; their payloads contain the traces
  gdSaid,      \* history: [call, entry, verdict] that a classifier answered
  gdCount,     \* gate checks so far
  gdChanges

gdVars == <<gdEnabled, gdCatalog, gdCache, gdCalls, gdPage, gdTraces, gdOrder, gdLedger,
            gdSaid, gdCount, gdChanges>>

gdIdle == [at |-> "idle", call |-> 0, asked |-> <<>>, stages |-> <<>>, held |-> {}, seq |-> 0]
gdGoes(c, call) == gdCalls' = [gdCalls EXCEPT ![c] = call]
gdLocal == UNCHANGED <<gdEnabled, gdCatalog, gdPage, gdTraces, gdOrder, gdLedger, gdCount, gdChanges>>

\* The entry whose turn it is: every stage so far was one.
Turn(call) == call.asked[Len(call.stages) + 1]

\* Mutant: a stage that allows makes up for the ones that abstained.
guardrailVerdict_Forgets(stages) ==
  IF \E i \in DOMAIN stages : stages[i] = "deny" THEN "deny"
  ELSE IF stages = <<>> THEN "allow" ELSE stages[Len(stages)]

guardrailVerdict(stages) ==
  IF \E i \in DOMAIN stages : stages[i] = "deny" THEN "deny"
  ELSE IF \E i \in DOMAIN stages : stages[i] = "abstain" THEN "abstain" ELSE "allow"

Trace(call) ==
  [call |-> call.call, asked |-> call.asked, stages |-> call.stages,
   verdict |-> guardrailVerdict(call.stages)]

\* A denial ends the evaluation, and so does the last entry.
AfterStage(call, verdict) ==
  LET stages == Append(call.stages, verdict) IN
  [call EXCEPT !.stages = stages, !.held = {},
               !.at = IF verdict = "deny" \/ Len(stages) = Len(call.asked) THEN "append" ELSE "stage"]

-----------------------------------------------------------------------------
(* EvaluatePostPolicy *)

EvaluatePostPolicy(c) ==
  /\ gdCalls[c].at = "idle" /\ gdCount < gdMaxCalls
  /\ gdCount' = gdCount + 1
  /\ gdGoes(c, [gdIdle EXCEPT !.at = IF gdEnabled = <<>> THEN "append" ELSE "stage",
                              !.call = gdCount', !.asked = gdEnabled])
  /\ UNCHANGED <<gdEnabled, gdCatalog, gdCache, gdPage, gdTraces, gdOrder, gdLedger, gdSaid, gdChanges>>

\* runtimeEntry, on a listing that has the entry or not.
FoundIn(call, listing) ==
  IF Turn(call) \in listing THEN [call EXCEPT !.at = "running", !.held = {}]
  ELSE AfterStage(call, "abstain")

NextStage(c) ==
  LET call == gdCalls[c]
      p == Turn(call).provider
  IN
  /\ call.at = "stage"
  /\ IF p \notin gdConfigured \cap Registered THEN gdGoes(c, AfterStage(call, "abstain"))
     ELSE IF gdCache[p] = {} THEN gdGoes(c, [call EXCEPT !.at = "listing"])
     ELSE \E listing \in gdCache[p] : gdGoes(c, FoundIn(call, listing))
  /\ gdLocal /\ UNCHANGED <<gdCache, gdSaid>>

\* The provider lists its entries, or fails.
CatalogListed(c) ==
  LET call == gdCalls[c] IN
  /\ call.at = "listing"
  /\ \/ gdGoes(c, [call EXCEPT !.at = "caching", !.held = gdCatalog[Turn(call).provider]])
     \/ gdGoes(c, AfterStage(call, "abstain"))
  /\ gdLocal /\ UNCHANGED <<gdCache, gdSaid>>

setCachedCatalog(p, listing) == gdCache' = [gdCache EXCEPT ![p] = {listing}]

CatalogCached(c) ==
  LET call == gdCalls[c] IN
  /\ call.at = "caching"
  /\ setCachedCatalog(Turn(call).provider, call.held)
  /\ gdGoes(c, FoundIn(call, call.held))
  /\ gdLocal /\ UNCHANGED gdSaid

\* OpenRouter never runs; an entry that is no longer listed, a connection that
\* fails and an answer that does not parse are errors.
RunRuntime(c) ==
  LET call == gdCalls[c]
      e == Turn(call)
  IN
  /\ call.at = "running"
  /\ \/ /\ e.provider = "nvidia" /\ e \in gdCatalog[e.provider]
        /\ \E verdict \in {"allow", "deny"} :
             /\ gdSaid' = gdSaid \cup {[call |-> call.call, entry |-> e, verdict |-> verdict]}
             /\ gdGoes(c, AfterStage(call, verdict))
     \/ gdGoes(c, AfterStage(call, "abstain")) /\ UNCHANGED gdSaid
  /\ gdLocal /\ UNCHANGED gdCache

-----------------------------------------------------------------------------
(* The end of gateCheckHandler. *)

\* The append fails, or the entry has the next number.
AppendTrace(c) ==
  /\ gdCalls[c].at = "append"
  /\ \/ gdLedger' = Append(gdLedger, Trace(gdCalls[c]))
        /\ gdGoes(c, [gdCalls[c] EXCEPT !.at = "record", !.seq = Len(gdLedger')])
     \/ gdGoes(c, gdIdle) /\ UNCHANGED gdLedger
  /\ UNCHANGED <<gdEnabled, gdCatalog, gdCache, gdPage, gdTraces, gdOrder, gdSaid, gdCount, gdChanges>>

\* A check that the policy denies gets an entry and no trace.
DeniedLocally(c) ==
  /\ gdCalls[c].at = "idle" /\ gdCount < gdMaxCalls
  /\ gdCount' = gdCount + 1
  /\ gdLedger' = Append(gdLedger, [Trace(gdIdle) EXCEPT !.verdict = "skipped"])
  /\ UNCHANGED <<gdEnabled, gdCatalog, gdCache, gdCalls, gdPage, gdTraces, gdOrder, gdSaid, gdChanges>>

RecordTrace(c) ==
  LET call == gdCalls[c]
      order == IF call.seq \in DOMAIN gdTraces THEN gdOrder ELSE Append(gdOrder, call.seq)
      traces == [n \in DOMAIN gdTraces \cup {call.seq} |->
                   IF n = call.seq THEN Trace(call) ELSE gdTraces[n]]
      excess == IF Len(order) > gdMaxTraces THEN Len(order) - gdMaxTraces ELSE 0
      kept == SubSeq(order, excess + 1, Len(order))
  IN
  /\ call.at = "record"
  /\ gdOrder' = kept /\ gdTraces' = [n \in ToSet(kept) |-> traces[n]]
  /\ gdGoes(c, gdIdle)
  /\ UNCHANGED <<gdEnabled, gdCatalog, gdCache, gdPage, gdLedger, gdSaid, gdCount, gdChanges>>

-----------------------------------------------------------------------------
(* The catalog page, users, providers, time. *)

\* The page's request for one provider; one that fails is passed over.
ListCatalogStatus ==
  /\ \/ /\ gdPage = {}
        /\ \E p \in gdConfigured : gdPage' = {[provider |-> p, listing |-> gdCatalog[p]]}
        /\ UNCHANGED gdCache
     \/ \E held \in gdPage : setCachedCatalog(held.provider, held.listing) /\ gdPage' = {}
  /\ UNCHANGED <<gdEnabled, gdCatalog, gdCalls, gdTraces, gdOrder, gdLedger, gdSaid, gdCount, gdChanges>>

CatalogExpires ==
  /\ \E p \in gdConfigured : gdCache[p] # {} /\ gdCache' = [gdCache EXCEPT ![p] = {}]
  /\ UNCHANGED <<gdEnabled, gdCatalog, gdCalls, gdPage, gdTraces, gdOrder, gdLedger, gdSaid, gdCount, gdChanges>>

SaveGuardrailEnabled ==
  /\ gdChanges < gdMaxChanges /\ gdChanges' = gdChanges + 1
  /\ gdEnabled' \in gdChoices
  /\ UNCHANGED <<gdCatalog, gdCache, gdCalls, gdPage, gdTraces, gdOrder, gdLedger, gdSaid, gdCount>>

\* A provider withdraws an entry, or lists one again.
CatalogChanges ==
  /\ gdChanges < gdMaxChanges /\ gdChanges' = gdChanges + 1
  /\ \E e \in gdEntry :
       /\ e.provider \in gdConfigured
       /\ gdCatalog' = [gdCatalog EXCEPT ![e.provider] = (@ \ {e}) \cup ({e} \ @)]
  /\ UNCHANGED <<gdEnabled, gdCache, gdCalls, gdPage, gdTraces, gdOrder, gdLedger, gdSaid, gdCount>>

\* Only the ledger is on disk; the keys are read from the environment again.
GuardrailsRestart ==
  /\ gdChanges < gdMaxChanges /\ gdChanges' = gdChanges + 1
  /\ gdEnabled' = <<>> /\ gdCache' = [p \in gdConfigured |-> {}]
  /\ gdCalls' = [c \in gdCaller |-> gdIdle] /\ gdPage' = {}
  /\ gdTraces' = <<>> /\ gdOrder' = <<>>
  /\ UNCHANGED <<gdCatalog, gdLedger, gdSaid, gdCount>>

gdInit ==
  /\ gdEnabled \in gdChoices
  /\ gdCatalog = [p \in gdConfigured |-> {e \in gdEntry : e.provider = p}]
  /\ gdCache = [p \in gdConfigured |-> {}]
  /\ gdCalls = [c \in gdCaller |-> gdIdle] /\ gdPage = {}
  /\ gdTraces = <<>> /\ gdOrder = <<>> /\ gdLedger = <<>> /\ gdSaid = {}
  /\ gdCount = 0 /\ gdChanges = 0

gdNext ==
  \/ \E c \in gdCaller :
       \/ EvaluatePostPolicy(c) \/ NextStage(c) \/ CatalogListed(c) \/ CatalogCached(c)
       \/ RunRuntime(c) \/ AppendTrace(c) \/ DeniedLocally(c) \/ RecordTrace(c)
  \/ ListCatalogStatus \/ CatalogExpires \/ SaveGuardrailEnabled \/ CatalogChanges \/ GuardrailsRestart

gdSpec == gdInit /\ [][gdNext]_gdVars

-----------------------------------------------------------------------------
\* "Provider errors ... produce abstain, not implicit allow or deny": a check is
\* denied exactly if a classifier that was enabled when it came said so of it, and
\* its trace says "allow" only if all of them did, whatever fails, expires or is
\* enabled in between (EvaluatePostPolicy).
VerdictsAreAnswers ==
  \A n \in DOMAIN gdLedger :
    LET t == gdLedger[n]
        Said(e, verdict) == [call |-> t.call, entry |-> e, verdict |-> verdict] \in gdSaid
    IN  t.verdict # "skipped" =>
          /\ t.verdict = "deny" <=> \E e \in gdEntry : Said(e, "deny")
          /\ t.verdict = "deny" => \E e \in ToSet(t.asked) : Said(e, "deny")
          /\ t.verdict = "allow" => \A e \in ToSet(t.asked) : Said(e, "allow")

\* The trace that is shown for an entry is the one its payload was made of, though
\* checks record in another order than they append; and as many traces are kept
\* as are in the order of their eviction (RecordTrace, Trace).
TracesAreTheirs ==
  /\ \A n \in DOMAIN gdTraces : n \in DOMAIN gdLedger /\ gdTraces[n] = gdLedger[n]
  /\ DOMAIN gdTraces = ToSet(gdOrder) /\ Cardinality(ToSet(gdOrder)) = Len(gdOrder)
  /\ Len(gdOrder) <= gdMaxTraces

GuardrailsHold == VerdictsAreAnswers /\ TracesAreTheirs
=============================================================================
