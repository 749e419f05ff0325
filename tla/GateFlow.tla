------------------------------ MODULE GateFlow ------------------------------
(***************************************************************************)
(* From a request to a verdict: the session store (internal/storage), the  *)
(* session endpoints (session.go, session_unattested.go), gate.check       *)
(* (gate.go), the hook endpoints of the harnesses (hooks_claude.go,        *)
(* hooks_claude_desktop.go, hooks_codex.go) and the daemon mode (mode.go). *)
(*                                                                         *)
(* Each handler is a sequence of steps, one per access to shared state;    *)
(* handlers interleave freely, because the store locks one call at a time. *)
(* A policy is the number of the edit that made it (PolicyRegistry keeps   *)
(* pinned ones available) and Outcome says what it decides.                *)
(***************************************************************************)
EXTENDS Integers, Sequences, FiniteSets

CONSTANTS
  Id,           \* session ids
  Worker,       \* requests in progress
  Key,          \* attesting signers; anything else signs as None
  Call,         \* tool_use_id
  Scenario,     \* what behaviours are about, see scene
  MaxEntries,   \* bound: no request starts on a ledger this long
  None

VARIABLE scene  \* the scenario of the behaviour

Outcome == scene.outcome     \* for each policy, what its evaluation returns
Kinds == scene.kinds         \* the kinds of requests that are issued
Modes == scene.modes         \* the values that PATCH /v1/mode is asked for
MayFail == scene.fails       \* TRUE: appends to the ledger may fail
MayDeny == scene.guarded     \* TRUE: an external guardrail may deny
MaxRestarts == scene.restarts  \* bound on the restarts
Policies == DOMAIN Outcome

\* The results of EvaluateLayered: <<Verdict, OriginalVerdict, MonitorMatch>>.
Results ==
  [allow |-> <<"allow", "allow", FALSE>>, deny |-> <<"deny", "deny", FALSE>>,
   monitored |-> <<"allow", "deny", TRUE>>, matched |-> <<"allow", "allow", TRUE>>]

PreTool == {"claude", "desktop", "codex"}      \* pre-tool-use of a harness
Observing == {"observe"}                       \* post-tool-use, session-start
Deciding == PreTool \cup {"check"}
Minting == {"create", "unattested"}
Attesting == {"create", "rotate"}

ASSUME FlowAssumption ==
  /\ None \notin Id \cup Key \cup Call
  /\ None \notin [signer : Key \cup {None}, policy : Nat]
  /\ \A s \in Scenario :
       /\ s.outcome \in Seq(DOMAIN Results) /\ s.outcome # << >>
       /\ s.kinds \subseteq Deciding \cup Observing \cup Minting \cup Attesting \cup {"end", "stop"}
       /\ s.fails \in BOOLEAN /\ s.guarded \in BOOLEAN
       /\ s.modes \subseteq {"", "firewall", "monitor"}
       /\ s.restarts \in Nat
  /\ MaxEntries \in Nat

\* Claude's handlers re-pin unattested sessions; Codex, Cursor and Gemini do not.
Refreshing == {"claude", "desktop"} \cup Observing

\* Creating a session from a desktop hook is not written to the ledger.
Recording == {"claude", "codex"} \cup Observing \cup Minting

Request ==
  {r \in [kind : Kinds, id : Id, call : Call \cup {None}, key : Key \cup {None}] :
     /\ r.call # None <=> r.kind \in PreTool
     /\ r.key # None <=> r.kind \in Attesting}

VARIABLES
  sessions,  \* m.sessions: None or the signer and the policy of a session
  ended,     \* m.endedSess
  expired,   \* the sessions whose ExpiresAt has passed
  live,      \* the live policy
  override,  \* runtimeMode
  ledger,    \* the entries; boot and policy are history
  pc,        \* per worker, the step of its handler that comes next
  request,   \* per worker, what it was asked
  sess,      \* per worker, its copy of the session
  result,    \* per worker, verdict, recorded verdict, monitor flag, mode, seq
  begun,     \* history: live, ended and expired when the request arrived
  attested,  \* history: the attestations that the store accepted
  boot       \* number of restarts

store == <<sessions, ended, expired, attested>>
vars == <<scene, store, live, override, ledger, pc, request, sess, result, begun, boot>>

NoResult == [verdict |-> None, recorded |-> None, monitor |-> FALSE, mode |-> None, seq |-> 0]
NotBegun == [live |-> 0, ended |-> FALSE, expired |-> FALSE]

Init ==
  /\ scene \in Scenario
  /\ sessions = [i \in Id |-> None] /\ ended = {} /\ expired = {}
  /\ live = 1 /\ override = "" /\ ledger = << >>
  /\ pc = [w \in Worker |-> "idle"]
  /\ request = [w \in Worker |-> None]
  /\ sess = [w \in Worker |-> None]
  /\ result = [w \in Worker |-> NoResult]
  /\ begun = [w \in Worker |-> NotBegun]
  /\ attested = {} /\ boot = 0

Goto(w, step) == pc' = [pc EXCEPT ![w] = step]

\* The handler of worker w goes on after its session is settled.
Settled(w) ==
  IF request[w].kind \in Deciding THEN "evaluate"
  ELSE IF request[w].kind \in Observing THEN "append" ELSE "answered"

\* daemonMode, with AGENTLOCK_MODE unset.
DaemonMode == IF override = "" THEN "firewall" ELSE override

-----------------------------------------------------------------------------
\* Sessions

\* A request arrives.  The ids that the daemon mints are fresh.
Receive(w, r) ==
  /\ pc[w] \in {"idle", "answered", "error"}
  /\ Len(ledger) < MaxEntries                                   \* bound
  /\ r.kind \in Minting =>
       /\ sessions[r.id] = None
       /\ \A v \in Worker \ {w} : pc[v] \in {"new", "insert"} => request[v].id # r.id
  /\ request' = [request EXCEPT ![w] = r]
  /\ begun' = [begun EXCEPT ![w] =
       [live |-> live, ended |-> r.id \in ended, expired |-> r.id \in expired]]
  /\ sess' = [sess EXCEPT ![w] =
       IF r.kind = "create" THEN [signer |-> r.key, policy |-> live] ELSE None]
  /\ result' = [result EXCEPT ![w] = NoResult]
  /\ Goto(w, IF r.kind = "create" THEN "insert" ELSE IF r.kind = "unattested" THEN "new" ELSE "look")
  /\ UNCHANGED <<store, live, override, ledger, boot>>

\* GetSession finds the session.
Found(w) ==
  LET s == sessions[request[w].id]
      kind == request[w].kind
  IN  /\ pc[w] = "look"
      /\ s # None
      /\ sess' = [sess EXCEPT ![w] = s]
      /\ Goto(w, IF kind \in {"check", "rotate"} THEN "active"
                 ELSE IF kind \in {"end", "stop"} THEN "ending"
                 ELSE IF kind \in Refreshing THEN "refresh" ELSE Settled(w))
      /\ UNCHANGED <<store, live, override, ledger, request, result, begun, boot>>

\* Mutant: every session is re-pinned, attested or not.
Refresh_Attested(w) ==
  /\ pc[w] = "refresh"
  /\ sess' = [sess EXCEPT ![w].policy = live]
  /\ Goto(w, Settled(w))
  /\ UNCHANGED <<store, live, override, ledger, request, result, begun, boot>>

\* refreshUnattestedPolicyHash, on the handler's copy only.
Refresh(w) ==
  /\ pc[w] = "refresh"
  /\ sess' = [sess EXCEPT ![w].policy = IF sess[w].signer = None THEN live ELSE @]
  /\ Goto(w, Settled(w))
  /\ UNCHANGED <<store, live, override, ledger, request, result, begun, boot>>

\* ErrSessionNotFound: a hook makes a session, Stop shrugs, the rest answer 404.
NotFound(w) ==
  LET kind == request[w].kind IN
  /\ pc[w] = "look"
  /\ sessions[request[w].id] = None
  /\ Goto(w, IF kind \in PreTool \cup Observing THEN "new"
             ELSE IF kind = "stop" THEN "answered" ELSE "error")
  /\ UNCHANGED <<store, live, override, ledger, request, sess, result, begun, boot>>

\* An unattested session is bound to the live policy.
New(w) ==
  /\ pc[w] = "new"
  /\ sess' = [sess EXCEPT ![w] = [signer |-> None, policy |-> live]]
  /\ Goto(w, "insert")
  /\ UNCHANGED <<store, live, override, ledger, request, result, begun, boot>>

Attestation(w) == {[id |-> request[w].id, key |-> sess[w].signer, policy |-> sess[w].policy]}

\* Mutant: CreateSession does not look whether the session exists.
Insert_Overwrites(w) ==
  LET id == request[w].id IN
  /\ pc[w] = "insert"
  /\ sessions' = [sessions EXCEPT ![id] = sess[w]]
  /\ Goto(w, IF request[w].kind \in Recording THEN "record" ELSE Settled(w))
  /\ attested' = attested \cup Attestation(w)
  /\ UNCHANGED <<ended, expired, live, override, ledger, request, sess, result, begun, boot>>

\* Mutant: a session that another request has just created is used as it is.
Insert_NoRefresh(w) ==
  LET id == request[w].id
      fresh == sessions[id] = None
  IN  /\ pc[w] = "insert"
      /\ IF fresh
         THEN /\ sessions' = [sessions EXCEPT ![id] = sess[w]]
              /\ Goto(w, IF request[w].kind \in Recording THEN "record" ELSE Settled(w))
              /\ attested' = attested \cup Attestation(w)
              /\ UNCHANGED sess
         ELSE /\ sess' = [sess EXCEPT ![w] = sessions[id]]
              /\ Goto(w, IF request[w].kind \in Minting THEN "error" ELSE Settled(w))
              /\ UNCHANGED <<sessions, attested>>
      /\ UNCHANGED <<ended, expired, live, override, ledger, request, result, begun, boot>>

\* CreateSession.  When another request was first (ErrSessionExists), a hook
\* reads the session again.
Insert(w) ==
  LET id == request[w].id
      fresh == sessions[id] = None
  IN  /\ pc[w] = "insert"
      /\ IF fresh
         THEN /\ sessions' = [sessions EXCEPT ![id] = sess[w]]
              /\ Goto(w, IF request[w].kind \in Recording THEN "record" ELSE Settled(w))
              /\ attested' = attested \cup Attestation(w)
         ELSE /\ Goto(w, IF request[w].kind \in Minting THEN "error" ELSE "look")
              /\ UNCHANGED <<sessions, attested>>
      /\ UNCHANGED <<ended, expired, live, override, ledger, request, sess, result, begun, boot>>

\* IsSessionActive; an ended session is answered 410.
CheckActive(w) ==
  /\ pc[w] = "active"
  /\ Goto(w, IF request[w].id \in ended THEN "error"
             ELSE IF request[w].kind = "check" THEN "evaluate" ELSE "update")
  /\ UNCHANGED <<store, live, override, ledger, request, sess, result, begun, boot>>

\* The client signs its attestation over the policy it was shown.
Signed(w) == [signer |-> request[w].key, policy |-> begun[w].live]

\* Mutant: UpdateSession does not look whether the session has ended.
Update_Ended(w) ==
  LET id == request[w].id IN
  /\ pc[w] = "update"
  /\ sess' = [sess EXCEPT ![w] = Signed(w)]
  /\ sessions' = [sessions EXCEPT ![id] = Signed(w)]
  /\ expired' = expired \ {id}
  /\ attested' = attested \cup {[id |-> id, key |-> request[w].key, policy |-> begun[w].live]}
  /\ Goto(w, "record")
  /\ UNCHANGED <<ended, live, override, ledger, request, result, begun, boot>>

\* UpdateSession, on behalf of session.rotate.
Update(w) ==
  LET id == request[w].id IN
  /\ pc[w] = "update"
  /\ IF id \in ended
     THEN /\ Goto(w, "error")
          /\ UNCHANGED <<sessions, expired, attested, sess>>
     ELSE /\ sess' = [sess EXCEPT ![w] = Signed(w)]
          /\ sessions' = [sessions EXCEPT ![id] = Signed(w)]
          /\ expired' = expired \ {id}
          /\ attested' = attested \cup {[id |-> id, key |-> request[w].key, policy |-> begun[w].live]}
          /\ Goto(w, "record")
  /\ UNCHANGED <<ended, live, override, ledger, request, result, begun, boot>>

\* EndSession, on behalf of session.end or of a Stop hook.
End(w) ==
  LET id == request[w].id IN
  /\ pc[w] = "ending"
  /\ ended' = ended \cup {id}
  /\ Goto(w, IF request[w].kind = "stop" THEN "answered"
             ELSE IF id \in ended THEN "error" ELSE "record")
  /\ UNCHANGED <<sessions, expired, attested, live, override, ledger, request, sess, result, begun, boot>>

-----------------------------------------------------------------------------
\* The ledger

Entry(w, kind) ==
  [kind |-> kind, id |-> request[w].id, call |-> request[w].call,
   signer |-> sess[w].signer, policy |-> sess[w].policy,
   verdict |-> result[w].recorded, monitor |-> result[w].monitor, boot |-> boot]

\* The entry of session.create, rotate, end, unattested or auto-create.
Record(w) ==
  /\ pc[w] = "record"
  /\ ledger' = Append(ledger,
       Entry(w, IF request[w].kind \in PreTool \cup Observing THEN "auto-create" ELSE request[w].kind))
  /\ Goto(w, Settled(w))
  /\ UNCHANGED <<store, live, override, request, sess, result, begun, boot>>

\* ... which the hooks only log when it fails.
RecordFails(w) ==
  /\ MayFail
  /\ pc[w] = "record"
  /\ Goto(w, IF request[w].kind \in PreTool \cup Observing THEN Settled(w) ELSE "error")
  /\ UNCHANGED <<store, live, override, ledger, request, sess, result, begun, boot>>

\* evaluatePolicyForSession: the policy that the copy of the session pins.
Evaluate(w) ==
  LET r == Results[Outcome[sess[w].policy]] IN
  /\ pc[w] = "evaluate"
  /\ result' = [result EXCEPT ![w].verdict = r[1], ![w].recorded = r[2], ![w].monitor = r[3]]
  /\ Goto(w, "decide")
  /\ UNCHANGED <<store, live, override, ledger, request, sess, begun, boot>>

\* Mutant: what is recorded is the verdict after the override.
Decide_RecordsSuppressed(w) ==
  LET r == result[w]
      suppress == DaemonMode = "monitor" /\ r.verdict = "deny"
      escalate == DaemonMode = "firewall" /\ r.monitor /\ r.recorded = "deny"
      final == IF suppress THEN "allow" ELSE IF escalate THEN "deny" ELSE r.verdict
  IN  /\ pc[w] = "decide"
      /\ result' = [result EXCEPT ![w] =
           [verdict |-> final, recorded |-> final,
            monitor |-> (r.monitor \/ suppress) /\ ~escalate, mode |-> DaemonMode, seq |-> 0]]
      /\ Goto(w, IF request[w].kind = "check" /\ final = "allow" /\ MayDeny THEN "guardrails" ELSE "append")
      /\ UNCHANGED <<store, live, override, ledger, request, sess, begun, boot>>

\* applyDaemonModeOverride.  The verdict that goes to the ledger is the one
\* before a suppression and after an escalation.
Decide(w) ==
  LET r == result[w]
      suppress == DaemonMode = "monitor" /\ r.verdict = "deny"
      escalate == DaemonMode = "firewall" /\ r.monitor /\ r.recorded = "deny"
      final == IF suppress THEN "allow" ELSE IF escalate THEN "deny" ELSE r.verdict
      recorded == IF escalate THEN "deny" ELSE r.verdict
  IN  /\ pc[w] = "decide"
      /\ result' = [result EXCEPT ![w] =
           [verdict |-> final, recorded |-> recorded,
            monitor |-> (r.monitor \/ suppress) /\ ~escalate, mode |-> DaemonMode, seq |-> 0]]
      /\ Goto(w, IF request[w].kind = "check" /\ final = "allow" /\ recorded = "allow" /\ MayDeny
                 THEN "guardrails" ELSE "append")
      /\ UNCHANGED <<store, live, override, ledger, request, sess, begun, boot>>

\* evaluateGuardrailsAfterLocalAllow: allow and abstain change nothing.
Guardrail(w) ==
  /\ pc[w] = "guardrails"
  /\ \/ UNCHANGED result
     \/ result' = [result EXCEPT ![w].verdict = "deny", ![w].recorded = "deny", ![w].monitor = FALSE]
  /\ Goto(w, "append")
  /\ UNCHANGED <<store, live, override, ledger, request, sess, begun, boot>>

\* The entry of the decision or of the outcome is appended, then the answer
\* is written.
AppendEntry(w) ==
  /\ pc[w] = "append"
  /\ ledger' = Append(ledger, Entry(w, IF request[w].kind \in Deciding THEN "decision" ELSE "observed"))
  /\ result' = [result EXCEPT ![w].seq = Len(ledger) + 1]
  /\ Goto(w, "answered")
  /\ UNCHANGED <<store, live, override, request, sess, begun, boot>>

\* The append fails: 500, no verdict.
AppendFails(w) ==
  /\ MayFail
  /\ pc[w] = "append"
  /\ Goto(w, "error")
  /\ UNCHANGED <<store, live, override, ledger, request, sess, result, begun, boot>>

-----------------------------------------------------------------------------
\* What goes on around the requests

\* A policy edit.
Swap ==
  /\ live < Len(Outcome)                                        \* bound
  /\ live' = live + 1
  /\ UNCHANGED <<store, override, ledger, pc, request, sess, result, begun, boot>>

\* PATCH /v1/mode.
SetMode(m) ==
  /\ override' = m
  /\ UNCHANGED <<store, live, ledger, pc, request, sess, result, begun, boot>>

\* The session's ExpiresAt passes.
Expire(id) ==
  /\ sessions[id] # None
  /\ expired' = expired \cup {id}
  /\ UNCHANGED <<sessions, ended, attested, live, override, ledger, pc, request, sess, result, begun, boot>>

\* The daemon restarts: the sessions and the override are in memory only.
Restart ==
  /\ boot < MaxRestarts                                         \* bound
  /\ boot' = boot + 1
  /\ sessions' = [i \in Id |-> None] /\ ended' = {} /\ expired' = {} /\ attested' = {}
  /\ override' = ""
  /\ pc' = [w \in Worker |-> "idle"]
  /\ request' = [w \in Worker |-> None]
  /\ sess' = [w \in Worker |-> None]
  /\ result' = [w \in Worker |-> NoResult]
  /\ begun' = [w \in Worker |-> NotBegun]
  /\ UNCHANGED <<live, ledger>>

Step(w) ==
  \/ \E r \in Request : Receive(w, r)
  \/ Found(w) \/ Refresh(w) \/ NotFound(w) \/ New(w) \/ Insert(w) \/ CheckActive(w) \/ Update(w) \/ End(w)
  \/ Record(w) \/ RecordFails(w)
  \/ Evaluate(w) \/ Decide(w) \/ Guardrail(w) \/ AppendEntry(w) \/ AppendFails(w)

Next ==
  /\ \/ \E w \in Worker : Step(w)
     \/ Swap
     \/ \E m \in Modes : SetMode(m)
     \/ \E id \in Id : Expire(id)
     \/ Restart
  /\ UNCHANGED scene

Spec == Init /\ [][Next]_vars

-----------------------------------------------------------------------------
\* Properties

Stage == {"idle", "look", "refresh", "new", "insert", "active", "update", "ending", "record",
          "evaluate", "decide", "guardrails", "append", "answered", "error"}

Session == [signer : Key \cup {None}, policy : Policies]

LedgerEntry ==
  [kind : Kinds \cup {"auto-create", "decision", "observed"}, id : Id, call : Call \cup {None},
   signer : Key \cup {None}, policy : Policies,
   verdict : {"allow", "deny", None}, monitor : BOOLEAN, boot : Nat]

Answer ==
  [verdict : {"allow", "deny", None}, recorded : {"allow", "deny", None},
   monitor : BOOLEAN, mode : {"firewall", "monitor", None}, seq : Nat]

Arrival == [live : Nat, ended : BOOLEAN, expired : BOOLEAN]

TypeOK ==
  /\ sessions \in [Id -> Session \cup {None}]
  /\ ended \subseteq Id /\ expired \subseteq Id
  /\ live \in Policies
  /\ override \in {"", "firewall", "monitor"}
  /\ ledger \in Seq(LedgerEntry)
  /\ pc \in [Worker -> Stage]
  /\ request \in [Worker -> Request \cup {None}]
  /\ sess \in [Worker -> Session \cup {None}]
  /\ result \in [Worker -> Answer]
  /\ begun \in [Worker -> Arrival]
  /\ attested \subseteq [id : Id, key : Key \cup {None}, policy : Policies]
  /\ boot \in Nat

Answered(w, kinds) == pc[w] = "answered" /\ request[w].kind \in kinds

\* The append happens before the verdict is returned: whatever fails, an
\* answered verdict has its own entry, a block is recorded as a denial and a
\* denial that is let through was suppressed by monitor mode and is marked.
AnswerRecorded ==
  \A w \in Worker : Answered(w, Deciding) =>
    /\ result[w].seq \in DOMAIN ledger
    /\ LET e == ledger[result[w].seq]
       IN  /\ e.kind = "decision" /\ e.id = request[w].id /\ e.boot = boot
           /\ e.signer = sess[w].signer /\ e.policy = sess[w].policy
           /\ result[w].verdict = "deny" => e.verdict = "deny"
           /\ (result[w].verdict = "allow" /\ e.verdict = "deny") =>
                (e.monitor /\ result[w].mode = "monitor")
    /\ \A v \in Worker \ {w} : Answered(v, Deciding) => result[v].seq # result[w].seq

\* The audit survives the daemon mode: a policy that denies is recorded as a
\* denial, in whatever mode and whenever the mode was flipped.
DenialsAudited ==
  \A i \in DOMAIN ledger :
    (ledger[i].kind = "decision" /\ Outcome[ledger[i].policy] = "deny") => ledger[i].verdict = "deny"

VerdictsAudited == AnswerRecorded /\ DenialsAudited

\* A gate check that arrives after its session has ended gets no verdict.
RefusedAfterEnd ==
  \A w \in Worker :
    (begun[w].ended /\ request[w] # None /\ request[w].kind = "check") =>
      pc[w] \in {"look", "active", "error"}

\* An ended session never changes again and never comes back, except that a
\* restart forgets it, whatever rotations were under way.
EndedIsFinal ==
  [][\A i \in ended : IF i \in ended' THEN sessions'[i] = sessions[i] ELSE sessions'[i] = None]_vars

\* A decision signed by an attested session used the very policy that this
\* signer committed to for this session, although sessions are rotated and
\* policies edited while the request is served.
AttestedPinned ==
  \A w \in Worker : (Answered(w, Deciding) /\ sess[w].signer # None) =>
    [id |-> request[w].id, key |-> sess[w].signer, policy |-> sess[w].policy] \in attested

FollowsLive(kinds) ==
  \A w \in Worker : (Answered(w, kinds) /\ sess[w].signer = None) => sess[w].policy >= begun[w].live

\* A Claude hook of an unattested session is decided by a policy that was
\* live during the request: an edit that was finished before is never missed.
ClaudeFollowsLive == FollowsLive({"claude", "desktop"})

\* hooks_codex.go, of Codex: "evaluate against the live policy".
HooksFollowLive == FollowsLive(PreTool)

\* Hooks that race to be a session's first create it once.
OneAutoCreate ==
  \A i, j \in DOMAIN ledger :
    (/\ ledger[i].kind = "auto-create" /\ ledger[j].kind = "auto-create"
     /\ ledger[i].id = ledger[j].id /\ ledger[i].boot = ledger[j].boot) => i = j

\* Where appends succeed, every session has an entry that says with which signer
\* and policy it is attested or that it was created, or one is about to append it.
SessionsRecorded ==
  \A id \in Id : ~MayFail /\ sessions[id] # None =>
    \/ \E i \in DOMAIN ledger :
         /\ ledger[i].id = id /\ ledger[i].boot = boot
         /\ ledger[i].kind \in Minting \cup {"rotate", "auto-create"}
         /\ ledger[i].signer = sessions[id].signer /\ ledger[i].policy = sessions[id].policy
    \/ \E w \in Worker : pc[w] = "record" /\ request[w].id = id /\ sess[w] = sessions[id]

SessionsHold == RefusedAfterEnd /\ OneAutoCreate /\ SessionsRecorded

\* mode.go: "a daemon-wide monitor setting forces all deny verdicts to allow".
MonitorNeverBlocks ==
  \A w \in Worker : (Answered(w, Deciding) /\ result[w].mode = "monitor") => result[w].verdict = "allow"

\* getting-started.md: out of the box "nothing is blocked".
NothingBlocked == \A w \in Worker : Answered(w, Deciding) => result[w].verdict = "allow"

\* storage.AppendInput.MonitorMatch: "true when the matched gate's verdict was
\* deny", and "the ledger keeps the original deny under Verdict for audit".
AlertsKeepTheDeny == \A i \in DOMAIN ledger : ledger[i].monitor => ledger[i].verdict = "deny"

\* hook-daemon-path.md: "replays of the same hook get the same verdict from
\* the same audit row".
ReplaysShareTheRow ==
  \A i, j \in DOMAIN ledger :
    (/\ ledger[i].kind = "decision" /\ ledger[j].kind = "decision" /\ ledger[i].call # None
     /\ ledger[i].id = ledger[j].id /\ ledger[i].call = ledger[j].call) => i = j

\* signers.md: "When a session expires, the next ledger append fails".
ExpiredCannotAppend == \A w \in Worker : Answered(w, Deciding) => ~begun[w].expired
=============================================================================
