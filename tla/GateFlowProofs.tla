--------------------------- MODULE GateFlowProofs ---------------------------
(***************************************************************************)
(* Proofs about GateFlow, for any scenario and any number of workers,      *)
(* sessions, signers, calls and entries.  WorkerOK says for each step of a *)
(* handler what its copies of the shared state are still good for, while   *)
(* the others go on; Grow says what none of them takes back.               *)
(***************************************************************************)
EXTENDS GateFlow, TLAPS, SequenceTheorems

\* What the copy of a session says, if it came from the store.
InHand == {"refresh", "active", "ending", "insert", "record", "evaluate", "decide",
           "guardrails", "append"}
\* The steps of a decision, from a settled session to the answer.
Decision == {"evaluate", "decide", "guardrails", "append", "answered"}

\* A worker with a request has it whole, of a policy that was live by now.
Asked(w) ==
  /\ pc[w] # "idle" => request[w] \in Request /\ begun[w].live \in Policies /\ begun[w].live <= live
  /\ pc[w] = "idle" => ~begun[w].ended
  /\ pc[w] \in InHand => sess[w] \in Session
  /\ pc[w] \in {"evaluate", "decide", "guardrails"} => request[w].kind \in Deciding
  /\ pc[w] = "ending" => request[w].kind \in {"end", "stop"}

\* The rejected: a request that came after the end gets no further.
Refused(w) ==
  pc[w] # "idle" /\ begun[w].ended =>
    /\ request[w].id \in ended
    /\ request[w].kind = "check" => pc[w] \in {"look", "active", "error"}

Attests(id, s) == [id |-> id, key |-> s.signer, policy |-> s.policy]

\* The copy of an attested session is as it was attested.
Pinned(w) ==
  /\ pc[w] \in Decision \cup {"refresh", "active", "record"} /\ request[w].kind \in Deciding =>
       (sess[w].signer # None => Attests(request[w].id, sess[w]) \in attested)
  /\ pc[w] = "ending" => sessions[request[w].id] # None

\* The copy of an unattested one has a policy that was live during the request.
Follows(w) ==
  pc[w] \in Decision \cup {"insert", "record"} /\ request[w].kind \in {"claude", "desktop"} =>
    (sess[w].signer = None => sess[w].policy >= begun[w].live)

\* Verdict, recorded verdict and mark belong together.
Truthful(r, outcome) ==
  /\ r.verdict \in {"allow", "deny"} /\ r.recorded \in {"allow", "deny"}
  /\ outcome = "deny" => r.recorded = "deny"
  /\ r.verdict = "deny" => r.recorded = "deny"
  /\ r.verdict = "allow" /\ r.recorded = "deny" => r.monitor /\ r.mode = "monitor"

Judged(w) ==
  /\ pc[w] = "decide" =>
       <<result[w].verdict, result[w].recorded, result[w].monitor>> = Results[Outcome[sess[w].policy]]
  /\ pc[w] = "guardrails" =>
       result[w].verdict = "allow" /\ result[w].recorded = "allow" /\ Outcome[sess[w].policy] # "deny"
  /\ pc[w] \in {"append", "guardrails"} /\ request[w].kind \in Deciding =>
       Truthful(result[w], Outcome[sess[w].policy])

\* An answer has its entry.
Filed(w) ==
  Answered(w, Deciding) =>
    /\ result[w].seq \in 1 .. Len(ledger)
    /\ LET e == ledger[result[w].seq]
       IN  /\ e.kind = "decision" /\ e.id = request[w].id /\ e.boot = boot
           /\ e.signer = sess[w].signer /\ e.policy = sess[w].policy
           /\ result[w].verdict = "deny" => e.verdict = "deny"
           /\ (result[w].verdict = "allow" /\ e.verdict = "deny") =>
                (e.monitor /\ result[w].mode = "monitor")

WorkerOK(w) == Asked(w) /\ Refused(w) /\ Pinned(w) /\ Follows(w) /\ Judged(w) /\ Filed(w)

OwnEntries ==
  \A v, w \in Worker :
    v # w /\ Answered(v, Deciding) /\ Answered(w, Deciding) => result[v].seq # result[w].seq

StoreOK ==
  /\ \A i \in ended : sessions[i] # None
  /\ \A i \in Id : sessions[i] # None => Attests(i, sessions[i]) \in attested

\* What no step takes back, a restart aside.
Grow ==
  /\ scene' = scene /\ boot' = boot
  /\ live' \in Nat /\ live <= live'
  /\ ended \subseteq ended' /\ attested \subseteq attested'
  /\ \A i \in Id : sessions[i] # None => sessions'[i] # None
  /\ Len(ledger') \in Nat /\ Len(ledger) <= Len(ledger')
  /\ \A n \in 1 .. Len(ledger) : ledger'[n] = ledger[n]

Unmoved(v) ==
  /\ pc'[v] = pc[v] /\ request'[v] = request[v] /\ sess'[v] = sess[v]
  /\ result'[v] = result[v] /\ begun'[v] = begun[v]

IInv ==
  /\ scene \in Scenario /\ TypeOK
  /\ \A w \in Worker : WorkerOK(w)
  /\ StoreOK /\ OwnEntries /\ DenialsAudited

-----------------------------------------------------------------------------
(* Facts about the constants. *)

LEMMA PolicyType ==
  ASSUME scene \in Scenario
  PROVE  /\ Outcome \in [Policies -> DOMAIN Results]
         /\ Policies \subseteq Nat /\ 1 \in Policies
         /\ Policies = 1 .. Len(Outcome) /\ Len(Outcome) \in Nat
         /\ Modes \subseteq {"", "firewall", "monitor"}
<1>1. Outcome \in Seq(DOMAIN Results) /\ Outcome # << >> /\ Modes \subseteq {"", "firewall", "monitor"}
  BY FlowAssumption DEF Outcome, Modes
<1>2. Len(Outcome) \in Nat /\ DOMAIN Outcome = 1 .. Len(Outcome) /\ Len(Outcome) # 0
  BY <1>1, LenProperties, EmptySeq, Zenon
<1>3. Policies = 1 .. Len(Outcome)
  BY <1>2 DEF Policies
<1>4. Policies \subseteq Nat /\ 1 \in Policies
  BY <1>2, <1>3
<1>5. Outcome \in [Policies -> DOMAIN Results]
  BY <1>1, <1>3, LenProperties, Zenon
<1>6. QED
  BY <1>1, <1>2, <1>3, <1>4, <1>5, Zenon

LEMMA KindsKnown ==
  ASSUME scene \in Scenario
  PROVE  Kinds \subseteq {"claude", "desktop", "codex", "check", "observe", "create", "unattested",
                          "rotate", "end", "stop"}
BY FlowAssumption DEF Kinds, Deciding, PreTool, Observing, Minting, Attesting

LEMMA OutcomeType ==
  ASSUME scene \in Scenario, NEW p \in Policies
  PROVE  Outcome[p] \in {"allow", "deny", "monitored", "matched"}
<1>1. DOMAIN Results = {"allow", "deny", "monitored", "matched"}
  BY DEF Results
<1>2. Outcome \in [Policies -> DOMAIN Results]
  BY PolicyType, Zenon
<1>3. QED
  BY <1>1, <1>2, Zenon

\* A session is not None.
LEMMA SessionsAreSomething ==
  ASSUME scene \in Scenario
  PROVE  None \notin Session
<1>1. Policies \subseteq Nat
  BY PolicyType, Zenon
<1>2. Session \subseteq [signer : Key \cup {None}, policy : Nat]
  BY <1>1 DEF Session
<1>3. QED
  BY <1>2, FlowAssumption

LEMMA SceneFixed ==
  ASSUME scene' = scene
  PROVE  /\ Session' = Session /\ Policies' = Policies /\ Request' = Request
         /\ Kinds' = Kinds /\ Outcome' = Outcome /\ LedgerEntry' = LedgerEntry
BY DEF Session, Policies, Request, Kinds, Outcome, LedgerEntry

LEMMA RequestType ==
  ASSUME NEW r \in Request
  PROVE  r.kind \in Kinds /\ r.id \in Id /\ r.call \in Call \cup {None} /\ r.key \in Key \cup {None}
BY DEF Request

-----------------------------------------------------------------------------
LEMMA InitEstablishes == Init => IInv
<1> SUFFICES ASSUME Init PROVE IInv
  OBVIOUS
<1>1. scene \in Scenario
  BY DEF Init
<1>2. 1 \in Policies /\ Policies \subseteq Nat
  BY <1>1, PolicyType, Zenon
<1>3. TypeOK
  <2>1. sessions \in [Id -> Session \cup {None}] /\ ended \subseteq Id /\ expired \subseteq Id
    BY DEF Init
  <2>2. /\ live \in Policies /\ override \in {"", "firewall", "monitor"} /\ boot \in Nat
        /\ ledger = << >> /\ attested = {}
    BY <1>2 DEF Init
  <2>3. pc \in [Worker -> Stage] /\ request \in [Worker -> Request \cup {None}]
    BY DEF Init, Stage
  <2>4. sess \in [Worker -> Session \cup {None}]
    BY DEF Init
  <2>5. result \in [Worker -> Answer]
    BY DEF Init, NoResult, Answer
  <2>6. begun \in [Worker -> Arrival]
    BY DEF Init, NotBegun, Arrival
  <2>7. QED
    BY <2>1, <2>2, <2>3, <2>4, <2>5, <2>6, EmptySeq, Zenon DEF TypeOK
<1>4. \A w \in Worker : WorkerOK(w)
  BY DEF Init, WorkerOK, Asked, Refused, Pinned, Follows, Judged, Filed, Answered, InHand, Decision,
         NotBegun
<1>5. StoreOK /\ OwnEntries
  BY DEF Init, StoreOK, OwnEntries, Answered
<1>6. DenialsAudited
  <2>1. ledger = << >>
    BY DEF Init
  <2>2. << >> \in Seq(STRING)
    BY EmptySeq, Zenon
  <2>3. Len(<< >>) = 0 /\ DOMAIN << >> = 1 .. Len(<< >>)
    BY <2>2, EmptySeq, LenProperties, Zenon
  <2>4. QED
    BY <2>1, <2>3 DEF DenialsAudited
<1>7. QED
  BY <1>1, <1>3, <1>4, <1>5, <1>6 DEF IInv

-----------------------------------------------------------------------------
(* The workers that do not move. *)

\* The variables of a worker have their types.
LEMMA WorkerTypes ==
  ASSUME IInv, NEW w \in Worker
  PROVE  /\ pc[w] \in Stage /\ request[w] \in Request \cup {None} /\ sess[w] \in Session \cup {None}
         /\ result[w] \in Answer /\ begun[w] \in Arrival
         /\ live \in Nat /\ Len(ledger) \in Nat /\ None \notin Session
<1>1. live \in Nat
  BY PolicyType DEF IInv, TypeOK
<1>2. Len(ledger) \in Nat
  BY LenProperties DEF IInv, TypeOK
<1>3. None \notin Session
  BY SessionsAreSomething DEF IInv
<1>4. QED
  BY <1>1, <1>2, <1>3 DEF IInv, TypeOK

LEMMA OthersKeep ==
  ASSUME IInv, Grow, NEW v \in Worker, Unmoved(v)
  PROVE  WorkerOK(v)'
<1>1. WorkerOK(v)
  BY DEF IInv
<1>2. begun[v].live \in Nat /\ live \in Nat /\ Len(ledger) \in Nat
  BY WorkerTypes DEF Arrival
<1>3. /\ Session' = Session /\ Policies' = Policies /\ Request' = Request /\ Outcome' = Outcome
  BY SceneFixed DEF Grow
<1>4. pc[v] # "idle" => request[v].id \in Id
  BY <1>1, RequestType DEF WorkerOK, Asked
<1>5. Asked(v)'
  BY <1>1, <1>2, <1>3 DEF Grow, Unmoved, WorkerOK, Asked
<1>6. Refused(v)' /\ Pinned(v)'
  BY <1>1, <1>4 DEF Grow, Unmoved, WorkerOK, Refused, Pinned, Attests
<1>7. Follows(v)' /\ Judged(v)'
  BY <1>1, <1>3 DEF Grow, Unmoved, WorkerOK, Follows, Judged
<1>8. Filed(v)'
  BY <1>1, <1>2 DEF Grow, Unmoved, WorkerOK, Filed, Answered
<1>9. QED
  BY <1>5, <1>6, <1>7, <1>8 DEF WorkerOK

\* Enough for a step of one worker.
LEMMA StepKeeps ==
  ASSUME IInv, NEW w \in Worker, Grow, \A v \in Worker \ {w} : Unmoved(v),
         TypeOK', WorkerOK(w)', StoreOK', DenialsAudited',
         Answered(w, Deciding)' => result'[w].seq \notin 1 .. Len(ledger)
  PROVE  IInv'
<1>1. \A v \in Worker : WorkerOK(v)'
  BY OthersKeep
<1>2. OwnEntries'
  <2>1. \A v \in Worker \ {w} : Answered(v, Deciding)' =>
          Answered(v, Deciding) /\ result'[v].seq = result[v].seq /\ result[v].seq \in 1 .. Len(ledger)
    BY DEF IInv, WorkerOK, Filed, Unmoved, Answered
  <2>2. OwnEntries
    BY DEF IInv
  <2>3. QED
    BY <2>1, <2>2 DEF OwnEntries
<1>3. QED
  BY <1>1, <1>2 DEF IInv, Grow

\* Enough for a step of one worker that touches nothing but its own copies.
LEMMA LocalKeeps ==
  ASSUME IInv, NEW w \in Worker,
         UNCHANGED <<scene, store, live, override, ledger, request, begun, boot>>,
         NEW t \in Stage, pc' = [pc EXCEPT ![w] = t],
         sess' \in [Worker -> Session \cup {None}], \A v \in Worker \ {w} : sess'[v] = sess[v],
         result' \in [Worker -> Answer], \A v \in Worker \ {w} : result'[v] = result[v],
         Answered(w, Deciding)' => FALSE,
         WorkerOK(w)'
  PROVE  IInv'
<1>1. Session' = Session /\ Policies' = Policies /\ Request' = Request /\ Outcome' = Outcome
      /\ LedgerEntry' = LedgerEntry
  BY SceneFixed
<1>2. TypeOK'
  BY <1>1 DEF IInv, TypeOK, store
<1>3. Grow
  BY WorkerTypes DEF Grow, store
<1>4. \A v \in Worker \ {w} : Unmoved(v)
  BY DEF Unmoved, IInv, TypeOK
<1>5. StoreOK'
  BY DEF IInv, StoreOK, Attests, store
<1>6. DenialsAudited'
  BY <1>1 DEF IInv, DenialsAudited
<1>7. QED
  BY <1>2, <1>3, <1>4, <1>5, <1>6, StepKeeps

-----------------------------------------------------------------------------
(* The steps that read the shared state. *)

LEMMA WhereItGoes ==
  ASSUME NEW w \in Worker
  PROVE  /\ Settled(w) \in {"evaluate", "append", "answered"}
         /\ Settled(w) = "evaluate" <=> request[w].kind \in Deciding
         /\ Settled(w) = "append" => request[w].kind \in Observing
         /\ Settled(w) = "answered" => request[w].kind \notin Deciding
BY DEF Settled, Deciding, Observing, PreTool

LEMMA FoundKeeps ==
  ASSUME IInv, NEW w \in Worker, Found(w), UNCHANGED scene
  PROVE  IInv'
<1> DEFINE s == sessions[request[w].id]
           kind == request[w].kind
           t == IF kind \in {"check", "rotate"} THEN "active"
                ELSE IF kind \in {"end", "stop"} THEN "ending"
                ELSE IF kind \in Refreshing THEN "refresh" ELSE Settled(w)
<1>1. WorkerOK(w) /\ pc[w] = "look"
  BY DEF IInv, Found
<1>2. request[w] \in Request /\ request[w].id \in Id
  BY <1>1, RequestType DEF WorkerOK, Asked
<1>3. s \in Session /\ s # None /\ Attests(request[w].id, s) \in attested
  BY <1>2 DEF Found, IInv, TypeOK, StoreOK
<1>4. t \in Stage /\ t \notin {"idle", "insert", "record", "decide", "guardrails"}
  BY WhereItGoes DEF Stage
<1>5. t = "answered" => kind \notin Deciding
  BY WhereItGoes
<1>6. t \in Decision => kind \notin {"check", "claude", "desktop"}
  BY WhereItGoes DEF Decision, Refreshing
<1>7. pc' = [pc EXCEPT ![w] = t] /\ sess' = [sess EXCEPT ![w] = s]
  BY DEF Found, Goto
<1>8. pc'[w] = t /\ sess'[w] = s /\ UNCHANGED <<scene, store, live, override, ledger, request, result, begun, boot>>
  BY <1>7 DEF IInv, TypeOK, Found
<1>9. WorkerOK(w)'
  <2>1. Asked(w)'
    BY <1>1, <1>3, <1>4, <1>8, SceneFixed, WhereItGoes DEF WorkerOK, Asked, InHand, Refreshing
  <2>2. Refused(w)'
    BY <1>1, <1>4, <1>8 DEF WorkerOK, Refused, store
  <2>3. Pinned(w)'
    BY <1>1, <1>3, <1>4, <1>8 DEF Pinned, store
  <2>4. Follows(w)'
    BY <1>4, <1>6, <1>8 DEF Follows
  <2>5. Judged(w)' /\ Filed(w)'
    BY <1>4, <1>5, <1>6, <1>8, WhereItGoes DEF Judged, Filed, Answered, Deciding, PreTool
  <2>6. QED
    BY <2>1, <2>2, <2>3, <2>4, <2>5 DEF WorkerOK
<1>10. /\ sess' \in [Worker -> Session \cup {None}] /\ \A v \in Worker \ {w} : sess'[v] = sess[v]
       /\ result' \in [Worker -> Answer] /\ \A v \in Worker \ {w} : result'[v] = result[v]
  BY <1>3, <1>7, <1>8 DEF IInv, TypeOK
<1>11. Answered(w, Deciding)' => FALSE
  BY <1>5, <1>8 DEF Answered
<1>12. QED
  BY <1>4, <1>7, <1>8, <1>9, <1>10, <1>11, LocalKeeps

LEMMA RefreshKeeps ==
  ASSUME IInv, NEW w \in Worker, Refresh(w), UNCHANGED scene
  PROVE  IInv'
<1> DEFINE s == [sess[w] EXCEPT !.policy = IF sess[w].signer = None THEN live ELSE @]
           t == Settled(w)
<1>1. WorkerOK(w) /\ pc[w] = "refresh" /\ sess[w] \in Session /\ request[w] \in Request
  BY DEF IInv, Refresh, WorkerOK, Asked, InHand
<1>2. live \in Policies /\ live \in Nat /\ begun[w].live \in Nat /\ begun[w].live <= live
  BY <1>1, WorkerTypes DEF IInv, TypeOK, Arrival, WorkerOK, Asked
<1>3. /\ s \in Session /\ s.signer = sess[w].signer
      /\ IF sess[w].signer = None THEN s.policy = live ELSE s.policy = sess[w].policy
  BY <1>1, <1>2 DEF Session
<1>4. t \in {"evaluate", "append", "answered"} /\ t \in Stage
  BY WhereItGoes DEF Stage
<1>5. pc' = [pc EXCEPT ![w] = t] /\ sess' = [sess EXCEPT ![w] = s]
  BY DEF Refresh, Goto
<1>6. /\ pc'[w] = t /\ sess'[w] = s
      /\ UNCHANGED <<scene, store, live, override, ledger, request, result, begun, boot>>
  BY <1>5 DEF IInv, TypeOK, Refresh
<1>7. WorkerOK(w)'
  <2>1. Asked(w)'
    BY <1>1, <1>3, <1>4, <1>6, SceneFixed, WhereItGoes DEF WorkerOK, Asked, InHand
  <2>2. Refused(w)'
    BY <1>1, <1>6 DEF WorkerOK, Refused, store
  <2>3. Pinned(w)'
    BY <1>1, <1>3, <1>4, <1>6 DEF WorkerOK, Pinned, store, Attests
  <2>4. Follows(w)'
    BY <1>2, <1>3, <1>6 DEF Follows
  <2>5. Judged(w)' /\ Filed(w)'
    BY <1>4, <1>6, WhereItGoes DEF Judged, Filed, Answered, Deciding, PreTool, Observing
  <2>6. QED
    BY <2>1, <2>2, <2>3, <2>4, <2>5 DEF WorkerOK
<1>8. /\ sess' \in [Worker -> Session \cup {None}] /\ \A v \in Worker \ {w} : sess'[v] = sess[v]
      /\ result' \in [Worker -> Answer] /\ \A v \in Worker \ {w} : result'[v] = result[v]
  BY <1>3, <1>5, <1>6 DEF IInv, TypeOK
<1>9. Answered(w, Deciding)' => FALSE
  BY <1>6, WhereItGoes DEF Answered
<1>10. QED
  BY <1>4, <1>5, <1>6, <1>7, <1>8, <1>9, LocalKeeps

LEMMA NotFoundKeeps ==
  ASSUME IInv, NEW w \in Worker, NotFound(w), UNCHANGED scene
  PROVE  IInv'
<1> DEFINE kind == request[w].kind
           t == IF kind \in PreTool \cup Observing THEN "new"
                ELSE IF kind = "stop" THEN "answered" ELSE "error"
<1>1. WorkerOK(w) /\ pc[w] = "look" /\ request[w] \in Request
  BY DEF IInv, NotFound, WorkerOK, Asked
<1>2. t \in {"new", "answered", "error"} /\ t \in Stage /\ (t = "answered" => kind \notin Deciding)
  BY DEF Stage, Deciding, PreTool
<1>3. kind = "check" => t = "error"
  BY DEF PreTool, Observing
<1>4. pc' = [pc EXCEPT ![w] = t]
  BY DEF NotFound, Goto
<1>5. /\ pc'[w] = t
      /\ UNCHANGED <<scene, store, live, override, ledger, request, sess, result, begun, boot>>
  BY <1>4 DEF IInv, TypeOK, NotFound
<1>6. WorkerOK(w)'
  <2>1. Asked(w)'
    BY <1>1, <1>2, <1>5, SceneFixed DEF WorkerOK, Asked, InHand
  <2>2. Refused(w)'
    BY <1>1, <1>3, <1>5 DEF WorkerOK, Refused, store
  <2>3. Pinned(w)' /\ Follows(w)'
    BY <1>2, <1>5 DEF Pinned, Follows, Decision, Deciding, PreTool
  <2>4. Judged(w)' /\ Filed(w)'
    BY <1>2, <1>5 DEF Judged, Filed, Answered
  <2>5. QED
    BY <2>1, <2>2, <2>3, <2>4 DEF WorkerOK
<1>7. sess \in [Worker -> Session \cup {None}] /\ result \in [Worker -> Answer]
  BY DEF IInv, TypeOK
<1>8. Answered(w, Deciding)' => FALSE
  BY <1>2, <1>5 DEF Answered
<1>9. QED
  BY <1>2, <1>4, <1>5, <1>6, <1>7, <1>8, SceneFixed, LocalKeeps

LEMMA NewKeeps ==
  ASSUME IInv, NEW w \in Worker, New(w), UNCHANGED scene
  PROVE  IInv'
<1> DEFINE s == [signer |-> None, policy |-> live]
<1>1. WorkerOK(w) /\ pc[w] = "new" /\ request[w] \in Request
  BY DEF IInv, New, WorkerOK, Asked
<1>2. live \in Nat /\ begun[w].live \in Nat /\ begun[w].live <= live /\ s \in Session
  BY <1>1, WorkerTypes DEF IInv, TypeOK, Arrival, WorkerOK, Asked, Session
<1>3. pc' = [pc EXCEPT ![w] = "insert"] /\ sess' = [sess EXCEPT ![w] = s]
  BY DEF New, Goto
<1>4. /\ pc'[w] = "insert" /\ sess'[w] = s
      /\ UNCHANGED <<scene, store, live, override, ledger, request, result, begun, boot>>
  BY <1>3 DEF IInv, TypeOK, New
<1>5. WorkerOK(w)'
  <2>1. Asked(w)'
    BY <1>1, <1>2, <1>4, SceneFixed DEF WorkerOK, Asked
  <2>2. Refused(w)'
    BY <1>1, <1>4 DEF WorkerOK, Refused, store
  <2>3. Pinned(w)' /\ Follows(w)' /\ Judged(w)' /\ Filed(w)'
    BY <1>2, <1>4 DEF Pinned, Follows, Judged, Filed, Answered, Decision
  <2>4. QED
    BY <2>1, <2>2, <2>3 DEF WorkerOK
<1>6. /\ sess' \in [Worker -> Session \cup {None}] /\ \A v \in Worker \ {w} : sess'[v] = sess[v]
      /\ result' \in [Worker -> Answer] /\ \A v \in Worker \ {w} : result'[v] = result[v]
  BY <1>2, <1>3, <1>4 DEF IInv, TypeOK
<1>7. Answered(w, Deciding)' => FALSE
  BY <1>4 DEF Answered
<1>8. "insert" \in Stage
  BY DEF Stage
<1>9. QED
  BY <1>3, <1>4, <1>5, <1>6, <1>7, <1>8, LocalKeeps

LEMMA CheckActiveKeeps ==
  ASSUME IInv, NEW w \in Worker, CheckActive(w), UNCHANGED scene
  PROVE  IInv'
<1> DEFINE t == IF request[w].id \in ended THEN "error"
                ELSE IF request[w].kind = "check" THEN "evaluate" ELSE "update"
<1>1. WorkerOK(w) /\ pc[w] = "active" /\ request[w] \in Request /\ sess[w] \in Session
  BY DEF IInv, CheckActive, WorkerOK, Asked, InHand
<1>2. t \in {"error", "evaluate", "update"} /\ t \in Stage
  BY DEF Stage
<1>3. pc' = [pc EXCEPT ![w] = t]
  BY DEF CheckActive, Goto
<1>4. /\ pc'[w] = t
      /\ UNCHANGED <<scene, store, live, override, ledger, request, sess, result, begun, boot>>
  BY <1>3 DEF IInv, TypeOK, CheckActive
<1>5. WorkerOK(w)'
  <2>1. Asked(w)'
    BY <1>1, <1>4, SceneFixed DEF WorkerOK, Asked, InHand, Deciding
  <2>2. Refused(w)'
    BY <1>1, <1>4 DEF WorkerOK, Refused, store
  <2>3. Pinned(w)'
    BY <1>1, <1>2, <1>4 DEF WorkerOK, Pinned, store
  <2>4. Follows(w)' /\ Judged(w)' /\ Filed(w)'
    BY <1>2, <1>4 DEF Follows, Judged, Filed, Answered, Decision
  <2>5. QED
    BY <2>1, <2>2, <2>3, <2>4 DEF WorkerOK
<1>6. sess \in [Worker -> Session \cup {None}] /\ result \in [Worker -> Answer]
  BY DEF IInv, TypeOK
<1>7. Answered(w, Deciding)' => FALSE
  BY <1>2, <1>4 DEF Answered
<1>8. QED
  BY <1>2, <1>3, <1>4, <1>5, <1>6, <1>7, SceneFixed, LocalKeeps

-----------------------------------------------------------------------------
(* The steps that decide, and the appends that fail. *)

\* A worker whose append fails, or that goes on without its entry.
LEMMA GoesOn ==
  ASSUME IInv, NEW w \in Worker, pc[w] \in {"record", "append"},
         NEW t \in {"error", Settled(w)}, pc[w] = "append" => t = "error",
         pc' = [pc EXCEPT ![w] = t],
         UNCHANGED <<scene, store, live, override, ledger, request, sess, result, begun, boot>>
  PROVE  IInv'
<1>1. WorkerOK(w) /\ request[w] \in Request /\ sess[w] \in Session
  BY DEF IInv, WorkerOK, Asked, InHand
<1>2. /\ t \in {"error", "evaluate", "append", "answered"} /\ t \in Stage
      /\ t = "answered" => request[w].kind \notin Deciding
      /\ t = "evaluate" => request[w].kind \in Deciding
      /\ t = "append" => request[w].kind \notin Deciding
  BY WhereItGoes DEF Stage, Deciding, PreTool, Observing
<1>3. pc'[w] = t
  BY DEF IInv, TypeOK
<1>4. WorkerOK(w)'
  <2>1. Asked(w)'
    BY <1>1, <1>2, <1>3, SceneFixed DEF WorkerOK, Asked
  <2>2. Refused(w)'
    BY <1>1, <1>2, <1>3 DEF WorkerOK, Refused, store
  <2>3. Pinned(w)'
    BY <1>1, <1>2, <1>3 DEF WorkerOK, Pinned, store, Decision
  <2>4. Follows(w)'
    BY <1>1, <1>2, <1>3 DEF WorkerOK, Follows, Decision
  <2>5. Judged(w)' /\ Filed(w)'
    BY <1>2, <1>3 DEF Judged, Filed, Answered
  <2>6. QED
    BY <2>1, <2>2, <2>3, <2>4, <2>5 DEF WorkerOK
<1>5. sess \in [Worker -> Session \cup {None}] /\ result \in [Worker -> Answer]
  BY DEF IInv, TypeOK
<1>6. Answered(w, Deciding)' => FALSE
  BY <1>2, <1>3 DEF Answered
<1>7. QED
  BY <1>2, <1>4, <1>5, <1>6, SceneFixed, LocalKeeps

LEMMA FailuresKeep ==
  ASSUME IInv, NEW w \in Worker, RecordFails(w) \/ AppendFails(w), UNCHANGED scene
  PROVE  IInv'
<1>1. CASE RecordFails(w)
  <2> DEFINE t == IF request[w].kind \in PreTool \cup Observing THEN Settled(w) ELSE "error"
  <2>1. t \in {"error", Settled(w)}
    OBVIOUS
  <2>2. pc' = [pc EXCEPT ![w] = t] /\ pc[w] = "record"
    BY <1>1 DEF RecordFails, Goto
  <2>3. QED
    BY <1>1, <2>1, <2>2, GoesOn DEF RecordFails
<1>2. CASE AppendFails(w)
  BY <1>2, GoesOn DEF AppendFails, Goto
<1>3. QED
  BY <1>1, <1>2

LEMMA ResultType ==
  ASSUME NEW outcome \in {"allow", "deny", "monitored", "matched"}
  PROVE  LET r == Results[outcome]
         IN  /\ r = <<r[1], r[2], r[3]>>
             /\ r[1] \in {"allow", "deny"} /\ r[2] \in {"allow", "deny"} /\ r[3] \in BOOLEAN
<1>1. CASE outcome = "allow"
  BY <1>1 DEF Results
<1>2. CASE outcome = "deny"
  BY <1>2 DEF Results
<1>3. CASE outcome = "monitored"
  BY <1>3 DEF Results
<1>4. CASE outcome = "matched"
  BY <1>4 DEF Results
<1>5. QED
  BY <1>1, <1>2, <1>3, <1>4

LEMMA EvaluateKeeps ==
  ASSUME IInv, NEW w \in Worker, Evaluate(w), UNCHANGED scene
  PROVE  IInv'
<1> DEFINE r == Results[Outcome[sess[w].policy]]
           a == [result[w] EXCEPT !.verdict = r[1], !.recorded = r[2], !.monitor = r[3]]
<1>1. WorkerOK(w) /\ pc[w] = "evaluate" /\ request[w] \in Request /\ sess[w] \in Session
  BY DEF IInv, Evaluate, WorkerOK, Asked, InHand
<1>2. request[w].kind \in Deciding
  BY <1>1 DEF WorkerOK, Asked
<1>3. Outcome[sess[w].policy] \in {"allow", "deny", "monitored", "matched"}
  BY <1>1, OutcomeType DEF Session, IInv
<1>4. r = <<r[1], r[2], r[3]>> /\ r[1] \in {"allow", "deny"} /\ r[2] \in {"allow", "deny"} /\ r[3] \in BOOLEAN
  BY <1>3, ResultType
<1>5. a \in Answer /\ a.verdict = r[1] /\ a.recorded = r[2] /\ a.monitor = r[3]
  BY <1>4, WorkerTypes DEF Answer
<1>6. pc' = [pc EXCEPT ![w] = "decide"] /\ result' = [result EXCEPT ![w] = a]
  BY DEF Evaluate, Goto
<1>7. /\ pc'[w] = "decide" /\ result'[w] = a
      /\ UNCHANGED <<scene, store, live, override, ledger, request, sess, begun, boot>>
  BY <1>6 DEF IInv, TypeOK, Evaluate
<1>8. WorkerOK(w)'
  <2>1. Asked(w)'
    BY <1>1, <1>2, <1>7, SceneFixed DEF WorkerOK, Asked
  <2>2. Refused(w)'
    BY <1>1, <1>7 DEF WorkerOK, Refused, store
  <2>3. Pinned(w)'
    BY <1>1, <1>7 DEF WorkerOK, Pinned, store, Decision
  <2>4. Follows(w)'
    BY <1>1, <1>7 DEF WorkerOK, Follows, Decision
  <2>5. Judged(w)' /\ Filed(w)'
    BY <1>4, <1>5, <1>7, SceneFixed DEF Judged, Filed, Answered
  <2>6. QED
    BY <2>1, <2>2, <2>3, <2>4, <2>5 DEF WorkerOK
<1>9. /\ sess' \in [Worker -> Session \cup {None}] /\ \A v \in Worker \ {w} : sess'[v] = sess[v]
      /\ result' \in [Worker -> Answer] /\ \A v \in Worker \ {w} : result'[v] = result[v]
  BY <1>5, <1>6, <1>7 DEF IInv, TypeOK
<1>10. Answered(w, Deciding)' => FALSE
  BY <1>7 DEF Answered
<1>11. "decide" \in Stage
  BY DEF Stage
<1>12. QED
  BY <1>6, <1>7, <1>8, <1>9, <1>10, <1>11, LocalKeeps

\* Whatever the mode, the final verdict, the recorded one and the mark agree.
LEMMA DecisionTruthful ==
  ASSUME NEW outcome \in {"allow", "deny", "monitored", "matched"}, NEW mode \in {"firewall", "monitor"}
  PROVE  LET r == Results[outcome]
             suppress == mode = "monitor" /\ r[1] = "deny"
             escalate == mode = "firewall" /\ r[3] /\ r[2] = "deny"
             final == IF suppress THEN "allow" ELSE IF escalate THEN "deny" ELSE r[1]
             recorded == IF escalate THEN "deny" ELSE r[1]
             a == [verdict |-> final, recorded |-> recorded,
                   monitor |-> (r[3] \/ suppress) /\ ~escalate, mode |-> mode, seq |-> 0]
         IN  /\ a \in Answer /\ Truthful(a, outcome)
             /\ final = "allow" /\ recorded = "allow" => outcome # "deny"
<1>1. CASE outcome = "allow"
  BY <1>1 DEF Results, Truthful, Answer
<1>2. CASE outcome = "deny"
  BY <1>2 DEF Results, Truthful, Answer
<1>3. CASE outcome = "monitored"
  BY <1>3 DEF Results, Truthful, Answer
<1>4. CASE outcome = "matched"
  BY <1>4 DEF Results, Truthful, Answer
<1>5. QED
  BY <1>1, <1>2, <1>3, <1>4

LEMMA DecideKeeps ==
  ASSUME IInv, NEW w \in Worker, Decide(w), UNCHANGED scene
  PROVE  IInv'
<1> DEFINE outcome == Outcome[sess[w].policy]
           t == pc'[w]
           a == result'[w]
<1>1. WorkerOK(w) /\ pc[w] = "decide" /\ request[w] \in Request /\ sess[w] \in Session
  BY DEF IInv, Decide, WorkerOK, Asked, InHand
<1>2. request[w].kind \in Deciding
  BY <1>1 DEF WorkerOK, Asked
<1>3. outcome \in {"allow", "deny", "monitored", "matched"}
  BY <1>1, OutcomeType DEF Session, IInv
<1>4. DaemonMode \in {"firewall", "monitor"}
  BY DEF IInv, TypeOK, DaemonMode
<1>5. /\ result[w].verdict = Results[outcome][1] /\ result[w].recorded = Results[outcome][2]
      /\ result[w].monitor = Results[outcome][3]
  BY <1>1, <1>3 DEF WorkerOK, Judged, Results
<1>6. /\ a \in Answer /\ Truthful(a, outcome) /\ t \in {"guardrails", "append"}
      /\ t = "guardrails" => a.verdict = "allow" /\ a.recorded = "allow" /\ outcome # "deny"
      /\ pc' = [pc EXCEPT ![w] = t] /\ result' = [result EXCEPT ![w] = a]
  BY <1>3, <1>4, <1>5, DecisionTruthful DEF Decide, Goto, IInv, TypeOK
<1>7. UNCHANGED <<scene, store, live, override, ledger, request, sess, begun, boot>>
  BY DEF Decide
<1>8. WorkerOK(w)'
  <2>1. Asked(w)'
    BY <1>1, <1>2, <1>6, <1>7, SceneFixed DEF WorkerOK, Asked
  <2>2. Refused(w)'
    BY <1>1, <1>6, <1>7 DEF WorkerOK, Refused, store
  <2>3. Pinned(w)'
    BY <1>1, <1>6, <1>7 DEF WorkerOK, Pinned, store, Decision
  <2>4. Follows(w)'
    BY <1>1, <1>6, <1>7 DEF WorkerOK, Follows, Decision
  <2>5. Judged(w)' /\ Filed(w)'
    BY <1>6, <1>7, SceneFixed DEF Judged, Filed, Answered
  <2>6. QED
    BY <2>1, <2>2, <2>3, <2>4, <2>5 DEF WorkerOK
<1>9. /\ sess' \in [Worker -> Session \cup {None}] /\ \A v \in Worker \ {w} : sess'[v] = sess[v]
      /\ result' \in [Worker -> Answer] /\ \A v \in Worker \ {w} : result'[v] = result[v]
  BY <1>6, <1>7, SceneFixed DEF IInv, TypeOK
<1>10. Answered(w, Deciding)' => FALSE
  BY <1>6 DEF Answered
<1>11. t \in Stage
  BY <1>6 DEF Stage
<1>12. QED
  BY <1>6, <1>7, <1>8, <1>9, <1>10, <1>11, LocalKeeps

LEMMA GuardrailKeeps ==
  ASSUME IInv, NEW w \in Worker, Guardrail(w), UNCHANGED scene
  PROVE  IInv'
<1> DEFINE outcome == Outcome[sess[w].policy]
           a == result'[w]
<1>1. WorkerOK(w) /\ pc[w] = "guardrails" /\ request[w] \in Request /\ sess[w] \in Session
  BY DEF IInv, Guardrail, WorkerOK, Asked, InHand
<1>2. request[w].kind \in Deciding
  BY <1>1 DEF WorkerOK, Asked
<1>3. /\ pc'[w] = "append" /\ pc' = [pc EXCEPT ![w] = "append"]
      /\ UNCHANGED <<scene, store, live, override, ledger, request, sess, begun, boot>>
  BY DEF Guardrail, Goto, IInv, TypeOK
<1>4. /\ a \in Answer /\ Truthful(a, outcome) /\ result' = [result EXCEPT ![w] = a]
  <2>1. CASE UNCHANGED result
    BY <1>1, <1>2, <2>1 DEF WorkerOK, Judged, IInv, TypeOK
  <2>2. CASE result' = [result EXCEPT ![w].verdict = "deny", ![w].recorded = "deny", ![w].monitor = FALSE]
    <3> DEFINE b == [result[w] EXCEPT !.verdict = "deny", !.recorded = "deny", !.monitor = FALSE]
    <3>1. b \in Answer /\ b.verdict = "deny" /\ b.recorded = "deny"
      BY WorkerTypes DEF Answer
    <3>2. result' = [result EXCEPT ![w] = b] /\ a = b
      BY <2>2 DEF IInv, TypeOK
    <3>3. QED
      BY <3>1, <3>2 DEF Truthful
  <2>3. QED
    BY <2>1, <2>2 DEF Guardrail
<1>5. WorkerOK(w)'
  <2>1. Asked(w)'
    BY <1>1, <1>3, SceneFixed DEF WorkerOK, Asked
  <2>2. Refused(w)'
    BY <1>1, <1>3 DEF WorkerOK, Refused, store
  <2>3. Pinned(w)'
    BY <1>1, <1>3 DEF WorkerOK, Pinned, store, Decision
  <2>4. Follows(w)'
    BY <1>1, <1>3 DEF WorkerOK, Follows, Decision
  <2>5. Judged(w)' /\ Filed(w)'
    BY <1>3, <1>4, SceneFixed DEF Judged, Filed, Answered
  <2>6. QED
    BY <2>1, <2>2, <2>3, <2>4, <2>5 DEF WorkerOK
<1>6. /\ sess' \in [Worker -> Session \cup {None}] /\ \A v \in Worker \ {w} : sess'[v] = sess[v]
      /\ result' \in [Worker -> Answer] /\ \A v \in Worker \ {w} : result'[v] = result[v]
  BY <1>3, <1>4, SceneFixed DEF IInv, TypeOK
<1>7. Answered(w, Deciding)' => FALSE
  BY <1>3 DEF Answered
<1>8. "append" \in Stage
  BY DEF Stage
<1>9. QED
  BY <1>3, <1>4, <1>5, <1>6, <1>7, <1>8, LocalKeeps

-----------------------------------------------------------------------------
(* The steps that change what the workers share. *)

LEMMA ReceiveKeeps ==
  ASSUME IInv, NEW w \in Worker, NEW r \in Request, Receive(w, r), UNCHANGED scene
  PROVE  IInv'
<1> DEFINE t == IF r.kind = "create" THEN "insert" ELSE IF r.kind = "unattested" THEN "new" ELSE "look"
           s == IF r.kind = "create" THEN [signer |-> r.key, policy |-> live] ELSE None
           b == [live |-> live, ended |-> r.id \in ended, expired |-> r.id \in expired]
<1>1. live \in Policies /\ live \in Nat /\ r.id \in Id /\ r.key \in Key \cup {None}
  BY WorkerTypes, RequestType DEF IInv, TypeOK
<1>2. /\ b \in Arrival /\ b.live = live /\ b.ended = (r.id \in ended)
      /\ s \in Session \cup {None} /\ (t = "insert" => s \in Session)
      /\ t \in {"insert", "new", "look"} /\ t \in Stage
      /\ r.kind = "check" => t = "look"
  BY <1>1 DEF Arrival, Session, Stage
<1>3. r.kind \in {"claude", "desktop"} => t = "look"
  OBVIOUS
<1>4. NoResult \in Answer
  BY DEF NoResult, Answer
<1>5. /\ pc' = [pc EXCEPT ![w] = t] /\ request' = [request EXCEPT ![w] = r]
      /\ sess' = [sess EXCEPT ![w] = s] /\ result' = [result EXCEPT ![w] = NoResult]
      /\ begun' = [begun EXCEPT ![w] = b]
      /\ UNCHANGED <<scene, store, live, override, ledger, boot>>
  BY DEF Receive, Goto
<1>6. pc'[w] = t /\ request'[w] = r /\ sess'[w] = s /\ begun'[w] = b
  BY <1>5 DEF IInv, TypeOK
<1>7. WorkerOK(w)'
  <2>1. Asked(w)'
    BY <1>1, <1>2, <1>5, <1>6, SceneFixed DEF Asked, InHand
  <2>2. Refused(w)'
    BY <1>2, <1>5, <1>6 DEF Refused, store
  <2>3. Pinned(w)'
    BY <1>2, <1>6 DEF Pinned, Decision
  <2>4. Follows(w)'
    BY <1>2, <1>3, <1>6 DEF Follows, Decision
  <2>5. Judged(w)' /\ Filed(w)'
    BY <1>2, <1>6 DEF Judged, Filed, Answered
  <2>6. QED
    BY <2>1, <2>2, <2>3, <2>4, <2>5 DEF WorkerOK
<1>8. TypeOK'
  BY <1>2, <1>4, <1>5, SceneFixed DEF IInv, TypeOK, store
<1>9. Grow /\ \A v \in Worker \ {w} : Unmoved(v)
  <2>1. Grow
    BY <1>5, WorkerTypes DEF Grow, store
  <2>2. \A v \in Worker \ {w} : Unmoved(v)
    BY <1>5 DEF Unmoved, IInv, TypeOK
  <2>3. QED
    BY <2>1, <2>2
<1>10. StoreOK' /\ DenialsAudited'
  BY <1>5, SceneFixed DEF IInv, StoreOK, Attests, DenialsAudited, store
<1>11. Answered(w, Deciding)' => FALSE
  BY <1>2, <1>6 DEF Answered
<1>12. QED
  BY <1>7, <1>8, <1>9, <1>10, <1>11, StepKeeps

LEMMA InsertKeeps ==
  ASSUME IInv, NEW w \in Worker, Insert(w), UNCHANGED scene
  PROVE  IInv'
<1> DEFINE id == request[w].id
           t == pc'[w]
<1>1. WorkerOK(w) /\ pc[w] = "insert" /\ request[w] \in Request /\ sess[w] \in Session /\ id \in Id
  BY RequestType DEF IInv, Insert, WorkerOK, Asked, InHand
<1>2. request[w].kind # "check" \/ ~begun[w].ended
  BY <1>1 DEF WorkerOK, Refused
<1>3. UNCHANGED <<scene, ended, expired, live, override, ledger, request, sess, result, begun, boot>>
  BY DEF Insert
<1>4. CASE sessions[id] = None
  <2>1. /\ sessions' = [sessions EXCEPT ![id] = sess[w]]
        /\ attested' = attested \cup {Attests(id, sess[w])}
        /\ t \in {"record", Settled(w)} /\ pc' = [pc EXCEPT ![w] = t]
    BY <1>4 DEF Insert, Goto, Attestation, Attests, IInv, TypeOK
  <2>2. /\ t \in {"record", "evaluate", "append", "answered"} /\ t \in Stage
        /\ t = "answered" => request[w].kind \notin Deciding
        /\ t = "evaluate" => request[w].kind \in Deciding
        /\ t = "append" => request[w].kind \notin Deciding
    BY <2>1, WhereItGoes DEF Stage, Deciding, PreTool, Observing
  <2>3. Attests(id, sess[w]) \in [id : Id, key : Key \cup {None}, policy : Policies]
    BY <1>1 DEF Attests, Session
  <2>4. sess[w] # None /\ None \notin Session /\ sessions \in [Id -> Session \cup {None}]
    BY <1>1, SessionsAreSomething DEF IInv, TypeOK
  <2>5. WorkerOK(w)'
    <3>1. Asked(w)'
      BY <1>1, <1>3, <2>2, SceneFixed DEF WorkerOK, Asked
    <3>2. Refused(w)'
      BY <1>1, <1>2, <1>3, <2>2 DEF WorkerOK, Refused
    <3>3. Pinned(w)'
      BY <1>1, <1>3, <2>1, <2>2 DEF Pinned
    <3>4. Follows(w)'
      BY <1>1, <1>3, <2>2 DEF WorkerOK, Follows, Decision
    <3>5. Judged(w)' /\ Filed(w)'
      BY <1>3, <2>2 DEF Judged, Filed, Answered
    <3>6. QED
      BY <3>1, <3>2, <3>3, <3>4, <3>5 DEF WorkerOK
  <2>6. TypeOK'
    BY <1>1, <1>3, <2>1, <2>2, <2>3, SceneFixed DEF IInv, TypeOK
  <2>7. Grow /\ \A v \in Worker \ {w} : Unmoved(v)
    <3>1. Grow
      BY <1>1, <1>3, <2>1, <2>4, WorkerTypes DEF Grow, store
    <3>2. \A v \in Worker \ {w} : Unmoved(v)
      BY <1>1, <1>3, <2>1, <2>4 DEF Unmoved, IInv, TypeOK
    <3>3. QED
      BY <3>1, <3>2
  <2>8. StoreOK' /\ DenialsAudited'
    BY <1>1, <1>3, <2>1, <2>4, SceneFixed DEF IInv, StoreOK, Attests, DenialsAudited, TypeOK
  <2>9. Answered(w, Deciding)' => FALSE
    BY <1>3, <2>2 DEF Answered
  <2>10. QED
    BY <2>5, <2>6, <2>7, <2>8, <2>9, StepKeeps
<1>5. CASE sessions[id] # None
  <2>1. UNCHANGED store /\ t \in {"look", "error"} /\ pc' = [pc EXCEPT ![w] = t]
    BY <1>3, <1>5 DEF Insert, Goto, IInv, TypeOK, store
  <2>2. WorkerOK(w)'
    <3>1. Asked(w)'
      BY <1>1, <1>3, <2>1, SceneFixed DEF WorkerOK, Asked, InHand
    <3>2. Refused(w)'
      BY <1>1, <1>2, <1>3, <2>1 DEF WorkerOK, Refused
    <3>3. Pinned(w)' /\ Follows(w)' /\ Judged(w)' /\ Filed(w)'
      BY <2>1 DEF Pinned, Follows, Judged, Filed, Answered, Decision
    <3>4. QED
      BY <3>1, <3>2, <3>3 DEF WorkerOK
  <2>3. sess \in [Worker -> Session \cup {None}] /\ result \in [Worker -> Answer] /\ t \in Stage
    BY <2>1 DEF IInv, TypeOK, Stage
  <2>4. Answered(w, Deciding)' => FALSE
    BY <2>1 DEF Answered
  <2>5. QED
    BY <1>3, <2>1, <2>2, <2>3, <2>4, SceneFixed, LocalKeeps
<1>6. QED
  BY <1>4, <1>5

LEMMA UpdateKeeps ==
  ASSUME IInv, NEW w \in Worker, Update(w), UNCHANGED scene
  PROVE  IInv'
<1> DEFINE id == request[w].id
<1>1. WorkerOK(w) /\ pc[w] = "update" /\ request[w] \in Request /\ id \in Id
  BY RequestType DEF IInv, Update, WorkerOK, Asked
<1>2. Signed(w) \in Session
  BY <1>1, RequestType DEF Signed, Session, WorkerOK, Asked
<1>3. request[w].kind # "check" \/ ~begun[w].ended
  BY <1>1 DEF WorkerOK, Refused
<1>4. UNCHANGED <<scene, ended, live, override, ledger, request, result, begun, boot>>
  BY DEF Update
<1>5. CASE id \in ended
  <2>1. UNCHANGED <<store, sess>> /\ pc' = [pc EXCEPT ![w] = "error"] /\ pc'[w] = "error"
    BY <1>4, <1>5 DEF Update, Goto, IInv, TypeOK, store
  <2>2. WorkerOK(w)'
    BY <1>1, <1>4, <2>1, SceneFixed
    DEF WorkerOK, Asked, InHand, Refused, Pinned, Follows, Judged, Filed, Answered, Decision
  <2>3. sess \in [Worker -> Session \cup {None}] /\ result \in [Worker -> Answer] /\ "error" \in Stage
    BY DEF IInv, TypeOK, Stage
  <2>4. Answered(w, Deciding)' => FALSE
    BY <2>1 DEF Answered
  <2>5. QED
    BY <1>4, <2>1, <2>2, <2>3, <2>4, SceneFixed, LocalKeeps
<1>6. CASE id \notin ended
  <2>1. /\ sessions' = [sessions EXCEPT ![id] = Signed(w)] /\ expired' = expired \ {id}
        /\ sess' = [sess EXCEPT ![w] = Signed(w)] /\ sess'[w] = Signed(w)
        /\ attested' = attested \cup {Attests(id, Signed(w))}
        /\ pc' = [pc EXCEPT ![w] = "record"] /\ pc'[w] = "record"
    BY <1>6 DEF Update, Goto, Signed, Attests, IInv, TypeOK
  <2>2. Attests(id, Signed(w)) \in [id : Id, key : Key \cup {None}, policy : Policies]
    BY <1>1, <1>2 DEF Attests, Session
  <2>3. None \notin Session /\ "record" \in Stage /\ sessions \in [Id -> Session \cup {None}]
    BY SessionsAreSomething DEF Stage, IInv, TypeOK
  <2>4. WorkerOK(w)'
    <3>1. Asked(w)'
      BY <1>1, <1>2, <1>4, <2>1, SceneFixed DEF WorkerOK, Asked
    <3>2. Refused(w)'
      BY <1>1, <1>3, <1>4, <2>1 DEF WorkerOK, Refused
    <3>3. Pinned(w)'
      BY <1>4, <2>1 DEF Pinned
    <3>4. Follows(w)'
      <4>1. Signed(w).policy = begun[w].live /\ begun[w].live \in Nat
        BY WorkerTypes DEF Signed, Arrival
      <4>2. QED
        BY <1>4, <2>1, <4>1 DEF Follows
    <3>5. Judged(w)' /\ Filed(w)'
      BY <2>1 DEF Judged, Filed, Answered
    <3>6. QED
      BY <3>1, <3>2, <3>3, <3>4, <3>5 DEF WorkerOK
  <2>5. TypeOK'
    BY <1>1, <1>2, <1>4, <2>1, <2>2, <2>3, SceneFixed DEF IInv, TypeOK
  <2>6. Grow /\ \A v \in Worker \ {w} : Unmoved(v)
    <3>1. Grow
      BY <1>1, <1>2, <1>4, <2>1, <2>3, WorkerTypes DEF Grow, store
    <3>2. \A v \in Worker \ {w} : Unmoved(v)
      BY <1>1, <1>2, <1>4, <2>1, <2>3 DEF Unmoved, IInv, TypeOK
    <3>3. QED
      BY <3>1, <3>2
  <2>7. StoreOK' /\ DenialsAudited'
    BY <1>1, <1>2, <1>4, <2>1, <2>3, SceneFixed DEF IInv, StoreOK, Attests, DenialsAudited, TypeOK
  <2>8. Answered(w, Deciding)' => FALSE
    BY <2>1 DEF Answered
  <2>9. QED
    BY <2>4, <2>5, <2>6, <2>7, <2>8, StepKeeps
<1>7. QED
  BY <1>5, <1>6

LEMMA EndKeeps ==
  ASSUME IInv, NEW w \in Worker, End(w), UNCHANGED scene
  PROVE  IInv'
<1> DEFINE id == request[w].id
           t == pc'[w]
<1>1. WorkerOK(w) /\ pc[w] = "ending" /\ request[w] \in Request /\ id \in Id /\ sess[w] \in Session
  BY RequestType DEF IInv, End, WorkerOK, Asked, InHand
<1>2. request[w].kind # "check" \/ ~begun[w].ended
  BY <1>1 DEF WorkerOK, Refused
<1>3. request[w].kind \in {"end", "stop"}
  BY <1>1 DEF WorkerOK, Asked
<1>4. /\ ended' = ended \cup {id} /\ t \in {"answered", "error", "record"} /\ pc' = [pc EXCEPT ![w] = t]
      /\ UNCHANGED <<scene, sessions, expired, attested, live, override, ledger, request, sess, result, begun, boot>>
  BY DEF End, Goto, IInv, TypeOK
<1>5. WorkerOK(w)'
  <2>1. Asked(w)'
    BY <1>1, <1>4, SceneFixed DEF WorkerOK, Asked
  <2>2. Refused(w)'
    BY <1>1, <1>2, <1>4 DEF WorkerOK, Refused
  <2>3. Pinned(w)' /\ Follows(w)' /\ Judged(w)' /\ Filed(w)'
    BY <1>3, <1>4 DEF Pinned, Follows, Judged, Filed, Answered, Decision, Deciding, PreTool
  <2>4. QED
    BY <2>1, <2>2, <2>3 DEF WorkerOK
<1>6. t \in Stage
  BY <1>4 DEF Stage
<1>7. TypeOK'
  BY <1>1, <1>4, <1>6, SceneFixed DEF IInv, TypeOK
<1>8. Grow /\ \A v \in Worker \ {w} : Unmoved(v)
  <2>1. Grow
    BY <1>4, WorkerTypes DEF Grow, store
  <2>2. \A v \in Worker \ {w} : Unmoved(v)
    BY <1>4 DEF Unmoved, IInv, TypeOK
  <2>3. QED
    BY <2>1, <2>2
<1>9. sessions[id] # None
  BY <1>1 DEF WorkerOK, Pinned
<1>10. StoreOK' /\ DenialsAudited'
  BY <1>4, <1>9, SceneFixed DEF IInv, StoreOK, Attests, DenialsAudited
<1>11. Answered(w, Deciding)' => FALSE
  BY <1>3, <1>4 DEF Answered, Deciding, PreTool
<1>12. QED
  BY <1>5, <1>7, <1>8, <1>10, <1>11, StepKeeps

-----------------------------------------------------------------------------
(* The ledger grows. *)

LEMMA LedgerGrows ==
  ASSUME NEW S, NEW l \in Seq(S), NEW e \in S
  PROVE  /\ Append(l, e) \in Seq(S) /\ Len(l) \in Nat /\ Len(Append(l, e)) = Len(l) + 1
         /\ \A n \in 1 .. Len(l) : Append(l, e)[n] = l[n]
         /\ Append(l, e)[Len(l) + 1] = e
         /\ DOMAIN l = 1 .. Len(l) /\ DOMAIN Append(l, e) = 1 .. (Len(l) + 1)
<1>1. Append(l, e) \in Seq(S) /\ Len(l) \in Nat /\ Len(Append(l, e)) = Len(l) + 1
  BY AppendProperties, LenProperties
<1>2. DOMAIN l = 1 .. Len(l) /\ DOMAIN Append(l, e) = 1 .. (Len(l) + 1)
  BY <1>1, LenProperties, Zenon
<1>3. (\A n \in 1 .. Len(l) : Append(l, e)[n] = l[n]) /\ Append(l, e)[Len(l) + 1] = e
  BY <1>1, AppendProperties
<1>4. QED
  BY <1>1, <1>2, <1>3

\* An entry that is no decision, or a decision that is recorded as it should be.
LEMMA AuditGrows ==
  ASSUME IInv, NEW e \in LedgerEntry, ledger' = Append(ledger, e), scene' = scene,
         e.kind = "decision" => (Outcome[e.policy] = "deny" => e.verdict = "deny")
  PROVE  DenialsAudited' /\ ledger' \in Seq(LedgerEntry)
<1>1. ledger \in Seq(LedgerEntry) /\ DenialsAudited /\ Outcome' = Outcome
  BY SceneFixed DEF IInv, TypeOK
<1>2. /\ Len(ledger) \in Nat /\ DOMAIN ledger = 1 .. Len(ledger)
      /\ DOMAIN ledger' = 1 .. (Len(ledger) + 1) /\ ledger' \in Seq(LedgerEntry)
      /\ \A n \in 1 .. Len(ledger) : ledger'[n] = ledger[n]
      /\ ledger'[Len(ledger) + 1] = e
  BY <1>1, LedgerGrows
<1>3. QED
  BY <1>1, <1>2 DEF DenialsAudited

LEMMA EntryType ==
  ASSUME IInv, NEW w \in Worker, request[w] \in Request, sess[w] \in Session,
         NEW kind \in Kinds \cup {"auto-create", "decision", "observed"}
  PROVE  /\ Entry(w, kind) \in LedgerEntry
         /\ Entry(w, kind).kind = kind /\ Entry(w, kind).id = request[w].id
         /\ Entry(w, kind).signer = sess[w].signer /\ Entry(w, kind).policy = sess[w].policy
         /\ Entry(w, kind).verdict = result[w].recorded
         /\ Entry(w, kind).monitor = result[w].monitor /\ Entry(w, kind).boot = boot
<1>1. result[w] \in Answer /\ boot \in Nat
  BY DEF IInv, TypeOK
<1>2. QED
  BY <1>1, RequestType DEF Entry, LedgerEntry, Session, Answer

LEMMA RecordKeeps ==
  ASSUME IInv, NEW w \in Worker, Record(w), UNCHANGED scene
  PROVE  IInv'
<1> DEFINE kind == IF request[w].kind \in PreTool \cup Observing THEN "auto-create" ELSE request[w].kind
           t == Settled(w)
<1>1. WorkerOK(w) /\ pc[w] = "record" /\ request[w] \in Request /\ sess[w] \in Session
  BY DEF IInv, Record, WorkerOK, Asked, InHand
<1>2. kind \in Kinds \cup {"auto-create"} /\ kind # "decision"
  BY <1>1, RequestType, KindsKnown DEF IInv
<1>3. /\ ledger' = Append(ledger, Entry(w, kind)) /\ pc' = [pc EXCEPT ![w] = t] /\ pc'[w] = t
      /\ UNCHANGED <<scene, store, live, override, request, sess, result, begun, boot>>
  BY DEF Record, Goto, IInv, TypeOK
<1>4. Entry(w, kind) \in LedgerEntry /\ Entry(w, kind).kind = kind
  BY <1>1, <1>2, EntryType
<1>5. DenialsAudited' /\ ledger' \in Seq(LedgerEntry)
  BY <1>2, <1>3, <1>4, AuditGrows
<1>6. /\ t \in {"evaluate", "append", "answered"} /\ t \in Stage
      /\ t = "answered" => request[w].kind \notin Deciding
      /\ t = "evaluate" => request[w].kind \in Deciding
      /\ t = "append" => request[w].kind \notin Deciding
  BY WhereItGoes DEF Stage, Deciding, PreTool, Observing
<1>7. WorkerOK(w)'
  <2>1. Asked(w)'
    BY <1>1, <1>3, <1>6, SceneFixed DEF WorkerOK, Asked
  <2>2. Refused(w)'
    BY <1>1, <1>3, <1>6 DEF WorkerOK, Refused, store
  <2>3. Pinned(w)'
    BY <1>1, <1>3, <1>6 DEF WorkerOK, Pinned, store, Decision
  <2>4. Follows(w)'
    BY <1>1, <1>3, <1>6 DEF WorkerOK, Follows, Decision
  <2>5. Judged(w)' /\ Filed(w)'
    BY <1>3, <1>6 DEF Judged, Filed, Answered
  <2>6. QED
    BY <2>1, <2>2, <2>3, <2>4, <2>5 DEF WorkerOK
<1>8. TypeOK'
  BY <1>3, <1>5, <1>6, SceneFixed DEF IInv, TypeOK, store
<1>9. Grow /\ \A v \in Worker \ {w} : Unmoved(v)
  <2>1. ledger \in Seq(LedgerEntry)
    BY DEF IInv, TypeOK
  <2>2. Grow
    BY <1>3, <1>4, <2>1, LedgerGrows, WorkerTypes DEF Grow, store
  <2>3. \A v \in Worker \ {w} : Unmoved(v)
    BY <1>3 DEF Unmoved, IInv, TypeOK
  <2>4. QED
    BY <2>2, <2>3
<1>10. StoreOK'
  BY <1>3 DEF IInv, StoreOK, Attests, store
<1>11. Answered(w, Deciding)' => FALSE
  BY <1>3, <1>6 DEF Answered
<1>12. QED
  BY <1>5, <1>7, <1>8, <1>9, <1>10, <1>11, StepKeeps

LEMMA AppendKeeps ==
  ASSUME IInv, NEW w \in Worker, AppendEntry(w), UNCHANGED scene
  PROVE  IInv'
<1> DEFINE kind == IF request[w].kind \in Deciding THEN "decision" ELSE "observed"
           e == Entry(w, kind)
           a == [result[w] EXCEPT !.seq = Len(ledger) + 1]
<1>1. WorkerOK(w) /\ pc[w] = "append" /\ request[w] \in Request /\ sess[w] \in Session
  BY DEF IInv, AppendEntry, WorkerOK, Asked, InHand
<1>2. request[w].kind \in Deciding => Truthful(result[w], Outcome[sess[w].policy])
  BY <1>1 DEF WorkerOK, Judged
<1>3. /\ a \in Answer /\ a.seq = Len(ledger) + 1 /\ a.verdict = result[w].verdict
      /\ a.mode = result[w].mode
  BY WorkerTypes DEF Answer
<1>4. /\ ledger' = Append(ledger, e) /\ pc' = [pc EXCEPT ![w] = "answered"] /\ pc'[w] = "answered"
      /\ result' = [result EXCEPT ![w] = a] /\ result'[w] = a
      /\ UNCHANGED <<scene, store, live, override, request, sess, begun, boot>>
  BY DEF AppendEntry, Goto, IInv, TypeOK
<1>5. /\ e \in LedgerEntry /\ e.kind = kind /\ e.id = request[w].id
      /\ e.signer = sess[w].signer /\ e.policy = sess[w].policy
      /\ e.verdict = result[w].recorded /\ e.monitor = result[w].monitor /\ e.boot = boot
  BY <1>1, EntryType
<1>6. DenialsAudited' /\ ledger' \in Seq(LedgerEntry)
  BY <1>2, <1>4, <1>5, AuditGrows DEF Truthful
<1>7. ledger \in Seq(LedgerEntry)
  BY DEF IInv, TypeOK
<1>8. Len(ledger) \in Nat /\ Len(ledger') = Len(ledger) + 1 /\ ledger'[Len(ledger) + 1] = e
  BY <1>4, <1>5, <1>7, LedgerGrows
<1>9. WorkerOK(w)'
  <2>1. Asked(w)'
    BY <1>1, <1>4, SceneFixed DEF WorkerOK, Asked, InHand
  <2>2. Refused(w)'
    BY <1>1, <1>4 DEF WorkerOK, Refused, store
  <2>3. Pinned(w)'
    BY <1>1, <1>4 DEF WorkerOK, Pinned, store, Decision
  <2>4. Follows(w)'
    BY <1>1, <1>4 DEF WorkerOK, Follows, Decision
  <2>5. Judged(w)'
    BY <1>4 DEF Judged
  <2>6. Filed(w)'
    <3>1. /\ result'[w].seq = Len(ledger) + 1 /\ result'[w].verdict = result[w].verdict
          /\ result'[w].mode = result[w].mode
      BY <1>3, <1>4, Zenon
    <3>2. ledger'[result'[w].seq] = e /\ result'[w].seq \in 1 .. Len(ledger')
      BY <1>8, <3>1
    <3>3. CASE request[w].kind \in Deciding
      <4>1. e.kind = "decision" /\ Truthful(result[w], Outcome[sess[w].policy])
        BY <1>2, <1>5, <3>3, Zenon
      <4>2. result[w].verdict = "deny" => e.verdict = "deny"
        BY <1>5, <4>1, Zenon DEF Truthful
      <4>3. result[w].verdict = "allow" /\ e.verdict = "deny" => e.monitor /\ result[w].mode = "monitor"
        BY <1>5, <4>1, Zenon DEF Truthful
      <4>4. e.id = request[w].id /\ e.boot = boot /\ e.signer = sess[w].signer /\ e.policy = sess[w].policy
        BY <1>5, Zenon
      <4>5. UNCHANGED <<request, sess, boot>>
        BY <1>4, Zenon
      <4> HIDE DEF e
      <4>6. QED
        BY <3>1, <3>2, <4>1, <4>2, <4>3, <4>4, <4>5 DEF Filed
    <3>4. CASE request[w].kind \notin Deciding
      BY <1>4, <3>4 DEF Filed, Answered
    <3>5. QED
      BY <3>3, <3>4
  <2>7. QED
    BY <2>1, <2>2, <2>3, <2>4, <2>5, <2>6 DEF WorkerOK
<1>10. "answered" \in Stage
  BY DEF Stage
<1>11. TypeOK'
  BY <1>3, <1>4, <1>6, <1>10, SceneFixed DEF IInv, TypeOK, store
<1>12. Grow /\ \A v \in Worker \ {w} : Unmoved(v)
  <2>1. Grow
    BY <1>4, <1>5, <1>7, LedgerGrows, WorkerTypes DEF Grow, store
  <2>2. \A v \in Worker \ {w} : Unmoved(v)
    BY <1>4 DEF Unmoved, IInv, TypeOK
  <2>3. QED
    BY <2>1, <2>2
<1>13. StoreOK'
  BY <1>4 DEF IInv, StoreOK, Attests, store
<1>14. result'[w].seq \notin 1 .. Len(ledger)
  <2>1. result'[w].seq = Len(ledger) + 1
    BY <1>3, <1>4, Zenon
  <2>2. QED
    BY <1>8, <2>1
<1>15. QED
  BY <1>6, <1>9, <1>11, <1>12, <1>13, <1>14, StepKeeps

-----------------------------------------------------------------------------
(* What goes on around the requests. *)

\* No worker moves.
LEMMA AroundKeeps ==
  ASSUME IInv, Grow, UNCHANGED <<sessions, ended, attested, ledger, pc, request, sess, result, begun>>,
         expired' \subseteq Id, live' \in Policies, override' \in {"", "firewall", "monitor"}
  PROVE  IInv'
<1>1. \A v \in Worker : Unmoved(v)
  BY DEF Unmoved
<1>2. \A v \in Worker : WorkerOK(v)'
  BY <1>1, OthersKeep
<1>3. scene' = scene
  BY DEF Grow
<1>4. TypeOK'
  BY <1>3, SceneFixed DEF IInv, TypeOK, Grow
<1>5. StoreOK' /\ OwnEntries' /\ DenialsAudited'
  BY <1>3, SceneFixed DEF IInv, StoreOK, OwnEntries, Answered, DenialsAudited, Attests
<1>6. QED
  BY <1>2, <1>3, <1>4, <1>5 DEF IInv

LEMMA GlobalTypes ==
  ASSUME IInv
  PROVE  live \in Nat /\ Len(ledger) \in Nat
<1>1. live \in Nat
  BY PolicyType DEF IInv, TypeOK
<1>2. Len(ledger) \in Nat
  BY LenProperties DEF IInv, TypeOK
<1>3. QED
  BY <1>1, <1>2

LEMMA SwapKeeps ==
  ASSUME IInv, Swap, UNCHANGED scene
  PROVE  IInv'
<1>1. live \in Nat /\ live' \in Policies
  <2>1. Policies = 1 .. Len(Outcome) /\ Len(Outcome) \in Nat
    BY PolicyType, Zenon DEF IInv
  <2>2. live \in Policies /\ live < Len(Outcome) /\ live' = live + 1
    BY DEF IInv, TypeOK, Swap
  <2>3. QED
    BY <2>1, <2>2
<1>2. Grow
  BY <1>1, GlobalTypes DEF Swap, Grow, store
<1>3. QED
  BY <1>1, <1>2, AroundKeeps DEF Swap, store, IInv, TypeOK

LEMMA SetModeKeeps ==
  ASSUME IInv, NEW m \in Modes, SetMode(m), UNCHANGED scene
  PROVE  IInv'
<1>1. m \in {"", "firewall", "monitor"} /\ live \in Policies /\ expired \subseteq Id
  BY PolicyType DEF IInv, TypeOK
<1>2. Grow
  BY GlobalTypes DEF SetMode, Grow, store
<1>3. QED
  BY <1>1, <1>2, AroundKeeps DEF SetMode, store

LEMMA ExpireKeeps ==
  ASSUME IInv, NEW id \in Id, Expire(id), UNCHANGED scene
  PROVE  IInv'
<1>1. expired' \subseteq Id /\ live \in Policies /\ override \in {"", "firewall", "monitor"}
  BY DEF IInv, TypeOK, Expire
<1>2. Grow
  BY GlobalTypes DEF Expire, Grow
<1>3. QED
  BY <1>1, <1>2, AroundKeeps DEF Expire

LEMMA RestartKeeps ==
  ASSUME IInv, Restart, UNCHANGED scene
  PROVE  IInv'
<1>1. TypeOK'
  <2>1. pc' \in [Worker -> Stage] /\ request' \in [Worker -> Request' \cup {None}]
    BY DEF Restart, Stage
  <2>2. sess' \in [Worker -> Session' \cup {None}] /\ sessions' \in [Id -> Session' \cup {None}]
    BY DEF Restart
  <2>3. result' \in [Worker -> Answer] /\ begun' \in [Worker -> Arrival]
    BY DEF Restart, NoResult, NotBegun, Answer, Arrival
  <2>4. /\ live \in Policies /\ ledger \in Seq(LedgerEntry) /\ boot \in Nat
        /\ live' = live /\ ledger' = ledger /\ boot' = boot + 1
        /\ Policies' = Policies /\ LedgerEntry' = LedgerEntry
    BY SceneFixed, Zenon DEF Restart, IInv, TypeOK
  <2>5. ended' = {} /\ expired' = {} /\ attested' = {} /\ override' = ""
    BY DEF Restart
  <2>6. live' \in Policies' /\ ledger' \in Seq(LedgerEntry') /\ boot' \in Nat
    BY <2>4
  <2>7. /\ override' \in {"", "firewall", "monitor"} /\ ended' \subseteq Id /\ expired' \subseteq Id
        /\ attested' \subseteq [id : Id, key : Key \cup {None}, policy : Policies']
    BY <2>5, Zenon
  <2>8. QED
    BY <2>1, <2>2, <2>3, <2>6, <2>7, Zenon DEF TypeOK
<1>2. \A w \in Worker : pc'[w] = "idle" /\ ~begun'[w].ended
  BY DEF Restart, NotBegun
<1>3. \A w \in Worker : WorkerOK(w)'
  BY <1>2 DEF WorkerOK, Asked, Refused, Pinned, Follows, Judged, Filed, Answered, InHand, Decision
<1>4. StoreOK' /\ OwnEntries'
  BY <1>2 DEF StoreOK, OwnEntries, Answered, Restart
<1>5. DenialsAudited'
  BY SceneFixed DEF Restart, IInv, DenialsAudited
<1>6. QED
  BY <1>1, <1>3, <1>4, <1>5 DEF IInv

-----------------------------------------------------------------------------
(* The invariant, and what follows from it. *)

LEMMA StepsKeep ==
  ASSUME IInv, NEW w \in Worker, Step(w), UNCHANGED scene
  PROVE  IInv'
<1>1. CASE \E r \in Request : Receive(w, r)
  BY <1>1, ReceiveKeeps
<1>2. CASE Found(w) \/ Refresh(w) \/ NotFound(w) \/ New(w)
  BY <1>2, FoundKeeps, RefreshKeeps, NotFoundKeeps, NewKeeps
<1>3. CASE Insert(w) \/ CheckActive(w) \/ Update(w) \/ End(w)
  BY <1>3, InsertKeeps, CheckActiveKeeps, UpdateKeeps, EndKeeps
<1>4. CASE Record(w) \/ RecordFails(w) \/ AppendEntry(w) \/ AppendFails(w)
  BY <1>4, RecordKeeps, FailuresKeep, AppendKeeps
<1>5. CASE Evaluate(w) \/ Decide(w) \/ Guardrail(w)
  BY <1>5, EvaluateKeeps, DecideKeeps, GuardrailKeeps
<1>6. QED
  BY <1>1, <1>2, <1>3, <1>4, <1>5 DEF Step

LEMMA NextKeeps ==
  ASSUME IInv, [Next]_vars
  PROVE  IInv'
<1>1. CASE UNCHANGED vars
  <2>1. UNCHANGED <<scene, store, live, override, ledger, pc, request, sess, result, begun, boot>>
    BY <1>1 DEF vars
  <2>2. Grow
    BY <2>1, GlobalTypes DEF Grow, store
  <2>3. live \in Policies /\ expired \subseteq Id /\ override \in {"", "firewall", "monitor"}
    BY DEF IInv, TypeOK
  <2>4. QED
    BY <2>1, <2>2, <2>3, AroundKeeps DEF store
<1>2. CASE Next
  <2>1. UNCHANGED scene
    BY <1>2 DEF Next
  <2>2. CASE \E w \in Worker : Step(w)
    BY <2>1, <2>2, StepsKeep
  <2>3. CASE Swap \/ Restart
    BY <2>1, <2>3, SwapKeeps, RestartKeeps
  <2>4. CASE (\E m \in Modes : SetMode(m)) \/ (\E id \in Id : Expire(id))
    BY <2>1, <2>4, SetModeKeeps, ExpireKeeps
  <2>5. QED
    BY <1>2, <2>2, <2>3, <2>4 DEF Next
<1>3. QED
  BY <1>1, <1>2

\* Every step of every handler keeps what the handlers hold and the store says.
THEOREM InvariantHolds == Spec => []IInv
BY InitEstablishes, NextKeeps, PTL DEF Spec

\* gate.go, session.go: in every scenario a request that arrives after its
\* session has ended is not evaluated: a gate check gets no verdict.
THEOREM EndedAlwaysRefused == Spec => []RefusedAfterEnd
<1>1. ASSUME IInv PROVE RefusedAfterEnd
  <2>1. ASSUME NEW w \in Worker, begun[w].ended, request[w] # None, request[w].kind = "check"
        PROVE  pc[w] \in {"look", "active", "error"}
    BY <1>1, <2>1 DEF IInv, WorkerOK, Asked, Refused
  <2>2. QED
    BY <2>1 DEF RefusedAfterEnd
<1>2. QED
  BY InvariantHolds, <1>1, PTL

\* session.go, gate.go: whatever rotations, edits and racing first hooks come
\* between, a decision signed by an attested session used a policy that this
\* signer committed to for this session.
THEOREM AttestedAlwaysPinned == Spec => []AttestedPinned
<1>1. ASSUME IInv PROVE AttestedPinned
  <2>1. ASSUME NEW w \in Worker, Answered(w, Deciding), sess[w].signer # None
        PROVE  Attests(request[w].id, sess[w]) \in attested
    BY <1>1, <2>1 DEF IInv, WorkerOK, Pinned, Answered, Decision
  <2>2. QED
    BY <2>1 DEF AttestedPinned, Attests
<1>2. QED
  BY InvariantHolds, <1>1, PTL

\* hooks_claude.go: a Claude hook of an unattested session never misses a
\* policy edit that was finished when it arrived.
THEOREM ClaudeAlwaysFollows == Spec => []ClaudeFollowsLive
<1>1. ASSUME IInv PROVE ClaudeFollowsLive
  <2>1. ASSUME NEW w \in Worker, Answered(w, {"claude", "desktop"}), sess[w].signer = None
        PROVE  sess[w].policy >= begun[w].live
    BY <1>1, <2>1 DEF IInv, WorkerOK, Follows, Answered, Decision
  <2>2. QED
    BY <2>1 DEF ClaudeFollowsLive, FollowsLive
<1>2. QED
  BY InvariantHolds, <1>1, PTL

\* gate.go, mode.go: an answered verdict has an entry of its own that agrees
\* with it, and a policy that denies is recorded as denying, in every mode.
THEOREM VerdictsAlwaysAudited == Spec => []VerdictsAudited
<1>1. ASSUME IInv PROVE VerdictsAudited
  <2>1. ledger \in Seq(LedgerEntry)
    BY <1>1 DEF IInv, TypeOK
  <2>2. DOMAIN ledger = 1 .. Len(ledger)
    BY <2>1, LenProperties, Zenon
  <2>3. AnswerRecorded
    BY <1>1, <2>2 DEF IInv, WorkerOK, Filed, OwnEntries, AnswerRecorded
  <2>4. DenialsAudited
    BY <1>1 DEF IInv
  <2>5. QED
    BY <2>3, <2>4 DEF VerdictsAudited
<1>2. QED
  BY InvariantHolds, <1>1, PTL

-----------------------------------------------------------------------------
(* An ended session. *)

EndedKeeps == \A i \in ended : IF i \in ended' THEN sessions'[i] = sessions[i] ELSE sessions'[i] = None

LEMMA EndedStepKeeps ==
  ASSUME IInv, [Next]_vars
  PROVE  EndedKeeps
<1>1. ended \subseteq Id /\ \A i \in ended : sessions[i] # None
  BY DEF IInv, TypeOK, StoreOK
<1>2. sessions \in [Id -> Session \cup {None}]
  BY DEF IInv, TypeOK
<1>3. CASE ended \subseteq ended' /\ UNCHANGED sessions
  BY <1>3 DEF EndedKeeps
<1>4. CASE Restart
  BY <1>1, <1>4 DEF EndedKeeps, Restart
<1>5. ASSUME NEW w \in Worker, Insert(w) PROVE EndedKeeps
  <2>1. /\ sessions' = sessions \/ (sessions[request[w].id] = None
              /\ sessions' = [sessions EXCEPT ![request[w].id] = sess[w]])
        /\ ended' = ended
    BY <1>5 DEF Insert
  <2>2. QED
    BY <1>1, <1>2, <2>1 DEF EndedKeeps
<1>6. ASSUME NEW w \in Worker, Update(w) PROVE EndedKeeps
  <2>1. /\ sessions' = sessions \/ (request[w].id \notin ended
              /\ sessions' = [sessions EXCEPT ![request[w].id] = Signed(w)])
        /\ ended' = ended
    BY <1>6 DEF Update
  <2>2. QED
    BY <1>1, <1>2, <2>1 DEF EndedKeeps
<1>7. ASSUME NEW w \in Worker, Step(w) PROVE EndedKeeps
  <2>1. CASE Insert(w) \/ Update(w)
    BY <1>5, <1>6, <2>1
  <2>2. CASE \E r \in Request : Receive(w, r)
    BY <1>3, <2>2 DEF Receive, store
  <2>3. CASE Found(w) \/ Refresh(w) \/ NotFound(w) \/ New(w) \/ CheckActive(w)
    BY <1>3, <2>3 DEF Found, Refresh, NotFound, New, CheckActive, store
  <2>4. CASE End(w)
    BY <1>3, <2>4 DEF End
  <2>5. CASE Record(w) \/ RecordFails(w) \/ AppendEntry(w) \/ AppendFails(w)
    BY <1>3, <2>5 DEF Record, RecordFails, AppendEntry, AppendFails, store
  <2>6. CASE Evaluate(w) \/ Decide(w) \/ Guardrail(w)
    BY <1>3, <2>6 DEF Evaluate, Decide, Guardrail, store
  <2>7. QED
    BY <1>7, <2>1, <2>2, <2>3, <2>4, <2>5, <2>6 DEF Step
<1>8. CASE Swap \/ (\E m \in Modes : SetMode(m)) \/ (\E id \in Id : Expire(id))
  BY <1>3, <1>8 DEF Swap, SetMode, Expire, store
<1>9. CASE UNCHANGED vars
  BY <1>3, <1>9 DEF vars, store
<1>10. QED
  BY <1>4, <1>7, <1>8, <1>9 DEF Next

\* store.go: whatever rotations are under way, an ended session never changes
\* again, and it comes back only as forgotten, by a restart.
THEOREM EndedStaysEnded == Spec => EndedIsFinal
<1>1. IInv /\ [Next]_vars => [EndedKeeps]_vars
  BY EndedStepKeeps
<1>2. Spec => [][EndedKeeps]_vars
  BY InvariantHolds, <1>1, PTL DEF Spec
<1>3. QED
  BY <1>2 DEF EndedIsFinal, EndedKeeps

-----------------------------------------------------------------------------
(* Who creates a session and who says so in the ledger. *)

\* The workers whose next entry says how their session is attested.
Recorder(w) ==
  pc[w] = "record" /\ request[w].kind \in PreTool \cup Observing \cup Minting \cup {"rotate"}
Creating(w) == pc[w] = "record" /\ request[w].kind \in PreTool \cup Observing

Created(n, id) == ledger[n].kind = "auto-create" /\ ledger[n].id = id /\ ledger[n].boot = boot

\* Which requests come to the steps that change the sessions.
Placed(w) ==
  /\ pc[w] = "active" => request[w].kind \in {"check", "rotate"}
  /\ pc[w] = "update" => request[w].kind = "rotate"
  /\ pc[w] \in {"new", "insert"} => request[w].kind \in PreTool \cup Observing \cup Minting

\* A session has one creator: an entry of this run of the daemon or a worker
\* that is about to append it.
CreatedOnce ==
  /\ \A n \in 1 .. Len(ledger) : ledger[n].boot \in Nat /\ ledger[n].boot <= boot
  /\ \A m, n \in 1 .. Len(ledger) :
       (/\ ledger[m].kind = "auto-create" /\ ledger[n].kind = "auto-create"
        /\ ledger[m].id = ledger[n].id /\ ledger[m].boot = ledger[n].boot) => m = n
  /\ \A n \in 1 .. Len(ledger), id \in Id : Created(n, id) => sessions[id] # None
  /\ \A w \in Worker : Creating(w) =>
       /\ sessions[request[w].id] # None
       /\ \A n \in 1 .. Len(ledger) : ~Created(n, request[w].id)
       /\ \A v \in Worker : Creating(v) /\ request[v].id = request[w].id => v = w

\* The entry, by now or soon, of a session as it is.
Says(n, id) ==
  /\ ledger[n].id = id /\ ledger[n].boot = boot
  /\ ledger[n].kind \in Minting \cup {"rotate", "auto-create"}
  /\ ledger[n].signer = sessions[id].signer /\ ledger[n].policy = sessions[id].policy
WillSay(w, id) == Recorder(w) /\ request[w].id = id /\ sess[w] = sessions[id]

AllRecorded ==
  \A id \in Id : sessions[id] # None =>
    (\E n \in 1 .. Len(ledger) : Says(n, id)) \/ (\E w \in Worker : WillSay(w, id))

\* Nothing is created off the record.
OnRecord == ~MayFail /\ "desktop" \notin Kinds

SInv ==
  /\ \A w \in Worker : Placed(w)
  /\ CreatedOnce
  /\ OnRecord => AllRecorded

-----------------------------------------------------------------------------
LEMMA RecorderAsked ==
  ASSUME IInv, NEW w \in Worker, pc[w] # "idle"
  PROVE  request[w] \in Request /\ request[w].id \in Id
BY RequestType DEF IInv, WorkerOK, Asked

\* A step after which nobody creates that did not before, and that appends at
\* most one entry, of something else.
LEMMA CreatedFrame ==
  ASSUME IInv, CreatedOnce, scene' = scene, boot' = boot,
         \A i \in Id : sessions[i] # None => sessions'[i] # None,
         \A v \in Worker : Creating(v)' => Creating(v) /\ request'[v] = request[v],
         \/ ledger' = ledger
         \/ \E e \in LedgerEntry :
              ledger' = Append(ledger, e) /\ e.kind # "auto-create" /\ e.boot = boot
  PROVE  CreatedOnce'
<1>1. ledger \in Seq(LedgerEntry) /\ boot \in Nat /\ Len(ledger) \in Nat
  BY WorkerTypes, LenProperties DEF IInv, TypeOK
<1>2. /\ Len(ledger') \in Nat
      /\ \A n \in 1 .. Len(ledger') :
           \/ n \in 1 .. Len(ledger) /\ ledger'[n] = ledger[n]
           \/ ledger'[n].kind # "auto-create" /\ ledger'[n].boot = boot
  <2>1. CASE ledger' = ledger
    BY <1>1, <2>1
  <2>2. ASSUME NEW e \in LedgerEntry, ledger' = Append(ledger, e), e.kind # "auto-create", e.boot = boot
        PROVE  <1>2!1 /\ <1>2!2
    BY <1>1, <2>2, LedgerGrows
  <2>3. QED
    BY <2>1, <2>2
<1>3. \A v \in Worker : Creating(v) => request[v].id \in Id
  BY RecorderAsked DEF Creating
<1>4. \A n \in 1 .. Len(ledger') : ledger'[n].boot \in Nat /\ ledger'[n].boot <= boot'
  BY <1>1, <1>2 DEF CreatedOnce
<1>5. \A m, n \in 1 .. Len(ledger') :
        (/\ ledger'[m].kind = "auto-create" /\ ledger'[n].kind = "auto-create"
         /\ ledger'[m].id = ledger'[n].id /\ ledger'[m].boot = ledger'[n].boot) => m = n
  BY <1>2 DEF CreatedOnce
<1>6. \A n \in 1 .. Len(ledger'), i \in Id : Created(n, i)' => n \in 1 .. Len(ledger) /\ Created(n, i)
  BY <1>2 DEF Created
<1>7. \A n \in 1 .. Len(ledger'), i \in Id : Created(n, i)' => sessions'[i] # None
  BY <1>6 DEF CreatedOnce
<1>8. ASSUME NEW w \in Worker, Creating(w)'
      PROVE  /\ sessions'[request'[w].id] # None
             /\ \A n \in 1 .. Len(ledger') : ~Created(n, request[w].id)'
             /\ \A v \in Worker : Creating(v)' /\ request'[v].id = request'[w].id => v = w
  <2>1. Creating(w) /\ request'[w] = request[w] /\ request[w].id \in Id
    BY <1>3, <1>8
  <2>2. \A n \in 1 .. Len(ledger') : ~Created(n, request[w].id)'
    BY <1>6, <2>1 DEF CreatedOnce, Created
  <2>3. QED
    BY <2>1, <2>2 DEF CreatedOnce, Created
<1>9. QED
  BY <1>4, <1>5, <1>7, <1>8 DEF CreatedOnce

\* A step that changes no session and nothing about who is to record one.
LEMMA RecordedFrame ==
  ASSUME IInv, OnRecord => AllRecorded, scene' = scene, boot' = boot, sessions' = sessions,
         \A v \in Worker : Recorder(v) => Recorder(v)' /\ request'[v] = request[v] /\ sess'[v] = sess[v],
         \/ ledger' = ledger
         \/ \E e \in LedgerEntry : ledger' = Append(ledger, e)
  PROVE  OnRecord' => AllRecorded'
<1>1. ledger \in Seq(LedgerEntry) /\ Len(ledger) \in Nat
  BY WorkerTypes, LenProperties DEF IInv, TypeOK
<1>2. 1 .. Len(ledger) \subseteq 1 .. Len(ledger') /\ \A n \in 1 .. Len(ledger) : ledger'[n] = ledger[n]
  <2>1. CASE ledger' = ledger
    BY <2>1
  <2>2. ASSUME NEW e \in LedgerEntry, ledger' = Append(ledger, e)
        PROVE  <1>2!1 /\ <1>2!2
    BY <1>1, <2>2, LedgerGrows
  <2>3. QED
    BY <2>1, <2>2
<1>3. OnRecord' = OnRecord
  BY DEF OnRecord, MayFail, Kinds
<1>4. \A n \in 1 .. Len(ledger), i \in Id : Says(n, i) => Says(n, i)'
  BY <1>2 DEF Says
<1>5. \A w \in Worker, i \in Id : WillSay(w, i) => WillSay(w, i)'
  BY DEF WillSay
<1>6. ASSUME AllRecorded, NEW i \in Id, sessions'[i] # None
      PROVE  (\E n \in 1 .. Len(ledger') : Says(n, i)') \/ (\E w \in Worker : WillSay(w, i)')
  BY <1>2, <1>4, <1>5, <1>6, Zenon DEF AllRecorded
<1>7. QED
  BY <1>3, <1>6 DEF AllRecorded

\* A step of a worker that neither is nor becomes a recorder.
LEMMA QuietKeeps ==
  ASSUME IInv, SInv, NEW w \in Worker, scene' = scene, boot' = boot, sessions' = sessions,
         \A v \in Worker \ {w} : pc'[v] = pc[v] /\ request'[v] = request[v] /\ sess'[v] = sess[v],
         ~Recorder(w), ~Recorder(w)', Placed(w)',
         \/ ledger' = ledger
         \/ \E e \in LedgerEntry :
              ledger' = Append(ledger, e) /\ e.kind # "auto-create" /\ e.boot = boot
  PROVE  SInv'
<1>1. \A v \in Worker : /\ Recorder(v)' <=> Recorder(v)
                        /\ Recorder(v) => request'[v] = request[v] /\ sess'[v] = sess[v]
  BY DEF Recorder
<1>2. \A v \in Worker : Creating(v)' => Creating(v) /\ request'[v] = request[v]
  BY <1>1 DEF Recorder, Creating
<1>3. \A v \in Worker : Placed(v)'
  BY DEF SInv, Placed
<1>4. CreatedOnce'
  BY <1>2, CreatedFrame DEF SInv
<1>5. OnRecord' => AllRecorded'
  BY <1>1, RecordedFrame DEF SInv
<1>6. QED
  BY <1>3, <1>4, <1>5 DEF SInv

LEMMA QuietStepsKeep ==
  ASSUME IInv, SInv, NEW w \in Worker, UNCHANGED scene,
         \/ \E r \in Request : Receive(w, r)
         \/ Found(w) \/ Refresh(w) \/ NotFound(w) \/ New(w) \/ CheckActive(w) \/ End(w)
         \/ Insert(w) /\ sessions[request[w].id] # None
         \/ Update(w) /\ request[w].id \in ended
         \/ Evaluate(w) \/ Decide(w) \/ Guardrail(w) \/ AppendEntry(w) \/ AppendFails(w)
  PROVE  SInv'
<1> DEFINE Still == /\ scene' = scene /\ boot' = boot /\ sessions' = sessions
                    /\ \A v \in Worker \ {w} :
                         pc'[v] = pc[v] /\ request'[v] = request[v] /\ sess'[v] = sess[v]
<1>1. pc \in [Worker -> Stage] /\ request \in [Worker -> Request \cup {None}] /\ sess \in [Worker -> Session \cup {None}]
  BY DEF IInv, TypeOK
<1>2. Placed(w) /\ (pc[w] = "ending" => request[w].kind \in {"end", "stop"})
  BY DEF SInv, IInv, WorkerOK, Asked
<1>3. Settled(w) \in {"evaluate", "append", "answered"}
  BY WhereItGoes
<1>4. ASSUME NEW r \in Request, Receive(w, r) PROVE SInv'
  <2>1. Still /\ ledger' = ledger /\ request'[w] = r
    BY <1>1, <1>4 DEF Receive, Goto, store
  <2>2. /\ pc[w] \in {"idle", "answered", "error"}
        /\ pc'[w] = IF r.kind = "create" THEN "insert" ELSE IF r.kind = "unattested" THEN "new" ELSE "look"
    BY <1>1, <1>4 DEF Receive, Goto
  <2>3. ~Recorder(w) /\ ~Recorder(w)' /\ Placed(w)'
    BY <2>1, <2>2 DEF Recorder, Placed, Minting
  <2>4. QED
    BY <2>1, <2>3, QuietKeeps
<1>5. CASE Found(w)
  <2>1. Still /\ ledger' = ledger /\ request'[w] = request[w] /\ pc[w] = "look"
    BY <1>1, <1>5 DEF Found, Goto, store
  <2>2. pc'[w] \in {"active", "ending", "refresh", Settled(w)}
        /\ (pc'[w] = "active" => request[w].kind \in {"check", "rotate"})
    BY <1>1, <1>3, <1>5 DEF Found, Goto
  <2>3. ~Recorder(w) /\ ~Recorder(w)' /\ Placed(w)'
    BY <1>3, <2>1, <2>2 DEF Recorder, Placed
  <2>4. QED
    BY <2>1, <2>3, QuietKeeps
<1>6. CASE NotFound(w)
  <2>1. Still /\ ledger' = ledger /\ request'[w] = request[w] /\ pc[w] = "look"
    BY <1>1, <1>6 DEF NotFound, Goto, store
  <2>2. pc'[w] \in {"new", "answered", "error"} /\ (pc'[w] = "new" => request[w].kind \in PreTool \cup Observing)
    BY <1>1, <1>6 DEF NotFound, Goto
  <2>3. ~Recorder(w) /\ ~Recorder(w)' /\ Placed(w)'
    BY <2>1, <2>2 DEF Recorder, Placed
  <2>4. QED
    BY <2>1, <2>3, QuietKeeps
<1>7. CASE Refresh(w) \/ New(w)
  <2>1. Still /\ ledger' = ledger /\ request'[w] = request[w]
    BY <1>1, <1>7 DEF Refresh, New, Goto, store
  <2>2. \/ pc[w] = "refresh" /\ pc'[w] = Settled(w)
        \/ pc[w] = "new" /\ pc'[w] = "insert"
    BY <1>1, <1>7 DEF Refresh, New, Goto
  <2>3. ~Recorder(w) /\ ~Recorder(w)' /\ Placed(w)'
    BY <1>2, <1>3, <2>1, <2>2 DEF Recorder, Placed
  <2>4. QED
    BY <2>1, <2>3, QuietKeeps
<1>8. CASE \/ Insert(w) /\ sessions[request[w].id] # None
           \/ Update(w) /\ request[w].id \in ended
  <2>1. Still /\ ledger' = ledger /\ request'[w] = request[w]
    BY <1>1, <1>8 DEF Insert, Update, Goto
  <2>2. pc[w] \in {"insert", "update"} /\ pc'[w] \in {"look", "error"}
    BY <1>1, <1>8 DEF Insert, Update, Goto
  <2>3. ~Recorder(w) /\ ~Recorder(w)' /\ Placed(w)'
    BY <2>2 DEF Recorder, Placed
  <2>4. QED
    BY <2>1, <2>3, QuietKeeps
<1>9. CASE CheckActive(w)
  <2>1. Still /\ ledger' = ledger /\ request'[w] = request[w] /\ pc[w] = "active"
    BY <1>1, <1>9 DEF CheckActive, Goto, store
  <2>2. pc'[w] \in {"error", "evaluate", "update"} /\ (pc'[w] = "update" => request[w].kind # "check")
    BY <1>1, <1>9 DEF CheckActive, Goto
  <2>3. ~Recorder(w) /\ ~Recorder(w)' /\ Placed(w)'
    BY <1>2, <2>1, <2>2 DEF Recorder, Placed
  <2>4. QED
    BY <2>1, <2>3, QuietKeeps
<1>10. CASE End(w)
  <2>1. Still /\ ledger' = ledger /\ request'[w] = request[w] /\ pc[w] = "ending"
    BY <1>1, <1>10 DEF End, Goto
  <2>2. pc'[w] \in {"answered", "error", "record"}
    BY <1>1, <1>10 DEF End, Goto
  <2>3. ~Recorder(w) /\ ~Recorder(w)' /\ Placed(w)'
    BY <1>2, <2>1, <2>2 DEF Recorder, Placed, PreTool, Observing, Minting
  <2>4. QED
    BY <2>1, <2>3, QuietKeeps
<1>11. CASE Evaluate(w) \/ Decide(w) \/ Guardrail(w) \/ AppendFails(w)
  <2>1. Still /\ ledger' = ledger /\ request'[w] = request[w]
    BY <1>1, <1>11 DEF Evaluate, Decide, Guardrail, AppendFails, Goto, store
  <2>2. pc[w] \in {"evaluate", "decide", "guardrails", "append"} /\ pc'[w] \in {"decide", "guardrails", "append", "error"}
    BY <1>1, <1>11 DEF Evaluate, Decide, Guardrail, AppendFails, Goto
  <2>3. ~Recorder(w) /\ ~Recorder(w)' /\ Placed(w)'
    BY <2>2 DEF Recorder, Placed
  <2>4. QED
    BY <2>1, <2>3, QuietKeeps
<1>12. CASE AppendEntry(w)
  <2> DEFINE kind == IF request[w].kind \in Deciding THEN "decision" ELSE "observed"
  <2>1. Still /\ ledger' = Append(ledger, Entry(w, kind)) /\ request'[w] = request[w]
    BY <1>1, <1>12 DEF AppendEntry, Goto, store
  <2>2. pc[w] = "append" /\ pc'[w] = "answered"
    BY <1>1, <1>12 DEF AppendEntry, Goto
  <2>3. ~Recorder(w) /\ ~Recorder(w)' /\ Placed(w)'
    BY <2>2 DEF Recorder, Placed
  <2>4. request[w] \in Request /\ sess[w] \in Session
    BY <2>2 DEF IInv, WorkerOK, Asked, InHand
  <2>5. Entry(w, kind) \in LedgerEntry /\ Entry(w, kind).kind # "auto-create" /\ Entry(w, kind).boot = boot
    BY <2>4, EntryType
  <2>6. QED
    BY <2>1, <2>3, <2>5, QuietKeeps
<1>13. QED
  BY <1>4, <1>5, <1>6, <1>7, <1>8, <1>9, <1>10, <1>11, <1>12

\* A session changes and the worker that changed it is to record it.
LEMMA ChangeRecorded ==
  ASSUME IInv, OnRecord => AllRecorded, NEW w \in Worker, NEW id \in Id, NEW s \in Session,
         UNCHANGED <<scene, boot, ledger, request>>, sessions' = [sessions EXCEPT ![id] = s],
         \A v \in Worker \ {w} : pc'[v] = pc[v] /\ sess'[v] = sess[v],
         ~Recorder(w), OnRecord => Recorder(w)', request[w].id = id, sess'[w] = s
  PROVE  OnRecord' => AllRecorded'
<1>1. sessions \in [Id -> Session \cup {None}]
  BY DEF IInv, TypeOK
<1>2. OnRecord' = OnRecord
  BY DEF OnRecord, MayFail, Kinds
<1>3. \A i \in Id \ {id} : sessions'[i] = sessions[i]
  BY <1>1
<1>4. sessions'[id] = s
  BY <1>1
<1>5. \A n \in 1 .. Len(ledger), i \in Id \ {id} : Says(n, i) => Says(n, i)'
  BY <1>3 DEF Says
<1>6. \A v \in Worker, i \in Id \ {id} : WillSay(v, i) => WillSay(v, i)'
  BY <1>3 DEF WillSay, Recorder
<1>7. OnRecord => WillSay(w, id)'
  BY <1>4 DEF WillSay
<1>8. ASSUME OnRecord, NEW i \in Id, sessions'[i] # None
      PROVE  (\E n \in 1 .. Len(ledger) : Says(n, i)') \/ (\E v \in Worker : WillSay(v, i)')
  <2>1. CASE i = id
    BY <1>7, <1>8, <2>1
  <2>2. CASE i # id
    BY <1>3, <1>5, <1>6, <1>8, <2>2 DEF AllRecorded
  <2>3. QED
    BY <2>1, <2>2
<1>9. QED
  BY <1>2, <1>8 DEF AllRecorded

LEMMA InsertsKeep ==
  ASSUME IInv, SInv, NEW w \in Worker, Insert(w), UNCHANGED scene, sessions[request[w].id] = None
  PROVE  SInv'
<1> DEFINE id == request[w].id
<1>1. /\ pc \in [Worker -> Stage] /\ sessions \in [Id -> Session \cup {None}]
      /\ ledger \in Seq(LedgerEntry) /\ boot \in Nat
  BY DEF IInv, TypeOK
<1>2. /\ pc[w] = "insert" /\ request[w] \in Request /\ id \in Id /\ sess[w] \in Session
      /\ request[w].kind \in PreTool \cup Observing \cup Minting
  BY RecorderAsked DEF Insert, IInv, SInv, WorkerOK, Asked, InHand, Placed
<1>3. sess[w] # None /\ request[w].kind \in Kinds
  BY <1>2, SessionsAreSomething, RequestType DEF IInv
<1>4. /\ sessions' = [sessions EXCEPT ![id] = sess[w]] /\ UNCHANGED <<scene, boot, ledger, request, sess>>
      /\ pc' = [pc EXCEPT ![w] = IF request[w].kind \in Recording THEN "record" ELSE Settled(w)]
  BY DEF Insert, Goto
<1>5. /\ \A v \in Worker \ {w} : pc'[v] = pc[v]
      /\ pc'[w] = IF request[w].kind \in Recording THEN "record" ELSE Settled(w)
  BY <1>1, <1>4
<1>6. Settled(w) \in {"evaluate", "append", "answered"}
  BY WhereItGoes
<1>7. \A v \in Worker : Placed(v)'
  BY <1>4, <1>5, <1>6 DEF SInv, Placed
<1>8. /\ sessions'[id] # None
      /\ \A i \in Id : sessions[i] # None => sessions'[i] # None /\ i # id
  BY <1>1, <1>2, <1>3, <1>4
<1>9. \A v \in Worker : Creating(v)' => v = w \/ Creating(v)
  BY <1>4, <1>5 DEF Creating
<1>10. \A v \in Worker : Creating(v) => request[v].id \in Id
  BY RecorderAsked DEF Creating
<1>11. CreatedOnce'
  <2>1. \A n \in 1 .. Len(ledger), i \in Id : Created(n, i)' <=> Created(n, i)
    BY <1>4 DEF Created
  <2>2. \A n \in 1 .. Len(ledger) : ~Created(n, id)
    BY <1>2 DEF SInv, CreatedOnce
  <2>3. \A v \in Worker : Creating(v) => request[v].id # id
    BY <1>8, <1>10 DEF SInv, CreatedOnce
  <2>4. \A n \in 1 .. Len(ledger), i \in Id : Created(n, i)' => sessions'[i] # None
    BY <1>8, <2>1 DEF SInv, CreatedOnce
  <2>5. ASSUME NEW v \in Worker, Creating(v)'
        PROVE  /\ sessions'[request[v].id] # None
               /\ \A n \in 1 .. Len(ledger) : ~Created(n, request[v].id)'
               /\ \A u \in Worker : Creating(u)' /\ request[u].id = request[v].id => u = v
    <3>1. v = w \/ Creating(v)
      BY <1>9, <2>5
    <3>2. request[v].id \in Id /\ request' = request
      BY <1>2, <1>4, <1>10, <3>1
    <3>3. sessions'[request[v].id] # None
      BY <1>8, <1>10, <3>1 DEF SInv, CreatedOnce
    <3>4. \A n \in 1 .. Len(ledger) : ~Created(n, request[v].id)
      BY <2>2, <3>1 DEF SInv, CreatedOnce
    <3>5. \A u \in Worker : Creating(u)' /\ request[u].id = request[v].id => u = v
      BY <1>9, <2>3, <3>1 DEF SInv, CreatedOnce
    <3>6. QED
      BY <2>1, <3>2, <3>3, <3>4, <3>5
  <2>6. /\ \A n \in 1 .. Len(ledger) : ledger'[n].boot \in Nat /\ ledger'[n].boot <= boot'
        /\ \A m, n \in 1 .. Len(ledger) :
             (/\ ledger'[m].kind = "auto-create" /\ ledger'[n].kind = "auto-create"
              /\ ledger'[m].id = ledger'[n].id /\ ledger'[m].boot = ledger'[n].boot) => m = n
    BY <1>4, Zenon DEF SInv, CreatedOnce
  <2>7. \A v \in Worker : Creating(v)' =>
          /\ sessions'[request'[v].id] # None
          /\ \A n \in 1 .. Len(ledger) : ~Created(n, request[v].id)'
          /\ \A u \in Worker : Creating(u)' /\ request'[u].id = request'[v].id => u = v
    BY <1>4, <2>5, Zenon
  <2>8. ledger' = ledger
    BY <1>4
  <2>9. QED
    BY <2>4, <2>6, <2>7, <2>8, Zenon DEF CreatedOnce
<1>12. ~Recorder(w) /\ (OnRecord => Recorder(w)')
  BY <1>2, <1>3, <1>4, <1>5
  DEF Recorder, OnRecord, Recording, PreTool, Observing, Minting
<1>13. OnRecord' => AllRecorded'
  BY <1>2, <1>4, <1>5, <1>12, ChangeRecorded DEF SInv
<1>14. QED
  BY <1>7, <1>11, <1>13 DEF SInv

LEMMA UpdatesKeep ==
  ASSUME IInv, SInv, NEW w \in Worker, Update(w), UNCHANGED scene, request[w].id \notin ended
  PROVE  SInv'
<1> DEFINE id == request[w].id
<1>1. /\ pc \in [Worker -> Stage] /\ sessions \in [Id -> Session \cup {None}]
      /\ sess \in [Worker -> Session \cup {None}]
  BY DEF IInv, TypeOK
<1>2. pc[w] = "update" /\ request[w] \in Request /\ id \in Id /\ request[w].kind = "rotate"
  BY RecorderAsked DEF Update, IInv, SInv, Placed
<1>3. Signed(w) \in Session /\ Signed(w) # None
  <2>1. Signed(w) \in Session
    BY <1>2, RequestType DEF Signed, Session, IInv, WorkerOK, Asked
  <2>2. QED
    BY <2>1, SessionsAreSomething DEF IInv
<1>4. /\ sessions' = [sessions EXCEPT ![id] = Signed(w)] /\ sess' = [sess EXCEPT ![w] = Signed(w)]
      /\ pc' = [pc EXCEPT ![w] = "record"] /\ UNCHANGED <<scene, boot, ledger, request>>
  BY DEF Update, Goto
<1>5. /\ \A v \in Worker \ {w} : pc'[v] = pc[v] /\ sess'[v] = sess[v]
      /\ pc'[w] = "record" /\ sess'[w] = Signed(w)
  BY <1>1, <1>4
<1>6. \A v \in Worker : Placed(v)'
  BY <1>4, <1>5 DEF SInv, Placed
<1>7. \A i \in Id : sessions[i] # None => sessions'[i] # None
  BY <1>1, <1>3, <1>4
<1>8. \A v \in Worker : Creating(v)' => Creating(v) /\ request'[v] = request[v]
  BY <1>2, <1>4, <1>5 DEF Creating, PreTool, Observing
<1>9. CreatedOnce'
  BY <1>4, <1>7, <1>8, CreatedFrame DEF SInv
<1>10. ~Recorder(w) /\ Recorder(w)'
  BY <1>2, <1>4, <1>5 DEF Recorder
<1>11. OnRecord' => AllRecorded'
  BY <1>2, <1>3, <1>4, <1>5, <1>10, ChangeRecorded DEF SInv
<1>12. QED
  BY <1>6, <1>9, <1>11 DEF SInv

LEMMA RecordsKeep ==
  ASSUME IInv, SInv, NEW w \in Worker, Record(w), UNCHANGED scene
  PROVE  SInv'
<1> DEFINE id == request[w].id
           kind == IF request[w].kind \in PreTool \cup Observing THEN "auto-create" ELSE request[w].kind
           e == Entry(w, kind)
<1>1. pc \in [Worker -> Stage] /\ ledger \in Seq(LedgerEntry) /\ boot \in Nat
  BY DEF IInv, TypeOK
<1>2. pc[w] = "record" /\ request[w] \in Request /\ id \in Id /\ sess[w] \in Session
  BY RecorderAsked DEF Record, IInv, WorkerOK, Asked, InHand
<1>3. /\ ledger' = Append(ledger, e) /\ UNCHANGED <<scene, boot, sessions, request, sess>>
      /\ pc' = [pc EXCEPT ![w] = Settled(w)]
  BY DEF Record, Goto, store
<1>4. /\ \A v \in Worker \ {w} : pc'[v] = pc[v]
      /\ pc'[w] \in {"evaluate", "append", "answered"}
  BY <1>1, <1>3, WhereItGoes
<1>5. kind \in Kinds \cup {"auto-create"}
  BY <1>2, RequestType
<1>6. /\ e \in LedgerEntry /\ e.kind = kind /\ e.id = id /\ e.boot = boot
      /\ e.signer = sess[w].signer /\ e.policy = sess[w].policy
  BY <1>2, <1>5, EntryType
<1> HIDE DEF e
<1>7. /\ Len(ledger) \in Nat /\ Len(ledger') = Len(ledger) + 1 /\ ledger'[Len(ledger) + 1] = e
      /\ \A n \in 1 .. Len(ledger) : ledger'[n] = ledger[n]
  BY <1>1, <1>3, <1>6, LedgerGrows
<1>8. \A v \in Worker : Placed(v)'
  BY <1>3, <1>4 DEF SInv, Placed
<1>9. CreatedOnce'
  <2>1. CASE Creating(w)
    <3>1. e.kind = "auto-create" /\ sessions[id] # None
      BY <1>6, <2>1 DEF Creating, SInv, CreatedOnce
    <3>2. \A n \in 1 .. Len(ledger) : ~Created(n, id)
      BY <2>1 DEF SInv, CreatedOnce
    <3>3. \A n \in 1 .. Len(ledger') :
            \/ n \in 1 .. Len(ledger) /\ ledger'[n] = ledger[n]
            \/ n = Len(ledger) + 1 /\ ledger'[n] = e
      <4>1. \A n \in 1 .. Len(ledger') : n \in 1 .. Len(ledger) \/ n = Len(ledger) + 1
        BY <1>7
      <4>2. QED
        BY <1>7, <4>1
    <3>4. \A n \in 1 .. Len(ledger') : ledger'[n].boot \in Nat /\ ledger'[n].boot <= boot'
      BY <1>1, <1>3, <1>6, <3>3 DEF SInv, CreatedOnce
    <3>5. \A m, n \in 1 .. Len(ledger') :
            (/\ ledger'[m].kind = "auto-create" /\ ledger'[n].kind = "auto-create"
             /\ ledger'[m].id = ledger'[n].id /\ ledger'[m].boot = ledger'[n].boot) => m = n
      BY <1>6, <3>2, <3>3 DEF SInv, CreatedOnce, Created
    <3>6. \A n \in 1 .. Len(ledger'), i \in Id :
            Created(n, i)' => (n \in 1 .. Len(ledger) /\ Created(n, i)) \/ i = id
      BY <1>3, <1>6, <3>3 DEF Created
    <3>7. \A n \in 1 .. Len(ledger'), i \in Id : Created(n, i)' => sessions'[i] # None
      BY <1>3, <3>1, <3>6 DEF SInv, CreatedOnce
    <3>8. \A v \in Worker : Creating(v)' => Creating(v) /\ v # w
      BY <1>3, <1>4 DEF Creating
    <3>9. \A v \in Worker : Creating(v)' => request[v].id \in Id /\ request[v].id # id
      BY <2>1, <3>8, RecorderAsked DEF Creating, SInv, CreatedOnce
    <3>10. \A v \in Worker : Creating(v)' =>
             /\ sessions'[request'[v].id] # None
             /\ \A n \in 1 .. Len(ledger') : ~Created(n, request[v].id)'
             /\ \A u \in Worker : Creating(u)' /\ request'[u].id = request'[v].id => u = v
      BY <1>3, <3>6, <3>8, <3>9 DEF SInv, CreatedOnce
    <3>11. QED
      BY <3>4, <3>5, <3>7, <3>10, Zenon DEF CreatedOnce
  <2>2. CASE ~Creating(w)
    <3>1. e.kind # "auto-create"
      BY <1>2, <1>6, <2>2, RequestType, KindsKnown DEF Creating, IInv
    <3>2. \A v \in Worker : Creating(v)' => Creating(v) /\ request'[v] = request[v]
      BY <1>3, <1>4 DEF Creating
    <3>3. QED
      BY <1>3, <1>6, <3>1, <3>2, CreatedFrame DEF SInv
  <2>3. QED
    BY <2>1, <2>2
<1>10. OnRecord' => AllRecorded'
  <2>1. OnRecord' = OnRecord
    BY <1>3 DEF OnRecord, MayFail, Kinds
  <2>2. 1 .. Len(ledger) \subseteq 1 .. Len(ledger') /\ Len(ledger) + 1 \in 1 .. Len(ledger')
    BY <1>7
  <2>3. \A n \in 1 .. Len(ledger), i \in Id : Says(n, i) => Says(n, i)'
    BY <1>3, <1>7 DEF Says
  <2>4. \A v \in Worker \ {w}, i \in Id : WillSay(v, i) => WillSay(v, i)'
    BY <1>3, <1>4 DEF WillSay, Recorder
  <2>5. \A i \in Id, n \in 1 .. Len(ledger') :
          WillSay(w, i) /\ n = Len(ledger) + 1 => Says(n, i)'
    <3>1. ASSUME Recorder(w) PROVE kind \in Minting \cup {"rotate", "auto-create"}
      BY <3>1 DEF Recorder
    <3>2. QED
      BY <1>3, <1>6, <1>7, <3>1 DEF WillSay, Says
  <2>6. ASSUME AllRecorded, NEW i \in Id, sessions'[i] # None
        PROVE  (\E n \in 1 .. Len(ledger') : Says(n, i)') \/ (\E v \in Worker : WillSay(v, i)')
    <3>1. (\E n \in 1 .. Len(ledger) : Says(n, i)) \/ (\E v \in Worker : WillSay(v, i))
      BY <1>3, <2>6 DEF AllRecorded
    <3>2. QED
      BY <2>2, <2>3, <2>4, <2>5, <3>1, Zenon
  <2>7. QED
    BY <2>1, <2>6 DEF SInv, AllRecorded
<1>11. QED
  BY <1>8, <1>9, <1>10 DEF SInv

\* A worker that fails to record is let off only where appends may fail.
LEMMA RecordFailuresKeep ==
  ASSUME IInv, SInv, NEW w \in Worker, RecordFails(w), UNCHANGED scene
  PROVE  SInv'
<1>1. /\ UNCHANGED <<scene, boot, ledger, sessions, request, sess>> /\ pc[w] = "record"
      /\ pc' = [pc EXCEPT ![w] = IF request[w].kind \in PreTool \cup Observing THEN Settled(w) ELSE "error"]
  BY DEF RecordFails, Goto, store
<1>2. /\ \A v \in Worker \ {w} : pc'[v] = pc[v]
      /\ pc'[w] \in {"evaluate", "append", "answered", "error"}
  BY <1>1, WhereItGoes DEF IInv, TypeOK
<1>3. \A v \in Worker : Placed(v)'
  BY <1>1, <1>2 DEF SInv, Placed
<1>4. \A v \in Worker : Creating(v)' => Creating(v) /\ request'[v] = request[v]
  BY <1>1, <1>2 DEF Creating
<1>5. CreatedOnce'
  BY <1>1, <1>4, CreatedFrame DEF SInv
<1>6. ~OnRecord'
  BY <1>1 DEF RecordFails, OnRecord, MayFail
<1>7. QED
  BY <1>3, <1>5, <1>6 DEF SInv

LEMMA RestartForgets ==
  ASSUME IInv, SInv, Restart, UNCHANGED scene
  PROVE  SInv'
<1>1. /\ sessions' = [i \in Id |-> None] /\ pc' = [w \in Worker |-> "idle"]
      /\ ledger' = ledger /\ boot' = boot + 1
  BY DEF Restart
<1>2. boot \in Nat
  BY DEF IInv, TypeOK
<1>3. \A w \in Worker : Placed(w)' /\ ~Creating(w)'
  BY <1>1 DEF Placed, Creating
<1>4. \A n \in 1 .. Len(ledger) : ledger[n].boot \in Nat /\ ledger[n].boot <= boot /\ ledger[n].boot # boot'
  BY <1>1, <1>2 DEF SInv, CreatedOnce
<1>5. \A n \in 1 .. Len(ledger), i \in Id : ~Created(n, i)'
  BY <1>1, <1>4 DEF Created
<1>6. CreatedOnce'
  BY <1>1, <1>2, <1>3, <1>4, <1>5 DEF SInv, CreatedOnce
<1>7. AllRecorded'
  BY <1>1 DEF AllRecorded
<1>8. QED
  BY <1>3, <1>6, <1>7 DEF SInv

LEMMA SessionsStart == Init => SInv
<1> SUFFICES ASSUME Init PROVE SInv
  OBVIOUS
<1>1. /\ sessions = [i \in Id |-> None] /\ pc = [w \in Worker |-> "idle"] /\ ledger = << >>
  BY DEF Init
<1>2. Len(ledger) = 0
  BY <1>1, EmptySeq
<1>3. QED
  BY <1>1, <1>2 DEF SInv, Placed, CreatedOnce, Creating, AllRecorded

LEMMA SessionsKeep ==
  ASSUME IInv, SInv, [Next]_vars
  PROVE  SInv'
<1>1. CASE UNCHANGED <<scene, boot, ledger, sessions, pc, request, sess>>
  <2>1. \A v \in Worker : /\ Creating(v)' => Creating(v) /\ request'[v] = request[v]
                          /\ Recorder(v) => Recorder(v)' /\ request'[v] = request[v] /\ sess'[v] = sess[v]
                          /\ Placed(v)'
    BY <1>1 DEF Creating, Recorder, SInv, Placed
  <2>2. CreatedOnce'
    BY <1>1, <2>1, CreatedFrame DEF SInv
  <2>3. OnRecord' => AllRecorded'
    BY <1>1, <2>1, RecordedFrame DEF SInv
  <2>4. QED
    BY <2>1, <2>2, <2>3 DEF SInv
<1>2. ASSUME NEW w \in Worker, Step(w), UNCHANGED scene PROVE SInv'
  <2>1. CASE Record(w) \/ RecordFails(w)
    BY <1>2, <2>1, RecordsKeep, RecordFailuresKeep
  <2>2. CASE Insert(w)
    BY <1>2, <2>2, InsertsKeep, QuietStepsKeep
  <2>3. CASE Update(w)
    BY <1>2, <2>3, UpdatesKeep, QuietStepsKeep
  <2>4. QED
    BY <1>2, <2>1, <2>2, <2>3, QuietStepsKeep DEF Step
<1>3. CASE Next
  <2>1. UNCHANGED scene
    BY <1>3 DEF Next
  <2>2. CASE Swap \/ (\E m \in Modes : SetMode(m)) \/ (\E i \in Id : Expire(i))
    BY <1>1, <2>1, <2>2 DEF Swap, SetMode, Expire, store
  <2>3. CASE Restart
    BY <2>1, <2>3, RestartForgets
  <2>4. QED
    BY <1>2, <1>3, <2>1, <2>2, <2>3 DEF Next
<1>4. CASE UNCHANGED vars
  BY <1>1, <1>4 DEF vars, store
<1>5. QED
  BY <1>3, <1>4

THEOREM SessionsInvariant == Spec => []SInv
<1>1. IInv /\ SInv /\ [Next]_vars => SInv'
  BY SessionsKeep
<1>2. QED
  BY InvariantHolds, SessionsStart, <1>1, PTL DEF Spec

\* hooks_claude.go, hooks_codex.go: hooks that race to be a session's first,
\* in any number, leave one auto-create entry, in every scenario.
THEOREM CreatedAlwaysOnce == Spec => []OneAutoCreate
<1>1. ASSUME IInv, SInv PROVE OneAutoCreate
  <2>1. ledger \in Seq(LedgerEntry)
    BY <1>1 DEF IInv, TypeOK
  <2>2. DOMAIN ledger = 1 .. Len(ledger)
    BY <2>1, LenProperties, Zenon
  <2>3. QED
    BY <1>1, <2>2, Zenon DEF SInv, CreatedOnce, OneAutoCreate
<1>2. QED
  BY InvariantHolds, SessionsInvariant, <1>1, PTL

\* session.go, store.go: what the ledger says of the sessions.  Claude desktop
\* hooks create sessions without an entry (Recording), so it holds without them.
THEOREM SessionsAlwaysHold ==
  ASSUME \A s \in Scenario : "desktop" \notin s.kinds
  PROVE  Spec => []SessionsHold
<1>1. ASSUME IInv, SInv PROVE SessionsRecorded
  <2>1. ledger \in Seq(LedgerEntry) /\ "desktop" \notin Kinds
    BY <1>1 DEF IInv, TypeOK, Kinds
  <2>2. DOMAIN ledger = 1 .. Len(ledger)
    BY <2>1, LenProperties, Zenon
  <2>3. ASSUME NEW id \in Id, ~MayFail, sessions[id] # None
        PROVE  (\E n \in 1 .. Len(ledger) : Says(n, id)) \/ (\E w \in Worker : WillSay(w, id))
    BY <1>1, <2>1, <2>3 DEF SInv, OnRecord, AllRecorded
  <2>4. QED
    BY <2>2, <2>3 DEF SessionsRecorded, Says, WillSay, Recorder
<1>2. RefusedAfterEnd /\ OneAutoCreate /\ SessionsRecorded => SessionsHold
  BY DEF SessionsHold
<1>3. QED
  BY InvariantHolds, SessionsInvariant, EndedAlwaysRefused, CreatedAlwaysOnce, <1>1, <1>2, PTL
=============================================================================
