------------------------- MODULE CursorHooksProofs --------------------------
(***************************************************************************)
(* What the hooks of Cursor promise, for any calls, workers, policy edits, *)
(* mode changes, expiries and restarts.                                    *)
(*                                                                         *)
(* The first part needs nothing of how Cursor fires its events: whatever   *)
(* is cached or answered rests on an entry of the call, and the entry of a *)
(* gate event is the verdict of the policy that the conversation is pinned *)
(* to (Audit).  The second one is about the two events of a pair that do   *)
(* not overlap: while one of them is handled nothing is cached for the     *)
(* call, which leaves room for one entry (Pairs).                          *)
(***************************************************************************)
EXTENDS CursorHooks, FiniteSetTheorems, FunctionTheorems, SequenceTheorems, TLAPS

Step == {"idle", "lookup", "session", "create", "evaluate", "append", "put"}
EventName == Kinds \cup {"shell", "start"}
EntryOf == [kind : EventName, call : Call, verdict : Verdicts \cup {"complete"}]
AnswerOf == [name : EventName, call : Call, verdict : Verdicts \cup {"continue", None},
             row : Nat, epoch : Nat]

TypeOK ==
  /\ cache \in [Key -> Cached \cup {None}]
  /\ session \in Verdicts \cup {None} /\ live \in Verdicts
  /\ ledger \in Seq(EntryOf)
  /\ pc \in [Worker -> Step]
  /\ event \in [Worker -> Events \cup {None}]
  /\ \A w \in Worker : Busy(w) => event[w] \in Events
  /\ sess \in [Worker -> Verdicts \cup {None}]
  /\ verdict \in [Worker -> [answered : Verdicts \cup {None}, recorded : Verdicts \cup {None}]]
  /\ row \in [Worker -> Nat]
  /\ answers \in Seq(AnswerOf)
  /\ epoch \in [Key -> Nat]

\* An entry of a call, which says "deny" if the verdict does.
Backs(r, k, v) == r \in Rows(k) /\ (v = "deny" => ledger[r].verdict = "deny")

\* The entry of a gate event is the verdict of the policy of the conversation.
Pinned(k, r) == k[1] = "pre" => session \in Verdicts /\ ledger[r].verdict = session

CacheOK(k) ==
  cache[k] # None =>
    /\ Backs(cache[k].row, k, cache[k].verdict) /\ Pinned(k, cache[k].row)
    /\ k[1] = "pre" => cache[k].verdict \in Verdicts

HandlerOK(w) ==
  /\ pc[w] = "lookup" => event[w].name \in Kinds
  /\ pc[w] = "create" => sess[w] \in Verdicts
  /\ pc[w] = "evaluate" =>
       event[w].name \in {"pre", "shell"} /\ session \in Verdicts /\ sess[w] = session
  /\ pc[w] \in {"append", "put"} =>
       /\ event[w].name # "shell"
       /\ event[w].name = "pre" =>
            /\ session \in Verdicts /\ verdict[w].recorded = session
            /\ verdict[w].answered \in Verdicts
            /\ verdict[w].answered = "deny" => session = "deny"
  /\ pc[w] = "put" =>
       /\ row[w] \in Rows(<<event[w].name, event[w].call>>)
       /\ event[w].name = "pre" => ledger[row[w]].verdict = session

\* An answer to a gate event, and one of the epoch that still goes on.
GateKey(a) == <<"pre", a.call>>
AnswerOK(a) ==
  GateAnswer(a) =>
    /\ a.row \in Rows(GateKey(a)) /\ a.epoch <= epoch[GateKey(a)]
    /\ a.epoch = epoch[GateKey(a)] => Pinned(GateKey(a), a.row)

AnswerAt(j) == AnswerOK(answers[j])

\* AnswersAudited, of one answer.
Audited(j) ==
  LET b == answers[j] IN
    IF b.name # "shell"
    THEN b.verdict = None \/ b.name = "start" \/ Backs(b.row, <<b.name, b.call>>, b.verdict)
    ELSE b.verdict = "deny" =>
           \A i \in 1 .. j - 1 :
             GateAnswer(answers[i]) /\ answers[i].call = b.call /\ answers[i].epoch = b.epoch
               => ledger[answers[i].row].verdict = "deny"

Audit ==
  /\ TypeOK
  /\ \A k \in Key : CacheOK(k)
  /\ \A w \in Worker : HandlerOK(w)
  /\ \A j \in DOMAIN answers : AnswerAt(j) /\ Audited(j)

-----------------------------------------------------------------------------
LEMMA EventFacts ==
  ASSUME NEW e \in Events
  PROVE  /\ e.call \in Call /\ e.name \in EventName
         /\ e.name = "start" => e.call \in Anonymous
         /\ e.name \in Kinds => <<e.name, e.call>> \in Key
         /\ e.name = "shell" => <<"pre", e.call>> \in Key
BY CursorAssumption DEF Events, EventName, Kinds, Key

\* The slot of an event of a pair is that of its kind.
LEMMA SlotFacts ==
  ASSUME TypeOK, NEW w \in Worker, Busy(w)
  PROVE  /\ Slot(w) \in Key /\ event[w] \in Events
         /\ event[w].name \in Kinds => Slot(w) = <<event[w].name, event[w].call>>
         /\ event[w].name = "shell" => Slot(w) = <<"pre", event[w].call>>
<1>1. event[w] \in Events
  BY DEF TypeOK
<1>2. QED
  BY <1>1, EventFacts DEF Slot, Key, Kinds, EventName

LEMMA RowFacts ==
  ASSUME NEW k, NEW r
  PROVE  r \in Rows(k) <=> r \in DOMAIN ledger /\ ledger[r].kind = k[1] /\ ledger[r].call = k[2]
BY DEF Rows

\* A ledger that is the same or longer.
Grows == \A i \in DOMAIN ledger : i \in DOMAIN ledger' /\ ledger'[i] = ledger[i]
Pins == session' = session \/ session = None

LEMMA RowsGrow ==
  ASSUME Grows, NEW k, NEW r \in Rows(k)
  PROVE  r \in Rows(k)' /\ ledger'[r] = ledger[r]
BY DEF Grows, Rows

LEMMA BacksStay ==
  ASSUME Grows, NEW r, NEW k, NEW v, Backs(r, k, v)
  PROVE  Backs(r, k, v)'
BY RowsGrow DEF Backs

LEMMA PinnedStays ==
  ASSUME Grows, Pins, NEW k, NEW r \in Rows(k), Pinned(k, r)
  PROVE  Pinned(k, r)'
BY RowsGrow, CursorAssumption DEF Pinned, Pins

\* What is cached stays right where nothing else is cached.
LEMMA CacheStays ==
  ASSUME Grows, Pins, NEW k, CacheOK(k), cache'[k] = cache[k]
  PROVE  CacheOK(k)'
BY BacksStay, PinnedStays DEF CacheOK, Backs

\* So does a handler that does not move.
LEMMA HandlerStays ==
  ASSUME Grows, Pins, NEW w, HandlerOK(w), pc'[w] = pc[w], event'[w] = event[w],
         sess'[w] = sess[w], verdict'[w] = verdict[w], row'[w] = row[w]
  PROVE  HandlerOK(w)'
<1>1. \A k : \A r \in Rows(k) : r \in Rows(k)' /\ ledger'[r] = ledger[r]
  BY RowsGrow
<1>2. session \in Verdicts => session' = session
  BY CursorAssumption DEF Pins
<1>3. QED
  BY <1>1, <1>2 DEF HandlerOK

LEMMA IdleIsOK ==
  ASSUME NEW w, pc[w] = "idle"
  PROVE  HandlerOK(w)
BY DEF HandlerOK

LEMMA AnswerAtIs ==
  ASSUME NEW j, NEW b, b = answers'[j], AnswerOK(b)'
  PROVE  AnswerAt(j)'
BY DEF AnswerAt, AnswerOK, GateAnswer, GateKey

LEMMA AnswerStays ==
  ASSUME Grows, Pins, epoch' = epoch, NEW a, AnswerOK(a)
  PROVE  AnswerOK(a)'
<1>1. (GateAnswer(a) <=> GateAnswer(a)') /\ GateKey(a)' = GateKey(a)
  BY DEF GateAnswer, GateKey
<1>2. QED
  BY <1>1, RowsGrow, PinnedStays DEF AnswerOK

\* The answers so far stay as they are: only a gate event's entry matters to them.
LEMMA AuditsStay ==
  ASSUME Grows, answers \in Seq(AnswerOf), \A j \in DOMAIN answers : AnswerOK(answers[j]),
         \A j \in DOMAIN answers : j \in DOMAIN answers' /\ answers'[j] = answers[j],
         NEW j \in DOMAIN answers, Audited(j)
  PROVE  Audited(j)'
<1>1. answers'[j] = answers[j] /\ j \in Nat
  OBVIOUS
<1>2. CASE answers[j].name # "shell"
  BY <1>1, <1>2, BacksStay DEF Audited
<1>3. CASE answers[j].name = "shell"
  <2>1. SUFFICES ASSUME answers[j].verdict = "deny", NEW i \in 1 .. j - 1, GateAnswer(answers[i]),
                        answers[i].call = answers[j].call, answers[i].epoch = answers[j].epoch
                 PROVE  ledger'[answers[i].row].verdict = "deny"
    <3>1. \A i \in 1 .. j - 1 : answers'[i] = answers[i]
      OBVIOUS
    <3>2. QED
      BY <1>1, <1>3, <3>1 DEF Audited, GateAnswer
  <2>2. ledger[answers[i].row].verdict = "deny" /\ AnswerOK(answers[i])
    BY <1>3, <2>1 DEF Audited
  <2>3. QED
    BY <2>1, <2>2, RowsGrow DEF AnswerOK
<1>4. QED
  BY <1>2, <1>3

-----------------------------------------------------------------------------
(* A handler moves on without an answer, or it answers. *)

\* Of the handlers only w's is another.
Mover(w) ==
  \A u \in Worker : u # w =>
    /\ pc'[u] = pc[u] /\ event'[u] = event[u] /\ sess'[u] = sess[u]
    /\ verdict'[u] = verdict[u] /\ row'[u] = row[u]

LEMMA MoveKeeps ==
  ASSUME Audit, NEW w \in Worker, Mover(w), TypeOK', HandlerOK(w)', Grows, Pins,
         UNCHANGED <<cache, answers, epoch>>
  PROVE  Audit'
<1>1. \A k \in Key : CacheOK(k)'
  BY CacheStays DEF Audit
<1>2. \A u \in Worker : HandlerOK(u)'
  BY HandlerStays DEF Audit, Mover
<1>3. ASSUME NEW j \in DOMAIN answers' PROVE AnswerAt(j)' /\ Audited(j)'
  <2>1. PICK a : a = answers[j]
    OBVIOUS
  <2>2. j \in DOMAIN answers /\ answers' = answers /\ AnswerOK(a)
    BY <1>3, <2>1 DEF Audit, AnswerAt
  <2>3. AnswerOK(a)'
    BY <2>2, AnswerStays
  <2>4. AnswerAt(j)'
    BY <2>1, <2>2, <2>3, AnswerAtIs
  <2>5. Audited(j)'
    BY <2>2, AuditsStay DEF Audit, AnswerAt, TypeOK
  <2>6. QED
    BY <2>4, <2>5
<1>4. QED
  BY <1>1, <1>2, <1>3 DEF Audit

\* What Respond does.
LEMMA Responds ==
  ASSUME TypeOK, NEW w \in Worker, Busy(w), NEW v \in Verdicts \cup {"continue", None}, NEW r \in Nat,
         Respond(w, v, r), NEW a,
         a = [name |-> event[w].name, call |-> event[w].call, verdict |-> v, row |-> r,
              epoch |-> epoch[Slot(w)]]
  PROVE  /\ a \in AnswerOf /\ answers' \in Seq(AnswerOf)
         /\ Len(answers') = Len(answers) + 1 /\ answers'[Len(answers) + 1] = a
         /\ \A j \in DOMAIN answers : j \in DOMAIN answers' /\ answers'[j] = answers[j]
         /\ pc' \in [Worker -> Step] /\ event' \in [Worker -> Events \cup {None}]
         /\ \A u \in Worker : pc'[u] # "idle" => event'[u] \in Events
         /\ sess' \in [Worker -> Verdicts \cup {None}]
         /\ verdict' \in [Worker -> [answered : Verdicts \cup {None}, recorded : Verdicts \cup {None}]]
         /\ row' \in [Worker -> Nat]
         /\ Mover(w) /\ pc'[w] = "idle"
<1>1. event[w] \in Events /\ Slot(w) \in Key
  BY SlotFacts
<1>2. event[w].name \in EventName /\ event[w].call \in Call /\ epoch[Slot(w)] \in Nat
  BY <1>1, EventFacts DEF TypeOK
<1>3. a \in AnswerOf
  BY <1>2 DEF AnswerOf
<1>4. answers' = Append(answers, a)
  BY Zenon DEF Respond
<1>5. /\ answers' \in Seq(AnswerOf)
      /\ Len(answers') = Len(answers) + 1 /\ answers'[Len(answers) + 1] = a
      /\ \A j \in DOMAIN answers : j \in DOMAIN answers' /\ answers'[j] = answers[j]
  BY <1>3, <1>4 DEF TypeOK
<1>6. /\ pc' \in [Worker -> Step] /\ event' \in [Worker -> Events \cup {None}]
      /\ pc'[w] = "idle" /\ Mover(w)
      /\ sess' \in [Worker -> Verdicts \cup {None}] /\ row' \in [Worker -> Nat]
      /\ verdict' \in [Worker -> [answered : Verdicts \cup {None}, recorded : Verdicts \cup {None}]]
  BY DEF Respond, Goto, TypeOK, Mover, NoVerdict, Step
<1>7. \A u \in Worker : pc'[u] # "idle" => event'[u] \in Events
  BY <1>6 DEF TypeOK, Mover, Busy
<1>8. QED
  BY <1>3, <1>5, <1>6, <1>7

\* An answer that rests on an entry, or on the session, keeps the audit.
LEMMA RespondKeeps ==
  ASSUME Audit, NEW w \in Worker, Busy(w), NEW v \in Verdicts \cup {"continue", None}, NEW r \in Nat,
         Respond(w, v, r), UNCHANGED <<ledger, session, epoch, live>>,
         cache' \in [Key -> Cached \cup {None}], \A k \in Key : CacheOK(k)',
         event[w].name \in Kinds /\ v # None =>
           Backs(r, <<event[w].name, event[w].call>>, v) /\ Pinned(<<event[w].name, event[w].call>>, r),
         event[w].name = "shell" /\ v = "deny" => session = "deny"
  PROVE  Audit'
<1>1. PICK a : a = [name |-> event[w].name, call |-> event[w].call, verdict |-> v, row |-> r,
                    epoch |-> epoch[Slot(w)]]
  OBVIOUS
<1>2. PICK n : n = Len(answers) + 1
  OBVIOUS
<1>3. /\ a \in AnswerOf /\ answers' \in Seq(AnswerOf)
      /\ Len(answers') = n /\ answers'[n] = a
      /\ \A j \in DOMAIN answers : j \in DOMAIN answers' /\ answers'[j] = answers[j]
      /\ Mover(w) /\ pc'[w] = "idle"
  BY <1>1, <1>2, Responds DEF Audit
<1>4. TypeOK'
  <2>1. /\ pc' \in [Worker -> Step] /\ event' \in [Worker -> Events \cup {None}]
        /\ \A u \in Worker : pc'[u] # "idle" => event'[u] \in Events
        /\ sess' \in [Worker -> Verdicts \cup {None}]
        /\ verdict' \in [Worker -> [answered : Verdicts \cup {None}, recorded : Verdicts \cup {None}]]
        /\ row' \in [Worker -> Nat]
    BY <1>1, Responds DEF Audit
  <2>2. QED
    BY <1>3, <2>1 DEF Audit, TypeOK, Busy
<1>5. Grows /\ Pins /\ epoch' = epoch
  BY DEF Grows, Pins
<1>6. \A u \in Worker : HandlerOK(u)'
  <2>1. ASSUME NEW u \in Worker, u # w PROVE HandlerOK(u)'
    BY <1>3, <1>5, <2>1, HandlerStays DEF Mover, Audit
  <2>2. HandlerOK(w)'
    BY <1>3 DEF HandlerOK
  <2>3. QED
    BY <2>1, <2>2
<1>7. n \in Nat /\ DOMAIN answers' = 1 .. n /\ DOMAIN answers = 1 .. n - 1
  BY <1>2, <1>3 DEF Audit, TypeOK
<1>8. ASSUME NEW j \in DOMAIN answers PROVE AnswerAt(j)' /\ Audited(j)'
  <2>1. PICK b : b = answers[j]
    OBVIOUS
  <2>2. AnswerOK(b)'
    BY <1>5, <2>1, AnswerStays DEF Audit, AnswerAt
  <2>3. answers'[j] = b
    BY <1>3, <2>1
  <2>4. AnswerAt(j)'
    BY <2>2, <2>3, AnswerAtIs
  <2>5. Audited(j)'
    BY <1>3, <1>5, AuditsStay DEF Audit, AnswerAt, TypeOK
  <2>6. QED
    BY <2>4, <2>5
<1>9. /\ Slot(w) \in Key
      /\ event[w].name \in Kinds => Slot(w) = <<event[w].name, event[w].call>>
      /\ event[w].name = "shell" => Slot(w) = <<"pre", event[w].call>>
      /\ event[w] \in Events
  BY SlotFacts DEF Audit
<1>10. /\ a.name = event[w].name /\ a.call = event[w].call /\ a.verdict = v /\ a.row = r
       /\ a.epoch = epoch[Slot(w)]
  BY <1>1
<1>11. AnswerAt(n)'
  <2>1. SUFFICES ASSUME GateAnswer(a)
                 PROVE  /\ r \in Rows(GateKey(a)) /\ a.epoch <= epoch[GateKey(a)]
                        /\ Pinned(GateKey(a), r)
    <3>1. AnswerOK(a)' => AnswerAt(n)'
      BY <1>3, AnswerAtIs
    <3>2. QED
      BY <1>5, <1>10, <3>1 DEF AnswerOK, GateAnswer, GateKey, Rows, Pinned
  <2>2. event[w].name = "pre" /\ v # None /\ GateKey(a) = <<event[w].name, event[w].call>>
    BY <1>10, <2>1 DEF GateAnswer, GateKey
  <2>3. a.epoch = epoch[GateKey(a)] /\ epoch[GateKey(a)] \in Nat
    <3>1. GateKey(a) = Slot(w)
      BY <1>9, <2>2 DEF Kinds
    <3>2. QED
      BY <1>9, <1>10, <3>1 DEF Audit, TypeOK
  <2>4. QED
    BY <2>2, <2>3 DEF Backs, Kinds
<1>12. Audited(n)'
  <2>1. CASE a.name # "shell"
    <3>1. a.name \in Kinds \/ a.name = "start"
      BY <1>9, <1>10, <2>1, EventFacts DEF EventName
    <3>2. a.verdict = None \/ a.name = "start" \/ Backs(a.row, <<a.name, a.call>>, a.verdict)
      BY <1>10, <3>1
    <3>3. a.verdict = None \/ a.name = "start" \/ Backs(a.row, <<a.name, a.call>>, a.verdict)'
      BY <1>5, <3>2, BacksStay
    <3>4. QED
      BY <1>3, <2>1, <3>3 DEF Audited
  <2>2. CASE a.name = "shell"
    <3>1. SUFFICES ASSUME a.verdict = "deny", NEW i \in 1 .. n - 1,
                          GateAnswer(answers[i]), answers[i].call = a.call, answers[i].epoch = a.epoch
                   PROVE  ledger[answers[i].row].verdict = "deny"
      <4>1. \A i \in 1 .. n - 1 : answers'[i] = answers[i]
        BY <1>3, <1>7
      <4>2. QED
        BY <1>3, <2>2, <4>1 DEF Audited, GateAnswer
    <3>2. AnswerOK(answers[i]) /\ session = "deny"
      BY <1>7, <1>10, <2>2, <3>1 DEF Audit, AnswerAt
    <3>3. GateKey(answers[i]) = Slot(w) /\ answers[i].epoch = epoch[Slot(w)]
      BY <1>9, <1>10, <2>2, <3>1 DEF GateKey
    <3>4. Pinned(GateKey(answers[i]), answers[i].row)
      BY <3>1, <3>2, <3>3 DEF AnswerOK
    <3>5. QED
      BY <3>2, <3>4 DEF Pinned, GateKey
  <2>3. QED
    BY <2>1, <2>2
<1>13. \A j \in DOMAIN answers' : AnswerAt(j)' /\ Audited(j)'
  BY <1>7, <1>8, <1>11, <1>12
<1>14. QED
  BY <1>4, <1>6, <1>13 DEF Audit

-----------------------------------------------------------------------------
(* The steps of a handler. *)

LEMMA ReceiveAudited ==
  ASSUME Audit, NEW w \in Worker, NEW e \in Events, Receive(w, e)
  PROVE  Audit'
<1>1. /\ event' = [event EXCEPT ![w] = e]
      /\ pc' = [pc EXCEPT ![w] = IF e.name \in Kinds THEN "lookup" ELSE "session"]
      /\ UNCHANGED <<cache, session, ledger, sess, verdict, row, answers, epoch, live>>
  BY DEF Receive, Goto, environment
<1>2. TypeOK'
  BY <1>1 DEF Audit, TypeOK, Busy, Step
<1>3. Mover(w) /\ Grows /\ Pins
  BY <1>1 DEF Mover, Grows, Pins, Audit, TypeOK
<1>4. HandlerOK(w)'
  BY <1>1 DEF HandlerOK, Audit, TypeOK
<1>5. QED
  BY <1>1, <1>2, <1>3, <1>4, MoveKeeps

LEMMA LookupAudited ==
  ASSUME Audit, NEW w \in Worker, Lookup(w)
  PROVE  Audit'
<1>1. /\ pc[w] = "lookup" /\ Busy(w) /\ event[w].name \in Kinds /\ Slot(w) \in Key
      /\ Slot(w) = <<event[w].name, event[w].call>>
      /\ UNCHANGED <<cache, session, ledger, epoch, live>>
  BY SlotFacts DEF Lookup, Audit, HandlerOK, Busy, environment
<1>2. CASE event[w].call \notin Anonymous /\ cache[Slot(w)] # None
  <2>1. PICK v, r : v = cache[Slot(w)].verdict /\ r = cache[Slot(w)].row
    OBVIOUS
  <2>2. Respond(w, v, r)
    BY <1>2, <2>1, Zenon DEF Lookup
  <2>3. v \in Verdicts \cup {"continue"} /\ r \in Nat
    BY <1>1, <1>2, <2>1 DEF Audit, TypeOK, Cached
  <2>4. Backs(r, Slot(w), v) /\ Pinned(Slot(w), r)
    BY <1>1, <1>2, <2>1 DEF Audit, CacheOK
  <2>5. \A k \in Key : CacheOK(k)'
    BY <1>1 DEF Audit, CacheOK, Backs, Pinned, Rows
  <2>6. event[w].name # "shell"
    BY <1>1 DEF Kinds
  <2>7. cache' \in [Key -> Cached \cup {None}]
    BY <1>1 DEF Audit, TypeOK
  <2>8. QED
    BY <1>1, <2>2, <2>3, <2>4, <2>5, <2>6, <2>7, RespondKeeps
<1>3. CASE ~(event[w].call \notin Anonymous /\ cache[Slot(w)] # None)
  <2>1. pc' = [pc EXCEPT ![w] = "session"] /\ UNCHANGED <<event, sess, verdict, row, answers>>
    BY <1>3, Zenon DEF Lookup, Goto
  <2>2. TypeOK'
    BY <1>1, <2>1 DEF Audit, TypeOK, Busy, Step
  <2>3. Mover(w) /\ Grows /\ Pins
    BY <1>1, <2>1 DEF Mover, Grows, Pins, Audit, TypeOK
  <2>4. HandlerOK(w)'
    BY <2>1 DEF HandlerOK, Audit, TypeOK
  <2>5. QED
    BY <1>1, <2>1, <2>2, <2>3, <2>4, MoveKeeps
<1>4. QED
  BY <1>2, <1>3

\* A handler that has its session goes on as its event asks for.
LEMMA SessionFound ==
  ASSUME Audit, NEW w \in Worker, Busy(w), Mover(w), session' \in Verdicts, Pins,
         pc' = [pc EXCEPT ![w] = AfterSession(w)], sess' \in [Worker -> Verdicts \cup {None}],
         sess'[w] = session', UNCHANGED <<cache, ledger, event, verdict, row, answers, epoch, live>>,
         pc[w] \notin {"append", "put"}
  PROVE  Audit'
<1>1. AfterSession(w) \in {"evaluate", "append"} /\ event[w].name \in EventName
  BY SlotFacts, EventFacts DEF AfterSession, Audit
<1>2. TypeOK'
  BY <1>1 DEF Audit, TypeOK, Busy, Step
<1>3. Grows
  BY DEF Grows
<1>4. HandlerOK(w)'
  <2>1. pc'[w] = AfterSession(w)
    BY DEF Audit, TypeOK
  <2>2. QED
    BY <1>1, <2>1 DEF HandlerOK, AfterSession
<1>5. QED
  BY <1>2, <1>3, <1>4, MoveKeeps

LEMMA FindSessionAudited ==
  ASSUME Audit, NEW w \in Worker, FindSession(w)
  PROVE  Audit'
<1>1. /\ pc[w] = "session" /\ Busy(w)
      /\ sess' = [sess EXCEPT ![w] = IF session = None THEN live ELSE session]
      /\ pc' = [pc EXCEPT ![w] = IF session = None THEN "create" ELSE AfterSession(w)]
      /\ UNCHANGED <<cache, session, ledger, event, verdict, row, answers, epoch, live>>
  BY DEF FindSession, Goto, Busy, environment
<1>2. Mover(w) /\ Grows /\ Pins /\ sess' \in [Worker -> Verdicts \cup {None}]
  BY <1>1 DEF Mover, Grows, Pins, Audit, TypeOK
<1>3. CASE session = None
  <2>1. TypeOK'
    BY <1>1, <1>2, <1>3 DEF Audit, TypeOK, Busy, Step
  <2>2. HandlerOK(w)'
    BY <1>1, <1>3 DEF HandlerOK, Audit, TypeOK
  <2>3. QED
    BY <1>1, <1>2, <2>1, <2>2, MoveKeeps
<1>4. CASE session # None
  BY <1>1, <1>2, <1>4, SessionFound DEF Audit, TypeOK
<1>5. QED
  BY <1>3, <1>4

LEMMA CreateSessionAudited ==
  ASSUME Audit, NEW w \in Worker, CreateSession(w)
  PROVE  Audit'
<1>1. /\ pc[w] = "create" /\ Busy(w) /\ sess[w] \in Verdicts
      /\ pc' = [pc EXCEPT ![w] = AfterSession(w)]
      /\ UNCHANGED <<cache, ledger, event, verdict, row, answers, epoch, live>>
      /\ IF session = None THEN session' = sess[w] /\ UNCHANGED sess
         ELSE sess' = [sess EXCEPT ![w] = session] /\ UNCHANGED session
  BY DEF CreateSession, Goto, Busy, environment, Audit, HandlerOK
<1>2. /\ Mover(w) /\ Pins /\ sess' \in [Worker -> Verdicts \cup {None}]
      /\ sess'[w] = session' /\ session' \in Verdicts
  BY <1>1 DEF Mover, Pins, Audit, TypeOK
<1>3. QED
  BY <1>1, <1>2, SessionFound

LEMMA EvaluateAudited ==
  ASSUME Audit, NEW w \in Worker, Evaluate(w)
  PROVE  Audit'
<1>1. /\ pc[w] = "evaluate" /\ Busy(w) /\ event[w].name \in {"pre", "shell"}
      /\ session \in Verdicts /\ sess[w] = session
      /\ UNCHANGED <<cache, session, ledger, epoch, live>>
  BY DEF Evaluate, Busy, environment, Audit, HandlerOK
<1>2. PICK v : v = UnderMode(sess[w])
  OBVIOUS
<1>3. v \in Verdicts /\ (v = "deny" => session = "deny")
  BY <1>1, <1>2 DEF UnderMode, Verdicts
<1>4. CASE event[w].name = "pre"
  <2>1. /\ verdict' = [verdict EXCEPT ![w] = [answered |-> v, recorded |-> sess[w]]]
        /\ pc' = [pc EXCEPT ![w] = "append"] /\ UNCHANGED <<event, sess, row, answers>>
    BY <1>2, <1>4, Zenon DEF Evaluate, Goto
  <2>2. TypeOK'
    BY <1>1, <1>3, <2>1 DEF Audit, TypeOK, Busy, Step
  <2>3. Mover(w) /\ Grows /\ Pins
    BY <1>1, <2>1 DEF Mover, Grows, Pins, Audit, TypeOK
  <2>4. HandlerOK(w)'
    BY <1>1, <1>3, <1>4, <2>1 DEF HandlerOK, Audit, TypeOK
  <2>5. QED
    BY <1>1, <2>1, <2>2, <2>3, <2>4, MoveKeeps
<1>5. CASE event[w].name # "pre"
  <2>1. Respond(w, v, 0)
    BY <1>2, <1>5, Zenon DEF Evaluate
  <2>2. event[w].name = "shell"
    BY <1>1, <1>5
  <2>3. \A k \in Key : CacheOK(k)'
    BY <1>1 DEF Audit, CacheOK, Backs, Pinned, Rows
  <2>4. cache' \in [Key -> Cached \cup {None}] /\ event[w].name \notin Kinds
    BY <1>1, <2>2 DEF Audit, TypeOK, Kinds
  <2>5. QED
    BY <1>1, <1>3, <2>1, <2>2, <2>3, <2>4, RespondKeeps
<1>6. QED
  BY <1>4, <1>5

\* The entry of a gate event is the verdict of the policy of the conversation.
LEMMA AppendEntryAudited ==
  ASSUME Audit, NEW w \in Worker, AppendEntry(w)
  PROVE  Audit'
<1>1. PICK n, x : n = Len(ledger) + 1 /\ x = Entry(w)
  OBVIOUS
<1>2. /\ pc[w] = "append" /\ Busy(w) /\ ledger' = Append(ledger, x)
      /\ row' = [row EXCEPT ![w] = n] /\ pc' = [pc EXCEPT ![w] = "put"]
      /\ UNCHANGED <<cache, session, event, sess, verdict, answers, epoch, live>>
  BY <1>1 DEF AppendEntry, Goto, Busy, environment
<1>3. event[w] \in Events /\ event[w].name \in EventName /\ event[w].call \in Call
  BY <1>2, SlotFacts, EventFacts DEF Audit
<1>4. /\ event[w].name # "shell"
      /\ event[w].name = "pre" =>
           /\ session \in Verdicts /\ verdict[w].recorded = session
           /\ verdict[w].answered \in Verdicts /\ (verdict[w].answered = "deny" => session = "deny")
  BY <1>2 DEF Audit, HandlerOK
<1>5. /\ x \in EntryOf /\ x.kind = event[w].name /\ x.call = event[w].call
      /\ event[w].name = "pre" => x.verdict = session
  BY <1>1, <1>3, <1>4 DEF Entry, EntryOf
<1>6. /\ ledger' \in Seq(EntryOf) /\ n \in DOMAIN ledger' /\ ledger'[n] = x /\ n \in Nat
      /\ \A i \in DOMAIN ledger : i \in DOMAIN ledger' /\ ledger'[i] = ledger[i]
  BY <1>1, <1>2, <1>5 DEF Audit, TypeOK
<1>7. TypeOK'
  BY <1>2, <1>6 DEF Audit, TypeOK, Busy, Step
<1>8. Mover(w) /\ Grows /\ Pins
  BY <1>2, <1>6 DEF Mover, Grows, Pins, Audit, TypeOK
<1>9. HandlerOK(w)'
  <2>1. pc'[w] = "put" /\ row'[w] = n
    BY <1>2 DEF Audit, TypeOK
  <2>2. n \in Rows(<<event[w].name, event[w].call>>)'
    BY <1>2, <1>5, <1>6 DEF Rows
  <2>3. QED
    BY <1>2, <1>4, <1>5, <1>6, <2>1, <2>2 DEF HandlerOK
<1>10. QED
  BY <1>2, <1>7, <1>8, <1>9, MoveKeeps

LEMMA AppendFailsAudited ==
  ASSUME Audit, NEW w \in Worker, AppendFails(w)
  PROVE  Audit'
<1>1. /\ Busy(w) /\ Respond(w, None, 0) /\ UNCHANGED <<cache, session, ledger, epoch, live>>
  BY DEF AppendFails, Fail, Busy, environment
<1>2. \A k \in Key : CacheOK(k)'
  BY <1>1 DEF Audit, CacheOK, Backs, Pinned, Rows
<1>3. cache' \in [Key -> Cached \cup {None}] /\ None # "deny"
  BY <1>1, CursorAssumption DEF Audit, TypeOK, Verdicts
<1>4. QED
  BY <1>1, <1>2, <1>3, RespondKeeps

LEMMA PutAudited ==
  ASSUME Audit, NEW w \in Worker, Put(w)
  PROVE  Audit'
<1>1. PICK v, r, k : v = Answered(w) /\ r = row[w] /\ k = <<event[w].name, event[w].call>>
  OBVIOUS
<1>2. /\ pc[w] = "put" /\ Busy(w) /\ event[w].name # "shell" /\ r \in Nat
      /\ r \in Rows(k)
      /\ event[w].name = "pre" =>
           /\ session \in Verdicts /\ v \in Verdicts /\ (v = "deny" => session = "deny")
           /\ ledger[r].verdict = session
  BY <1>1 DEF Put, Busy, Audit, HandlerOK, TypeOK, Answered
<1>3. /\ v \in Verdicts \cup {"continue"} /\ Backs(r, k, v) /\ Pinned(k, r)
      /\ event[w].name # "pre" => v = "continue"
  BY <1>1, <1>2 DEF Answered, Backs, Pinned
<1>4. Respond(w, v, r) /\ UNCHANGED <<session, ledger, epoch, live>>
  BY <1>1 DEF Put, environment
<1>5. \/ cache' = cache
      \/ /\ event[w].name \in Kinds /\ Slot(w) = k /\ k \in Key
         /\ cache' = [cache EXCEPT ![k] = [verdict |-> v, row |-> r]]
  <2>1. event[w].name \in EventName /\ event[w] \in Events
    BY <1>2, SlotFacts, EventFacts DEF Audit
  <2>2. \/ cache' = cache
        \/ event[w].name # "start" /\ cache' = [cache EXCEPT ![Slot(w)] = [verdict |-> v, row |-> r]]
    BY <1>1, Zenon DEF Put
  <2>3. event[w].name # "start" => event[w].name \in Kinds /\ Slot(w) = k /\ k \in Key
    BY <1>1, <1>2, <2>1, SlotFacts, EventFacts DEF EventName, Kinds, Audit
  <2>4. QED
    BY <2>2, <2>3
<1>6. /\ cache' \in [Key -> Cached \cup {None}]
      /\ \A j \in Key : cache'[j] = cache[j] \/ (j = k /\ cache'[j] = [verdict |-> v, row |-> r])
  <2>1. PICK c : c = [verdict |-> v, row |-> r]
    OBVIOUS
  <2>2. c \in Cached /\ cache \in [Key -> Cached \cup {None}]
    BY <1>2, <1>3, <2>1 DEF Audit, TypeOK, Cached
  <2>3. cache' = cache \/ (k \in Key /\ cache' = [cache EXCEPT ![k] = c])
    BY <1>5, <2>1, Zenon
  <2>4. /\ cache' \in [Key -> Cached \cup {None}]
        /\ \A j \in Key : cache'[j] = cache[j] \/ (j = k /\ cache'[j] = c)
    BY <2>2, <2>3
  <2>5. QED
    BY <2>1, <2>4
<1>7. ASSUME NEW j \in Key PROVE CacheOK(j)'
  <2>1. Grows /\ Pins
    BY <1>4 DEF Grows, Pins
  <2>2. CASE cache'[j] = cache[j]
    BY <2>1, <2>2, CacheStays DEF Audit
  <2>3. CASE j = k /\ cache'[j] = [verdict |-> v, row |-> r]
    <3>1. Backs(r, k, v)' /\ Pinned(k, r)'
      BY <1>3, <2>1, BacksStay, PinnedStays DEF Backs
    <3>2. k[1] = "pre" => v \in Verdicts
      BY <1>1, <1>2
    <3>3. QED
      BY <2>3, <3>1, <3>2 DEF CacheOK
  <2>4. QED
    BY <1>6, <2>2, <2>3
<1>8. QED
  BY <1>1, <1>2, <1>3, <1>4, <1>6, <1>7, RespondKeeps

-----------------------------------------------------------------------------
(* What goes on around the handlers. *)

LEMMA StillAudited ==
  ASSUME Audit, UNCHANGED <<cache, session, ledger, handlers, answers, epoch>>, live' \in Verdicts
  PROVE  Audit'
<1>1. TypeOK'
  BY DEF Audit, TypeOK, handlers, Busy
<1>2. /\ \A k \in Key : CacheOK(k)' 
      /\ \A w \in Worker : HandlerOK(w)'
  BY DEF Audit, CacheOK, HandlerOK, Backs, Pinned, Rows, handlers
<1>3. Grows /\ Pins /\ epoch' = epoch /\ answers' = answers
  BY DEF Grows, Pins
<1>4. ASSUME NEW j \in DOMAIN answers PROVE AnswerAt(j)' /\ Audited(j)'
  <2>1. PICK b : b = answers[j]
    OBVIOUS
  <2>2. AnswerOK(b)'
    BY <1>3, <2>1, AnswerStays DEF Audit, AnswerAt
  <2>3. QED
    BY <1>3, <2>1, <2>2, AnswerAtIs, AuditsStay DEF Audit, AnswerAt, TypeOK
<1>5. QED
  BY <1>1, <1>2, <1>3, <1>4 DEF Audit

\* The cache forgets something: the answers of that epoch are of an earlier one.
LEMMA ForgetKeeps ==
  ASSUME Audit, TypeOK', \A k \in Key : CacheOK(k)', \A w \in Worker : HandlerOK(w)',
         UNCHANGED <<ledger, answers>>,
         \A k \in Key : \/ epoch'[k] = epoch[k] /\ session' = session
                        \/ epoch'[k] = epoch[k] + 1
  PROVE  Audit'
<1>1. Grows
  BY DEF Grows
<1>2. ASSUME NEW j \in DOMAIN answers PROVE AnswerAt(j)' /\ Audited(j)'
  <2>1. PICK b : b = answers[j]
    OBVIOUS
  <2>2. AnswerOK(b) /\ b \in AnswerOf
    BY <2>1 DEF Audit, AnswerAt, TypeOK
  <2>3. GateKey(b) \in Key /\ epoch[GateKey(b)] \in Nat /\ b.epoch \in Nat
    BY <2>2 DEF Audit, TypeOK, AnswerOf, GateKey, Key, Kinds
  <2>4. AnswerOK(b)'
    BY <2>2, <2>3 DEF AnswerOK, GateKey, GateAnswer, Pinned, Rows
  <2>5. QED
    BY <1>1, <2>1, <2>4, AnswerAtIs, AuditsStay DEF Audit, AnswerAt, TypeOK
<1>3. QED
  BY <1>2 DEF Audit

LEMMA ExpireAudited ==
  ASSUME Audit, NEW k \in Key, Expire(k)
  PROVE  Audit'
<1>1. /\ cache' = [cache EXCEPT ![k] = None] /\ epoch' = [epoch EXCEPT ![k] = @ + 1]
      /\ UNCHANGED <<session, ledger, handlers, answers, live>>
  BY DEF Expire
<1>2. TypeOK'
  BY <1>1 DEF Audit, TypeOK, handlers, Busy
<1>3. /\ \A j \in Key : CacheOK(j)'
      /\ \A w \in Worker : HandlerOK(w)'
  <2>1. \A j \in Key : cache'[j] = None \/ cache'[j] = cache[j]
    BY <1>1 DEF Audit, TypeOK
  <2>2. QED
    BY <1>1, <2>1 DEF Audit, CacheOK, HandlerOK, Backs, Pinned, Rows, handlers
<1>4. \A j \in Key : epoch'[j] = epoch[j] \/ epoch'[j] = epoch[j] + 1
  BY <1>1 DEF Audit, TypeOK
<1>5. QED
  BY <1>1, <1>2, <1>3, <1>4, ForgetKeeps

LEMMA RestartAudited ==
  ASSUME Audit, Restart
  PROVE  Audit'
<1>1. /\ cache' = [j \in Key |-> None] /\ session' = None
      /\ epoch' = [j \in Key |-> epoch[j] + 1] /\ pc' = [w \in Worker |-> "idle"]
      /\ event' = [w \in Worker |-> None] /\ sess' = [w \in Worker |-> None]
      /\ verdict' = [w \in Worker |-> NoVerdict] /\ row' = [w \in Worker |-> 0]
      /\ UNCHANGED <<ledger, answers, live>>
  BY DEF Restart
<1>2. TypeOK'
  BY <1>1 DEF Audit, TypeOK, Busy, NoVerdict, Step
<1>3. \A j \in Key : CacheOK(j)'
  BY <1>1 DEF CacheOK
<1>4. \A w \in Worker : HandlerOK(w)'
  BY <1>1 DEF HandlerOK
<1>5. \A j \in Key : epoch'[j] = epoch[j] + 1
  BY <1>1
<1>6. QED
  BY <1>1, <1>2, <1>3, <1>4, <1>5, ForgetKeeps

-----------------------------------------------------------------------------
LEMMA AuditInvariant == Spec => []Audit
<1>1. Init => Audit
  <2>1. SUFFICES ASSUME Init PROVE Audit
    OBVIOUS
  <2>2. TypeOK
    BY <2>1 DEF Init, TypeOK, Busy, NoVerdict, Step
  <2>3. \A k \in Key : CacheOK(k)
    BY <2>1 DEF Init, CacheOK
  <2>4. \A w \in Worker : HandlerOK(w)
    BY <2>1 DEF Init, HandlerOK
  <2>5. DOMAIN answers = {}
    BY <2>1 DEF Init
  <2>6. QED
    BY <2>2, <2>3, <2>4, <2>5 DEF Audit
<1>2. Audit /\ [Next]_vars => Audit'
  <2>1. ASSUME Audit, NEW w \in Worker, Handle(w) PROVE Audit'
    BY <2>1, LookupAudited, FindSessionAudited, CreateSessionAudited, EvaluateAudited,
       AppendEntryAudited, AppendFailsAudited, PutAudited, Zenon DEF Handle
  <2>2. ASSUME Audit, EditPolicy \/ SetMode PROVE Audit'
    BY <2>2, StillAudited DEF EditPolicy, SetMode, Audit, TypeOK
  <2>3. ASSUME Audit, UNCHANGED vars PROVE Audit'
    BY <2>3, StillAudited DEF vars, handlers, environment, Audit, TypeOK
  <2>4. QED
    BY <2>1, <2>2, <2>3, ReceiveAudited, RestartAudited, ExpireAudited, Zenon DEF Next
<1>3. QED
  BY <1>1, <1>2, PTL DEF Spec

\* No event is answered on credit: behind an answer to a gate or outcome event,
\* cached ones included, is an entry of that call, and behind a denial one that
\* says so, also for the shell event that writes none (hooks_cursor.go's handlers
\* of preToolUse, beforeMCPExecution, beforeShellExecution and of the outcomes).
THEOREM AnswersAlwaysAudited == Spec => []AnswersAudited
<1>1. Audit => AnswersAudited
  BY Zenon DEF Audit, Audited, AnswersAudited, Backs
<1>2. QED
  BY <1>1, AuditInvariant, PTL

-----------------------------------------------------------------------------
(* The events of a pair, one at a time. *)

EventKey(w) == <<event[w].name, event[w].call>>
Putting(k) == \E w \in Worker : pc[w] = "put" /\ EventKey(w) = k

Alone == \A v, w \in Worker :
  v # w /\ Busy(v) /\ Busy(w) /\ event[v].call = event[w].call => event[v].name # event[w].name

\* A handler that has missed the cache still would.
NoneCached(w) ==
  pc[w] \notin {"idle", "lookup"} /\ event[w].name \in Kinds /\ event[w].call \notin Anonymous
    => cache[EventKey(w)] = None

\* A call has at most one entry for each time the cache forgot it, and one more
\* as long as it is cached or about to be.
CountOK(k) ==
  k[2] \notin Anonymous =>
    /\ Cardinality(Rows(k)) <= 1 + epoch[k]
    /\ cache[k] = None /\ ~Putting(k) => Cardinality(Rows(k)) <= epoch[k]

\* What has been answered in the epoch that goes on is cached.
CachedAnswer(a) ==
  GateAnswer(a) /\ a.call \notin Anonymous /\ a.epoch = epoch[GateKey(a)] =>
    /\ cache[GateKey(a)] # None
    /\ cache[GateKey(a)].verdict = a.verdict /\ cache[GateKey(a)].row = a.row

Same(a, b) ==
  GateAnswer(a) /\ GateAnswer(b) /\ a.call = b.call /\ a.call \notin Anonymous /\ a.epoch = b.epoch
    => a.verdict = b.verdict /\ a.row = b.row

CachedAt(j) == CachedAnswer(answers[j])

Pairs ==
  /\ Alone
  /\ \A w \in Worker : NoneCached(w)
  /\ \A k \in Key : CountOK(k)
  /\ \A j \in DOMAIN answers : CachedAt(j)
  /\ \A i, j \in DOMAIN answers : Same(answers[i], answers[j])

LEMMA CachedAtIs ==
  ASSUME NEW j, NEW b, b = answers'[j], CachedAnswer(b)'
  PROVE  CachedAt(j)'
BY DEF CachedAt, CachedAnswer, GateAnswer, GateKey

LEMMA RowsFinite ==
  ASSUME Audit, NEW k
  PROVE  IsFiniteSet(Rows(k)) /\ Cardinality(Rows(k)) \in Nat
<1>1. DOMAIN ledger = 1 .. Len(ledger) /\ Len(ledger) \in Nat
  BY DEF Audit, TypeOK
<1>2. Rows(k) \subseteq DOMAIN ledger
  BY DEF Rows
<1>3. PICK n \in Nat : n = Len(ledger)
  BY <1>1
<1>4. 1 \in Int /\ n \in Int
  OBVIOUS
<1>5. IsFiniteSet(1 .. n)
  BY <1>4, FS_Interval
<1>6. QED
  BY <1>1, <1>2, <1>3, <1>5, FS_Subset, FS_CardinalityType

\* Handlers that do not move stay alone, whether or not w has gone idle.
LEMMA AloneStays ==
  ASSUME Alone, NEW w \in Worker, Mover(w),
         pc'[w] = "idle" \/ (event'[w] = event[w] /\ Busy(w))
  PROVE  Alone'
BY DEF Alone, Mover, Busy

LEMMA NoneCachedStays ==
  ASSUME NEW w \in Worker, NEW u \in Worker, u # w, Mover(w), NoneCached(u),
         cache'[EventKey(u)] = cache[EventKey(u)]
  PROVE  NoneCached(u)'
<1>1. event'[u] = event[u] /\ pc'[u] = pc[u]
  BY DEF Mover
<1>2. QED
  BY <1>1 DEF NoneCached, EventKey

LEMMA CountStays ==
  ASSUME NEW k, CountOK(k), cache'[k] = cache[k], epoch' = epoch, Rows(k)' = Rows(k),
         Putting(k) => Putting(k)'
  PROVE  CountOK(k)'
BY DEF CountOK

\* A handler's step between lookup and append.
LEMMA MovePairs ==
  ASSUME Pairs, NEW w \in Worker, Mover(w), Busy(w), pc[w] # "put", event'[w] = event[w],
         UNCHANGED <<cache, answers, epoch, ledger>>, NoneCached(w)'
  PROVE  Pairs'
<1>1. Alone'
  BY AloneStays DEF Pairs
<1>2. \A u \in Worker : NoneCached(u)'
  BY NoneCachedStays DEF Pairs
<1>3. ASSUME NEW k \in Key PROVE CountOK(k)'
  <2>1. Putting(k) => Putting(k)'
    BY DEF Putting, EventKey, Mover
  <2>2. QED
    BY <2>1, CountStays DEF Pairs, Rows
<1>4. \A j \in DOMAIN answers : CachedAt(j)'
  BY DEF Pairs, CachedAt, CachedAnswer, GateAnswer, GateKey
<1>5. \A i, j \in DOMAIN answers' : Same(answers[i], answers[j])'
  BY DEF Pairs, Same, GateAnswer
<1>6. QED
  BY <1>1, <1>2, <1>3, <1>4, <1>5 DEF Pairs

\* A handler answers: what it answers to the second event of a pair is what was
\* answered to the first one.
LEMMA RespondPairs ==
  ASSUME Audit, Pairs, NEW w \in Worker, Busy(w), NEW v \in Verdicts \cup {"continue", None}, NEW r \in Nat,
         Respond(w, v, r), UNCHANGED <<epoch, ledger>>,
         \A u \in Worker : u # w => NoneCached(u)',
         \A k \in Key : CountOK(k)',
         \A j \in DOMAIN answers : CachedAnswer(answers[j]) => CachedAt(j)',
         NEW a, a = [name |-> event[w].name, call |-> event[w].call, verdict |-> v, row |-> r,
                     epoch |-> epoch[Slot(w)]],
         CachedAnswer(a)',
         \A j \in DOMAIN answers : Same(answers[j], a)
  PROVE  Pairs'
<1>1. PICK n : n = Len(answers) + 1
  OBVIOUS
<1>2. /\ a \in AnswerOf /\ answers' \in Seq(AnswerOf)
      /\ Len(answers') = n /\ answers'[n] = a
      /\ \A j \in DOMAIN answers : j \in DOMAIN answers' /\ answers'[j] = answers[j]
      /\ Mover(w) /\ pc'[w] = "idle"
  BY <1>1, Responds DEF Audit
<1>3. DOMAIN answers' = DOMAIN answers \cup {n}
  BY <1>1, <1>2 DEF Audit, TypeOK
<1>4. Alone'
  BY <1>2, AloneStays DEF Pairs
<1>5. \A u \in Worker : NoneCached(u)'
  BY <1>2 DEF NoneCached
<1>6. \A j \in DOMAIN answers' : CachedAt(j)'
  BY <1>2, <1>3, CachedAtIs DEF Pairs, CachedAt
<1>7. PICK b : b = answers'
  OBVIOUS
<1>8. \A i, j \in DOMAIN b : Same(b[i], b[j])
  <2>1. \A i, j \in DOMAIN answers : Same(answers[i], answers[j])
    BY DEF Pairs
  <2>2. \A j \in DOMAIN answers : Same(a, answers[j])
    BY DEF Same
  <2>3. Same(a, a)
    BY DEF Same
  <2>4. QED
    BY <1>2, <1>3, <1>7, <2>1, <2>2, <2>3
<1>9. \A i, j \in DOMAIN answers' : Same(answers[i], answers[j])'
  BY <1>7, <1>8 DEF Same, GateAnswer
<1>10. QED
  BY <1>4, <1>5, <1>6, <1>9 DEF Pairs

\* An answer of the cache, or one that no pair is about.
LEMMA HitPairs ==
  ASSUME Audit, Pairs, NEW w \in Worker, Busy(w), NEW v \in Verdicts \cup {"continue", None}, NEW r \in Nat,
         Respond(w, v, r), UNCHANGED <<cache, epoch, ledger>>, pc[w] # "put",
         event[w].name = "pre" /\ event[w].call \notin Anonymous /\ v # None =>
           cache[Slot(w)] # None /\ cache[Slot(w)].verdict = v /\ cache[Slot(w)].row = r
  PROVE  Pairs'
<1>1. PICK a : a = [name |-> event[w].name, call |-> event[w].call, verdict |-> v, row |-> r,
                    epoch |-> epoch[Slot(w)]]
  OBVIOUS
<1>2. a.name = "pre" => GateKey(a) = Slot(w) /\ a.epoch = epoch[GateKey(a)]
  BY <1>1, SlotFacts DEF Audit, GateKey, Kinds
<1>3. CachedAnswer(a)
  BY <1>1, <1>2 DEF CachedAnswer, GateAnswer
<1>4. CachedAnswer(a)'
  BY <1>3 DEF CachedAnswer, GateAnswer, GateKey
<1>5. Mover(w) /\ pc'[w] = "idle"
  BY <1>1, Responds DEF Audit
<1>6. ASSUME NEW j \in DOMAIN answers PROVE Same(answers[j], a) /\ CachedAt(j)'
  <2>1. PICK b : b = answers[j]
    OBVIOUS
  <2>2. CachedAnswer(b)
    BY <2>1 DEF Pairs, CachedAt
  <2>3. Same(b, a)
    <3>1. SUFFICES ASSUME GateAnswer(a), GateAnswer(b), b.call = a.call,
                          a.call \notin Anonymous, b.epoch = a.epoch
                   PROVE  b.verdict = a.verdict /\ b.row = a.row
      BY DEF Same
    <3>2. GateKey(b) = GateKey(a) /\ a.epoch = epoch[GateKey(a)]
      BY <1>2, <3>1 DEF GateKey, GateAnswer
    <3>3. QED
      BY <1>3, <2>2, <3>1, <3>2 DEF CachedAnswer
  <2>4. CachedAnswer(b)'
    BY <2>2 DEF CachedAnswer, GateAnswer, GateKey
  <2>5. answers'[j] = b
    BY <1>1, <2>1, Responds DEF Audit
  <2>6. QED
    BY <2>1, <2>3, <2>4, <2>5, CachedAtIs
<1>7. \A u \in Worker : u # w => NoneCached(u)'
  BY <1>5, NoneCachedStays DEF Pairs
<1>8. ASSUME NEW k \in Key PROVE CountOK(k)'
  <2>1. Putting(k) => Putting(k)'
    BY <1>5 DEF Putting, EventKey, Mover
  <2>2. QED
    BY <2>1, CountStays DEF Pairs, Rows
<1>9. QED
  BY <1>1, <1>4, <1>6, <1>7, <1>8, RespondPairs

-----------------------------------------------------------------------------
LEMMA ReceivePairs ==
  ASSUME ~Overlap, Audit, Pairs, NEW w \in Worker, NEW e \in Events, Receive(w, e)
  PROVE  Pairs'
<1>1. /\ pc[w] = "idle" /\ event' = [event EXCEPT ![w] = e]
      /\ pc' = [pc EXCEPT ![w] = IF e.name \in Kinds THEN "lookup" ELSE "session"]
      /\ UNCHANGED <<cache, ledger, answers, epoch>>
      /\ UNCHANGED <<sess, verdict, row>>
      /\ \A v \in Worker : Busy(v) /\ event[v].call = e.call => event[v].name # e.name
  BY DEF Receive, Goto
<1>2. Mover(w) /\ event'[w] = e /\ pc'[w] = IF e.name \in Kinds THEN "lookup" ELSE "session"
  BY <1>1 DEF Mover, Audit, TypeOK
<1>3. Alone'
  BY <1>1, <1>2 DEF Alone, Mover, Pairs, Busy
<1>4. \A u \in Worker : NoneCached(u)'
  <2>1. NoneCached(w)'
    BY <1>2 DEF NoneCached
  <2>2. QED
    BY <1>1, <1>2, <2>1, NoneCachedStays DEF Pairs
<1>5. ASSUME NEW k \in Key PROVE CountOK(k)'
  <2>1. Putting(k) => Putting(k)'
    BY <1>1, <1>2 DEF Putting, EventKey, Mover
  <2>2. QED
    BY <1>1, <2>1, CountStays DEF Pairs, Rows
<1>6. \A j \in DOMAIN answers : CachedAt(j)'
  BY <1>1 DEF Pairs, CachedAt, CachedAnswer, GateAnswer, GateKey
<1>7. \A i, j \in DOMAIN answers' : Same(answers[i], answers[j])'
  BY <1>1 DEF Pairs, Same, GateAnswer
<1>8. QED
  BY <1>1, <1>3, <1>4, <1>5, <1>6, <1>7 DEF Pairs

LEMMA LookupPairs ==
  ASSUME Audit, Pairs, NEW w \in Worker, Lookup(w)
  PROVE  Pairs'
<1>1. /\ pc[w] = "lookup" /\ Busy(w) /\ event[w].name \in Kinds /\ Slot(w) \in Key
      /\ Slot(w) = EventKey(w) /\ UNCHANGED <<cache, ledger, epoch>>
  BY SlotFacts DEF Lookup, Audit, HandlerOK, Busy, EventKey
<1>2. CASE event[w].call \notin Anonymous /\ cache[Slot(w)] # None
  <2>1. PICK v, r : v = cache[Slot(w)].verdict /\ r = cache[Slot(w)].row
    OBVIOUS
  <2>2. Respond(w, v, r)
    BY <1>2, <2>1, Zenon DEF Lookup
  <2>3. v \in Verdicts \cup {"continue"} /\ r \in Nat
    BY <1>1, <1>2, <2>1 DEF Audit, TypeOK, Cached
  <2>4. QED
    BY <1>1, <1>2, <2>1, <2>2, <2>3, HitPairs
<1>3. CASE ~(event[w].call \notin Anonymous /\ cache[Slot(w)] # None)
  <2>1. pc' = [pc EXCEPT ![w] = "session"] /\ UNCHANGED <<event, sess, verdict, row, answers>>
    BY <1>3, Zenon DEF Lookup, Goto
  <2>2. Mover(w)
    BY <1>1, <2>1 DEF Mover, Audit, TypeOK
  <2>3. NoneCached(w)'
    BY <1>1, <1>3, <2>1 DEF NoneCached, EventKey
  <2>4. QED
    BY <1>1, <2>1, <2>2, <2>3, MovePairs
<1>4. QED
  BY <1>2, <1>3

LEMMA SessionPairs ==
  ASSUME Audit, Pairs, NEW w \in Worker, FindSession(w) \/ CreateSession(w)
  PROVE  Pairs'
<1>1. /\ pc[w] \in {"session", "create"} /\ Busy(w)
      /\ UNCHANGED <<cache, ledger, event, verdict, row, answers, epoch>>
      /\ \A u \in Worker : u # w => sess'[u] = sess[u]
      /\ \E s : pc' = [pc EXCEPT ![w] = s]
  BY DEF FindSession, CreateSession, Goto, Busy, Audit, TypeOK
<1>2. Mover(w)
  BY <1>1 DEF Mover, Audit, TypeOK
<1>3. NoneCached(w)'
  BY <1>1 DEF NoneCached, Pairs, EventKey
<1>4. QED
  BY <1>1, <1>2, <1>3, MovePairs

LEMMA EvaluatePairs ==
  ASSUME Audit, Pairs, NEW w \in Worker, Evaluate(w)
  PROVE  Pairs'
<1>1. /\ pc[w] = "evaluate" /\ Busy(w) /\ session \in Verdicts /\ sess[w] = session
      /\ UNCHANGED <<cache, ledger, epoch>>
  BY DEF Evaluate, Busy, Audit, HandlerOK
<1>2. CASE event[w].name = "pre"
  <2>1. /\ pc' = [pc EXCEPT ![w] = "append"] /\ UNCHANGED <<event, sess, row, answers>>
        /\ \A u \in Worker : u # w => verdict'[u] = verdict[u]
    BY <1>2 DEF Evaluate, Goto, Audit, TypeOK
  <2>2. Mover(w)
    BY <2>1 DEF Mover, Audit, TypeOK
  <2>3. NoneCached(w)'
    BY <1>1, <2>1 DEF NoneCached, Pairs, EventKey
  <2>4. QED
    BY <1>1, <2>1, <2>2, <2>3, MovePairs
<1>3. CASE event[w].name # "pre"
  <2>1. PICK v : v = UnderMode(sess[w])
    OBVIOUS
  <2>2. v \in Verdicts
    BY <1>1, <2>1 DEF UnderMode, Verdicts
  <2>3. Respond(w, v, 0)
    BY <1>3, <2>1, Zenon DEF Evaluate
  <2>4. QED
    BY <1>1, <1>3, <2>2, <2>3, HitPairs
<1>4. QED
  BY <1>2, <1>3

\* The one entry of a call: nothing is cached for it, and nobody else is about to.
LEMMA AppendEntryPairs ==
  ASSUME Audit, Pairs, NEW w \in Worker, AppendEntry(w)
  PROVE  Pairs'
<1>1. PICK n, x : n = Len(ledger) + 1 /\ x = Entry(w)
  OBVIOUS
<1>2. /\ pc[w] = "append" /\ Busy(w) /\ ledger' = Append(ledger, x)
      /\ pc' = [pc EXCEPT ![w] = "put"] /\ UNCHANGED <<cache, event, sess, verdict, answers, epoch>>
      /\ row' = [row EXCEPT ![w] = n]
  BY <1>1 DEF AppendEntry, Goto, Busy
<1>3. Mover(w) /\ pc'[w] = "put" /\ event'[w] = event[w]
  BY <1>2 DEF Mover, Audit, TypeOK
<1>4. x.kind = event[w].name /\ x.call = event[w].call
  BY <1>1 DEF Entry
<1>5. /\ n \in Nat /\ DOMAIN ledger' = DOMAIN ledger \cup {n} /\ n \notin DOMAIN ledger
      /\ ledger'[n] = x /\ \A i \in DOMAIN ledger : ledger'[i] = ledger[i]
  BY <1>1, <1>2 DEF Audit, TypeOK
<1>6. Alone'
  BY <1>2, <1>3, AloneStays DEF Pairs
<1>7. \A u \in Worker : NoneCached(u)'
  <2>1. NoneCached(w)'
    BY <1>2, <1>3 DEF NoneCached, Pairs, EventKey
  <2>2. QED
    BY <1>2, <1>3, <2>1, NoneCachedStays DEF Pairs
<1>8. ASSUME NEW k \in Key PROVE CountOK(k)'
  <2>1. CASE k = EventKey(w)
    <3>1. SUFFICES ASSUME k[2] \notin Anonymous
                   PROVE  Cardinality(Rows(k)') <= 1 + epoch[k] /\ Putting(k)'
      BY <1>2 DEF CountOK
    <3>2. Putting(k)'
      BY <1>2, <1>3, <2>1 DEF Putting, EventKey
    <3>3. k = <<event[w].name, event[w].call>> /\ event[w].name \in Kinds
      BY <2>1 DEF EventKey, Key
    <3>4. cache[k] = None
      <4>1. NoneCached(w) /\ event[w].call \notin Anonymous
        BY <3>1, <3>3 DEF Pairs
      <4>2. cache[EventKey(w)] = None
        BY <1>2, <3>3, <4>1 DEF NoneCached
      <4>3. QED
        BY <2>1, <4>2
    <3>5. ~Putting(k)
      <4>1. SUFFICES ASSUME NEW u \in Worker, pc[u] = "put", EventKey(u) = k PROVE FALSE
        BY DEF Putting
      <4>2. u # w /\ Busy(u) /\ event[u].name = event[w].name /\ event[u].call = event[w].call
        BY <1>2, <3>3, <4>1 DEF EventKey, Busy
      <4>3. QED
        BY <1>2, <4>2 DEF Pairs, Alone
    <3>6. Cardinality(Rows(k)) <= epoch[k] /\ epoch[k] \in Nat
      BY <3>1, <3>4, <3>5 DEF Pairs, CountOK, Audit, TypeOK
    <3>7. Rows(k)' = Rows(k) \cup {n} /\ n \notin Rows(k)
      BY <1>4, <1>5, <3>3 DEF Rows
    <3>8. Cardinality(Rows(k)') = Cardinality(Rows(k)) + 1
      BY <3>7, RowsFinite, FS_AddElement
    <3>9. QED
      BY <3>2, <3>6, <3>8, RowsFinite
  <2>2. CASE k # EventKey(w)
    <3>1. \E a, b : k = <<a, b>>
      BY DEF Key
    <3>2. ~(x.kind = k[1] /\ x.call = k[2])
      BY <1>4, <2>2, <3>1 DEF EventKey
    <3>3. Rows(k)' = Rows(k)
      BY <1>5, <3>2 DEF Rows
    <3>4. Putting(k) => Putting(k)'
      BY <1>2, <1>3 DEF Putting, EventKey, Mover
    <3>5. QED
      BY <1>2, <3>3, <3>4, CountStays DEF Pairs
  <2>3. QED
    BY <2>1, <2>2
<1>9. \A j \in DOMAIN answers : CachedAt(j)'
  BY <1>2 DEF Pairs, CachedAt, CachedAnswer, GateAnswer, GateKey
<1>10. \A i, j \in DOMAIN answers' : Same(answers[i], answers[j])'
  BY <1>2 DEF Pairs, Same, GateAnswer
<1>11. QED
  BY <1>2, <1>6, <1>7, <1>8, <1>9, <1>10 DEF Pairs

LEMMA AppendFailsPairs ==
  ASSUME Audit, Pairs, NEW w \in Worker, AppendFails(w)
  PROVE  Pairs'
<1>1. /\ Busy(w) /\ Respond(w, None, 0) /\ UNCHANGED <<cache, ledger, epoch>> /\ pc[w] = "append"
  BY DEF AppendFails, Fail, Busy
<1>2. QED
  BY <1>1, HitPairs

\* The first answer of its epoch.
LEMMA PutPairs ==
  ASSUME Audit, Pairs, NEW w \in Worker, Put(w)
  PROVE  Pairs'
<1>1. PICK v, r, k, c : /\ v = Answered(w) /\ r = row[w] /\ k = EventKey(w)
                        /\ c = [verdict |-> v, row |-> r]
  OBVIOUS
<1>2. /\ pc[w] = "put" /\ Busy(w) /\ event[w].name # "shell" /\ r \in Nat
      /\ v \in Verdicts \cup {"continue"}
  BY <1>1 DEF Put, Busy, Audit, HandlerOK, TypeOK, Answered
<1>3. c \in Cached /\ c # None /\ c.verdict = v /\ c.row = r
  BY <1>1, <1>2, CursorAssumption DEF Cached
<1>4. Respond(w, v, r) /\ UNCHANGED <<ledger, epoch>>
  BY <1>1 DEF Put
<1>5. event[w].name \in Kinds => k \in Key /\ Slot(w) = k
  BY <1>1, <1>2, SlotFacts, EventFacts DEF EventKey, Audit
<1>6. event[w].name = "start" => event[w].call \in Anonymous /\ k \notin Key
  BY <1>1, <1>2, SlotFacts, EventFacts DEF EventKey, Audit, Key, Kinds
<1>7. event[w].name \in Kinds \cup {"start"}
  BY <1>2, SlotFacts, EventFacts DEF Audit, EventName
<1>8. cache' = IF event[w].call \in Anonymous \/ event[w].name = "start" THEN cache
               ELSE [cache EXCEPT ![Slot(w)] = c]
  BY <1>1, Zenon DEF Put
<1>9. /\ event[w].call \in Anonymous => cache' = cache
      /\ event[w].call \notin Anonymous =>
           event[w].name \in Kinds /\ cache[k] = None /\ cache'[k] = c
      /\ \A j \in Key : j # k => cache'[j] = cache[j]
  <2>1. CASE event[w].call \in Anonymous
    BY <1>8, <2>1
  <2>2. CASE event[w].call \notin Anonymous
    <3>1. event[w].name \in Kinds /\ event[w].name # "start"
      BY <1>6, <1>7, <2>2
    <3>2. cache' = [cache EXCEPT ![k] = c]
      BY <1>5, <1>8, <2>2, <3>1
    <3>3. cache[k] = None
      <4>1. NoneCached(w)
        BY DEF Pairs
      <4>2. cache[EventKey(w)] = None
        BY <1>2, <2>2, <3>1, <4>1 DEF NoneCached
      <4>3. QED
        BY <1>1, <4>2
    <3>4. QED
      BY <1>5, <2>2, <3>1, <3>2, <3>3 DEF Audit, TypeOK
  <2>3. QED
    BY <2>1, <2>2
<1>10. PICK a : a = [name |-> event[w].name, call |-> event[w].call, verdict |-> v, row |-> r,
                     epoch |-> epoch[Slot(w)]]
  OBVIOUS
<1>11. /\ answers'[Len(answers) + 1] = a /\ \A j \in DOMAIN answers : answers'[j] = answers[j]
       /\ Mover(w) /\ pc'[w] = "idle"
  BY <1>2, <1>4, <1>10, Responds DEF Audit
<1>12. a.name = event[w].name /\ a.call = event[w].call /\ a.verdict = v /\ a.row = r
  BY <1>10
<1>13. GateAnswer(a) => GateKey(a) = k /\ a.epoch = epoch[k]
  BY <1>1, <1>5, <1>10, <1>12 DEF GateAnswer, GateKey, EventKey, Kinds
<1>14. CachedAnswer(a)'
  BY <1>3, <1>9, <1>12, <1>13 DEF CachedAnswer, GateAnswer, GateKey
<1>15. ASSUME NEW j \in DOMAIN answers PROVE Same(answers[j], a) /\ CachedAt(j)'
  <2>1. PICK b : b = answers[j]
    OBVIOUS
  <2>2. CachedAnswer(b) /\ b \in AnswerOf /\ answers'[j] = b
    BY <1>11, <2>1 DEF Pairs, CachedAt, Audit, TypeOK
  <2>3. Same(b, a)
    <3>1. SUFFICES ASSUME GateAnswer(a), GateAnswer(b), b.call = a.call,
                          a.call \notin Anonymous, b.epoch = a.epoch
                   PROVE  FALSE
      BY DEF Same
    <3>2. GateKey(b) = k /\ b.epoch = epoch[k]
      BY <1>13, <3>1 DEF GateKey
    <3>3. QED
      BY <1>9, <1>12, <2>2, <3>1, <3>2 DEF CachedAnswer
  <2>4. CachedAnswer(b)'
    <3>1. SUFFICES ASSUME GateAnswer(b), b.call \notin Anonymous, b.epoch = epoch[GateKey(b)]
                   PROVE  /\ cache'[GateKey(b)] # None
                          /\ cache'[GateKey(b)].verdict = b.verdict /\ cache'[GateKey(b)].row = b.row
      BY <1>4 DEF CachedAnswer, GateAnswer, GateKey
    <3>2. GateKey(b) \in Key
      BY <2>2 DEF AnswerOf, GateKey, Key, Kinds
    <3>3. cache[GateKey(b)] # None
      BY <2>2, <3>1 DEF CachedAnswer
    <3>4. cache'[GateKey(b)] = cache[GateKey(b)]
      BY <1>9, <3>2, <3>3
    <3>5. QED
      BY <2>2, <3>1, <3>4 DEF CachedAnswer
  <2>5. QED
    BY <2>1, <2>2, <2>3, <2>4, CachedAtIs
<1>16. ASSUME NEW u \in Worker, u # w PROVE NoneCached(u)'
  <2>1. SUFFICES ASSUME pc[u] \notin {"idle", "lookup"}, event[u].name \in Kinds,
                        event[u].call \notin Anonymous
                 PROVE  cache'[EventKey(u)] = None
    BY <1>11, <1>16 DEF NoneCached, Mover, EventKey
  <2>2. cache[EventKey(u)] = None
    BY <2>1 DEF Pairs, NoneCached
  <2>3. EventKey(u) # k
    BY <1>1, <1>2, <1>16, <2>1 DEF Pairs, Alone, Busy, EventKey
  <2>4. EventKey(u) \in Key
    BY <2>1, SlotFacts DEF Busy, EventKey, Audit
  <2>5. QED
    BY <1>9, <2>2, <2>3, <2>4
<1>17. ASSUME NEW j \in Key PROVE CountOK(j)'
  <2>1. Rows(j)' = Rows(j)
    BY <1>4 DEF Rows
  <2>2. CASE j = k
    <3>1. event[w].call = k[2]
      BY <1>1 DEF EventKey
    <3>2. k[2] \notin Anonymous => cache'[k] # None
      BY <1>3, <1>9, <3>1
    <3>3. QED
      BY <1>4, <2>1, <2>2, <3>2 DEF CountOK, Pairs
  <2>3. CASE j # k
    <3>1. Putting(j) => Putting(j)'
      BY <1>1, <1>11, <2>3 DEF Putting, EventKey, Mover
    <3>2. QED
      BY <1>4, <1>9, <2>1, <2>3, <3>1, CountStays DEF Pairs
  <2>4. QED
    BY <2>2, <2>3
<1>18. QED
  BY <1>2, <1>4, <1>10, <1>14, <1>15, <1>16, <1>17, RespondPairs

-----------------------------------------------------------------------------
LEMMA StillPairs ==
  ASSUME Pairs, UNCHANGED <<cache, ledger, handlers, answers, epoch>>
  PROVE  Pairs'
BY DEF Pairs, Alone, Busy, NoneCached, EventKey, CountOK, Rows, Putting, CachedAt, CachedAnswer,
       GateAnswer, GateKey, Same, handlers

\* An answer of an epoch that is over says nothing about the cache.
LEMMA ForgottenAnswer ==
  ASSUME Audit, NEW j \in DOMAIN answers, CachedAt(j), answers' = answers,
         \A k \in Key : \/ epoch'[k] = epoch[k] /\ cache'[k] = cache[k]
                        \/ epoch'[k] = epoch[k] + 1
  PROVE  CachedAt(j)'
<1>1. PICK b : b = answers[j]
  OBVIOUS
<1>2. b \in AnswerOf /\ AnswerOK(b) /\ CachedAnswer(b)
  BY <1>1 DEF Audit, TypeOK, AnswerAt, CachedAt
<1>3. GateKey(b) \in Key /\ epoch[GateKey(b)] \in Nat /\ b.epoch \in Nat
  BY <1>2 DEF Audit, TypeOK, AnswerOf, GateKey, Key, Kinds
<1>4. CachedAnswer(b)'
  BY <1>2, <1>3 DEF CachedAnswer, AnswerOK, GateAnswer, GateKey
<1>5. QED
  BY <1>1, <1>4, CachedAtIs

LEMMA ExpirePairs ==
  ASSUME Audit, Pairs, NEW k \in Key, Expire(k)
  PROVE  Pairs'
<1>1. /\ cache[k] # None /\ cache' = [cache EXCEPT ![k] = None] /\ epoch' = [epoch EXCEPT ![k] = @ + 1]
      /\ UNCHANGED <<ledger, handlers, answers>>
  BY DEF Expire
<1>2. /\ \A j \in Key : j # k => epoch'[j] = epoch[j] /\ cache'[j] = cache[j]
      /\ epoch'[k] = epoch[k] + 1 /\ cache'[k] = None /\ epoch[k] \in Nat
  BY <1>1 DEF Audit, TypeOK
<1>3. Alone'
  BY <1>1 DEF Pairs, Alone, Busy, handlers
<1>4. ASSUME NEW w \in Worker PROVE NoneCached(w)'
  <2>1. SUFFICES ASSUME pc[w] \notin {"idle", "lookup"}, event[w].name \in Kinds,
                        event[w].call \notin Anonymous
                 PROVE  cache'[EventKey(w)] = None
    BY <1>1 DEF NoneCached, EventKey, handlers
  <2>2. cache[EventKey(w)] = None /\ EventKey(w) \in Key
    BY <2>1, SlotFacts DEF Pairs, NoneCached, Busy, EventKey, Audit
  <2>3. QED
    BY <1>2, <2>2
<1>5. ASSUME NEW j \in Key PROVE CountOK(j)'
  <2>1. /\ Rows(j)' = Rows(j)
        /\ Putting(j)' <=> Putting(j)
    BY <1>1 DEF Rows, Putting, EventKey, handlers
  <2>2. CASE j = k
    BY <1>2, <2>1, <2>2, RowsFinite DEF Pairs, CountOK
  <2>3. CASE j # k
    BY <1>2, <2>1, <2>3 DEF Pairs, CountOK
  <2>4. QED
    BY <2>2, <2>3
<1>6. \A j \in DOMAIN answers : CachedAt(j)'
  BY <1>1, <1>2, ForgottenAnswer DEF Pairs
<1>7. \A i, j \in DOMAIN answers' : Same(answers[i], answers[j])'
  BY <1>1 DEF Pairs, Same, GateAnswer
<1>8. QED
  BY <1>1, <1>3, <1>4, <1>5, <1>6, <1>7 DEF Pairs

LEMMA RestartPairs ==
  ASSUME Audit, Pairs, Restart
  PROVE  Pairs'
<1>1. /\ cache' = [j \in Key |-> None] /\ epoch' = [j \in Key |-> epoch[j] + 1]
      /\ pc' = [w \in Worker |-> "idle"] /\ UNCHANGED <<ledger, answers>>
  BY DEF Restart
<1>2. \A w \in Worker : pc'[w] = "idle"
  BY <1>1
<1>3. Alone' /\ \A w \in Worker : NoneCached(w)'
  BY <1>2 DEF Alone, Busy, NoneCached
<1>4. ASSUME NEW j \in Key PROVE CountOK(j)'
  <2>1. Rows(j)' = Rows(j) /\ epoch'[j] = epoch[j] + 1 /\ epoch[j] \in Nat
    BY <1>1 DEF Rows, Audit, TypeOK
  <2>2. QED
    BY <2>1, RowsFinite DEF Pairs, CountOK
<1>5. \A j \in DOMAIN answers : CachedAt(j)'
  BY <1>1, ForgottenAnswer DEF Pairs
<1>6. \A i, j \in DOMAIN answers' : Same(answers[i], answers[j])'
  BY <1>1 DEF Pairs, Same, GateAnswer
<1>7. QED
  BY <1>1, <1>3, <1>4, <1>5, <1>6 DEF Pairs

-----------------------------------------------------------------------------
LEMMA PairsInvariant ==
  ASSUME ~Overlap
  PROVE  Spec => []Pairs
<1>1. Init => Pairs
  <2>1. SUFFICES ASSUME Init PROVE Pairs
    OBVIOUS
  <2>2. Alone /\ \A w \in Worker : NoneCached(w)
    BY <2>1 DEF Init, Alone, Busy, NoneCached
  <2>3. ASSUME NEW k \in Key PROVE CountOK(k)
    <3>1. Rows(k) = {} /\ epoch[k] = 0
      BY <2>1 DEF Init, Rows
    <3>2. QED
      BY <3>1, FS_EmptySet DEF CountOK
  <2>4. DOMAIN answers = {}
    BY <2>1 DEF Init
  <2>5. QED
    BY <2>2, <2>3, <2>4 DEF Pairs
<1>2. Audit /\ Pairs /\ [Next]_vars => Pairs'
  <2>1. ASSUME Audit, Pairs, NEW w \in Worker, Handle(w) PROVE Pairs'
    BY <2>1, LookupPairs, SessionPairs, EvaluatePairs, AppendEntryPairs, AppendFailsPairs, PutPairs,
       Zenon DEF Handle
  <2>2. ASSUME Pairs, EditPolicy \/ SetMode \/ UNCHANGED vars PROVE Pairs'
    BY <2>2, StillPairs DEF EditPolicy, SetMode, vars
  <2>3. QED
    BY <2>1, <2>2, ReceivePairs, RestartPairs, ExpirePairs, Zenon DEF Next
<1>3. QED
  BY <1>1, <1>2, AuditInvariant, PTL DEF Spec

\* If Cursor waits for the answer to one event of a pair before it fires the
\* other, a call is one: one entry, and one more for each time the cache forgot
\* the call, and one verdict for both gate events, although the policy was edited
\* or the mode changed between them (hooks_cursor.go, the file's comment).
THEOREM PairsAreAlwaysOneCall ==
  ASSUME ~Overlap
  PROVE  Spec => []PairIsOneCall
<1>1. Pairs => PairIsOneCall
  BY DEF Pairs, CountOK, Same, PairIsOneCall, OneEntryPerCall, PairAgrees
<1>2. QED
  BY <1>1, PairsInvariant, PTL
=============================================================================
