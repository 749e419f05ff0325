---------------------------- MODULE CursorHooks -----------------------------
(***************************************************************************)
(* The hooks of Cursor (control-plane/internal/api/hooks_cursor.go).       *)
(* Cursor fires two gate events for one call of an MCP tool, preToolUse    *)
(* and beforeMCPExecution, and two outcome events, postToolUse and         *)
(* afterMCPExecution; the two of a pair have one handler.  A process-local *)
(* cache keyed on the tool_use_id is to give them one verdict and one      *)
(* ledger entry.                                                           *)
(*                                                                         *)
(* One conversation.  Each handler is a sequence of steps, one per access  *)
(* to the cache, the session store, the live policy, the daemon mode or    *)
(* the ledger.  A policy is the verdict it gives to the call; GateFlow has *)
(* the results that are neither a plain allow nor a plain deny.            *)
(***************************************************************************)
EXTENDS Naturals, Sequences, FiniteSets, SequencesExt

CONSTANTS
  Call,         \* tool calls
  Anonymous,    \* those whose events carry no tool_use_id
  Worker,       \* events being handled
  Overlap,      \* TRUE: the two events of a pair may be handled at once
  MayFail,      \* TRUE: appends to the ledger may fail
  MaxEvents,    \* bound on the events
  MaxDisturb,   \* bound on policy edits, mode changes, expiries and restarts
  None

Verdicts == {"allow", "deny"}
Kinds == {"pre", "post"}

\* A response in the cache; "continue" answers an outcome event.
Cached == [verdict : Verdicts \cup {"continue"}, row : Nat]

ASSUME CursorAssumption ==
  /\ Anonymous \subseteq Call
  /\ Overlap \in BOOLEAN /\ MayFail \in BOOLEAN
  /\ MaxEvents \in Nat /\ MaxDisturb \in Nat
  /\ None \notin Verdicts \cup {"continue"} /\ None \notin Cached

\* "pre" and "post" are an event of either pair, "shell" is beforeShellExecution,
\* which belongs to a call but has no id for it, "start" is sessionStart.
Events ==
  [name : Kinds \cup {"shell"}, call : Call] \cup [name : {"start"}, call : Anonymous]

VARIABLES
  cache,     \* cursorDedupe.entries: for a kind and a call, the cached response
  session,   \* the policy the conversation is pinned to, None before it exists
  live,      \* the live policy
  mode,      \* the effective daemon mode
  ledger,    \* the entries: [kind, call, verdict]
  pc,        \* per worker, the step it is at
  event,     \* per worker, the event it handles
  sess,      \* per worker, the session its handler has
  verdict,   \* per worker, what it answers and what the entry says
  row,       \* history: per worker, the entry behind its answer, 0 if none
  answers,   \* history: the answers, in order
  epoch,     \* history: how often the cache forgot a kind and a call
  disturbed  \* policy edits, mode changes, expiries and restarts so far

handlers == <<pc, event, sess, verdict, row>>
environment == <<live, mode, disturbed>>
vars == <<cache, session, ledger, handlers, answers, epoch, environment>>

Key == Kinds \X Call
NoVerdict == [answered |-> None, recorded |-> None]

Init ==
  /\ cache = [k \in Key |-> None]
  /\ session = None /\ live \in Verdicts /\ mode = "firewall"
  /\ ledger = <<>> /\ answers = <<>>
  /\ pc = [w \in Worker |-> "idle"]
  /\ event = [w \in Worker |-> None]
  /\ sess = [w \in Worker |-> None]
  /\ verdict = [w \in Worker |-> NoVerdict]
  /\ row = [w \in Worker |-> 0]
  /\ epoch = [k \in Key |-> 0]
  /\ disturbed = 0

Goto(w, step) == pc' = [pc EXCEPT ![w] = step]
Busy(w) == pc[w] # "idle"

Slot(w) == <<IF event[w].name \in {"pre", "shell"} THEN "pre" ELSE "post", event[w].call>>

\* The handler writes its response.
Respond(w, v, r) ==
  /\ answers' = Append(answers, [name |-> event[w].name, call |-> event[w].call,
                                 verdict |-> v, row |-> r, epoch |-> epoch[Slot(w)]])
  /\ Goto(w, "idle")
  /\ event' = [event EXCEPT ![w] = None]
  /\ sess' = [sess EXCEPT ![w] = None]
  /\ verdict' = [verdict EXCEPT ![w] = NoVerdict]
  /\ row' = [row EXCEPT ![w] = 0]

\* An error: Cursor gets no verdict.
Fail(w) == Respond(w, None, 0)

-----------------------------------------------------------------------------
\* An event arrives.  Outside the runs about overlap, Cursor waits for the answer
\* to one event of a pair before it fires the other.
Receive(w, e) ==
  /\ pc[w] = "idle"
  /\ Len(answers) + Cardinality({v \in Worker : Busy(v)}) < MaxEvents     \* bound
  /\ ~Overlap => \A v \in Worker : Busy(v) /\ event[v].call = e.call =>
                    event[v].name # e.name
  /\ event' = [event EXCEPT ![w] = e]
  /\ Goto(w, IF e.name \in Kinds THEN "lookup" ELSE "session")
  /\ UNCHANGED <<cache, session, ledger, sess, verdict, row, answers, epoch, environment>>

\* cursorDedupe.lookup: a hit is answered at once.
Lookup(w) ==
  /\ pc[w] = "lookup"
  /\ IF event[w].call \notin Anonymous /\ cache[Slot(w)] # None
     THEN Respond(w, cache[Slot(w)].verdict, cache[Slot(w)].row)
     ELSE Goto(w, "session") /\ UNCHANGED <<event, sess, verdict, row, answers>>
  /\ UNCHANGED <<cache, session, ledger, epoch, environment>>

AfterSession(w) ==
  IF event[w].name \in {"pre", "shell"} THEN "evaluate" ELSE "append"

\* ensureCursorSession: the stored session, or a new one under the live policy,
\* which is read as soon as GetSession has failed.
FindSession(w) ==
  /\ pc[w] = "session"
  /\ sess' = [sess EXCEPT ![w] = IF session = None THEN live ELSE session]
  /\ Goto(w, IF session = None THEN "create" ELSE AfterSession(w))
  /\ UNCHANGED <<cache, session, ledger, event, verdict, row, answers, epoch, environment>>

\* CreateSession; on ErrSessionExists the handler takes what is stored.  The
\* session.auto-create entry is in GateFlow.
CreateSession(w) ==
  /\ pc[w] = "create"
  /\ IF session = None
     THEN session' = sess[w] /\ UNCHANGED sess
     ELSE sess' = [sess EXCEPT ![w] = session] /\ UNCHANGED session
  /\ Goto(w, AfterSession(w))
  /\ UNCHANGED <<cache, ledger, event, verdict, row, answers, epoch, environment>>

UnderMode(policy) == IF mode = "monitor" THEN "allow" ELSE policy

\* A gate event goes on to its entry; the shell event only echoes the verdict.
Evaluate(w) ==
  /\ pc[w] = "evaluate"
  /\ IF event[w].name = "pre"
     THEN /\ verdict' = [verdict EXCEPT ![w] = [answered |-> UnderMode(sess[w]), recorded |-> sess[w]]]
          /\ Goto(w, "append")
          /\ UNCHANGED <<event, sess, row, answers>>
     ELSE Respond(w, UnderMode(sess[w]), 0)
  /\ UNCHANGED <<cache, session, ledger, epoch, environment>>

Entry(w) ==
  [kind |-> event[w].name,
   call |-> event[w].call,
   verdict |-> IF event[w].name = "pre" THEN verdict[w].recorded ELSE "complete"]

\* AppendLedger
AppendEntry(w) ==
  /\ pc[w] = "append"
  /\ ledger' = Append(ledger, Entry(w))
  /\ row' = [row EXCEPT ![w] = Len(ledger) + 1]
  /\ Goto(w, "put")
  /\ UNCHANGED <<cache, session, event, sess, verdict, answers, epoch, environment>>

\* Mutant: the response is cached before the append.
AppendFails_Cached(w) ==
  /\ MayFail
  /\ pc[w] = "append"
  /\ cache' = IF event[w].name = "start" THEN cache
              ELSE [cache EXCEPT ![Slot(w)] = [verdict |-> verdict[w].answered, row |-> row[w]]]
  /\ Fail(w)
  /\ UNCHANGED <<session, ledger, epoch, environment>>

AppendFails(w) ==
  /\ MayFail
  /\ pc[w] = "append"
  /\ Fail(w)
  /\ UNCHANGED <<cache, session, ledger, epoch, environment>>

Answered(w) == IF event[w].name = "pre" THEN verdict[w].answered ELSE "continue"

\* Mutant: only denials are cached.
Put_Denials(w) ==
  /\ pc[w] = "put"
  /\ cache' = IF event[w].call \in Anonymous \/ event[w].name = "start" \/ Answered(w) = "allow" THEN cache
              ELSE [cache EXCEPT ![Slot(w)] = [verdict |-> Answered(w), row |-> row[w]]]
  /\ Respond(w, Answered(w), row[w])
  /\ UNCHANGED <<session, ledger, epoch, environment>>

\* cursorDedupe.put, then the response.
Put(w) ==
  /\ pc[w] = "put"
  /\ cache' = IF event[w].call \in Anonymous \/ event[w].name = "start" THEN cache
              ELSE [cache EXCEPT ![Slot(w)] = [verdict |-> Answered(w), row |-> row[w]]]
  /\ Respond(w, Answered(w), row[w])
  /\ UNCHANGED <<session, ledger, epoch, environment>>

-----------------------------------------------------------------------------
\* What goes on around the handlers

Disturb == disturbed < MaxDisturb /\ disturbed' = disturbed + 1            \* bound

\* The policy is edited.  The session keeps the policy it was created under,
\* which stays available (PolicyRegistry).
EditPolicy ==
  /\ Disturb /\ live' \in Verdicts \ {live}
  /\ UNCHANGED <<cache, session, ledger, handlers, answers, epoch, mode>>

SetMode ==
  /\ Disturb /\ mode' \in {"firewall", "monitor"} \ {mode}
  /\ UNCHANGED <<cache, session, ledger, handlers, answers, epoch, live>>

\* Five minutes after put, lookup and sweepLocked drop the entry.
Expire(k) ==
  /\ Disturb /\ cache[k] # None
  /\ cache' = [cache EXCEPT ![k] = None]
  /\ epoch' = [epoch EXCEPT ![k] = @ + 1]
  /\ UNCHANGED <<session, ledger, handlers, answers, live, mode>>

\* The daemon dies with every event it was handling; sessions and cache are
\* in memory.
Restart ==
  /\ Disturb
  /\ cache' = [k \in Key |-> None] /\ session' = None
  /\ epoch' = [k \in Key |-> epoch[k] + 1]
  /\ pc' = [w \in Worker |-> "idle"]
  /\ event' = [w \in Worker |-> None] /\ sess' = [w \in Worker |-> None]
  /\ verdict' = [w \in Worker |-> NoVerdict] /\ row' = [w \in Worker |-> 0]
  /\ UNCHANGED <<ledger, answers, live, mode>>

Handle(w) ==
  \/ Lookup(w) \/ FindSession(w) \/ CreateSession(w)
  \/ Evaluate(w) \/ AppendEntry(w) \/ AppendFails(w) \/ Put(w)

Next ==
  \/ \E w \in Worker : Handle(w)
  \/ \E w \in Worker, e \in Events : Receive(w, e)
  \/ EditPolicy \/ SetMode \/ Restart
  \/ \E k \in Key : Expire(k)

Spec == Init /\ [][Next]_vars

-----------------------------------------------------------------------------
\* Properties

Rows(k) == {i \in DOMAIN ledger : ledger[i].kind = k[1] /\ ledger[i].call = k[2]}

\* The file comment: the first event of a pair appends to the ledger, the second
\* does not.  A call is recorded once, and once more only if the cache forgot it.
OneEntryPerCall ==
  \A k \in Key : k[2] \notin Anonymous => Cardinality(Rows(k)) <= 1 + epoch[k]

GateAnswer(a) == a.name = "pre" /\ a.verdict # None

\* Both gate events of a call get the same verdict from the same entry, although
\* the policy was edited or the mode was changed between them.
PairAgrees ==
  \A i, j \in DOMAIN answers :
    LET a == answers[i]
        b == answers[j]
    IN  /\ GateAnswer(a) /\ GateAnswer(b)
        /\ a.call = b.call /\ a.call \notin Anonymous /\ a.epoch = b.epoch
        => a.verdict = b.verdict /\ a.row = b.row

PairIsOneCall == OneEntryPerCall /\ PairAgrees

\* No event is answered on credit: behind an answer to a gate or outcome event,
\* cached ones included, is an entry of that call, and behind a denial one that
\* says so.  The shell event writes none: what it denies, an entry of the gate
\* event that came before it denies too.
AnswersAudited ==
  \A j \in DOMAIN answers :
    LET b == answers[j] IN
      IF b.name # "shell"
      THEN b.verdict = None \/ b.name = "start"
             \/ /\ b.row \in Rows(<<b.name, b.call>>)
                /\ b.verdict = "deny" => ledger[b.row].verdict = "deny"
      ELSE b.verdict = "deny" =>
             \A i \in 1 .. j - 1 :
               LET a == answers[i] IN
                 GateAnswer(a) /\ a.call = b.call /\ a.epoch = b.epoch => ledger[a.row].verdict = "deny"
=============================================================================
