--------------------------- MODULE PolicyRegistry ---------------------------
(***************************************************************************)
(* The live policy: policyRegistry (control-plane/internal/api/            *)
(* policy_registry.go), the edit endpoints on top of mutatePolicy          *)
(* (policy_crud.go), the false-positive repair (false_positive.go), the    *)
(* policy file behind them and the sessions pinned to a policy.            *)
(*                                                                         *)
(* An edit holds policyMu from the moment it reads the live policy to the  *)
(* swap; readers of the registry take only its own lock.  The daemon may   *)
(* die at any point and loads the file again.                              *)
(***************************************************************************)
EXTENDS PolicyEdits, Sequences, FiniteSets, SequencesExt

CONSTANTS
  Worker,        \* concurrent edit requests
  Session,       \* sessions pinned to a policy
  MaxPins,       \* maxPolicyPins (32)
  InitialPolicy, \* the policy file at the first start
  Kinds,         \* the kinds of edits that a run issues
  MaxSwaps,      \* bound on the swaps
  None           \* no worker, no request, no policy

ASSUME RegistryAssumption ==
  /\ None \notin Worker \cup Policy \cup Request
  /\ MaxPins \in Nat /\ MaxPins >= 2
  /\ MaxSwaps \in Nat
  /\ InitialPolicy \in Policy /\ Compiles(InitialPolicy)

VARIABLES
  pins,      \* r.pins: the policies that ByHash finds
  pinOrder,  \* r.pinOrder
  live,      \* r.live
  disk,      \* the policy file
  holder,    \* who holds policyMu
  pc,        \* per worker: "idle", "checked", "locked", "persisted", "ok", "error"
  request,   \* per worker, the edit it was asked for
  case,      \* per worker, the policy of its false-positive case bundle
  next,      \* per worker, the policy its edit computed
  base,      \* history: per worker, the policy its edit was computed from
  pinned,    \* per session, the policy it is bound to
  since,     \* history: per session, the swaps since it was bound
  swaps      \* number of swaps so far, for the bound

registry == <<pins, pinOrder, live>>
workers == <<holder, pc, request, case, next, base>>
sessions == <<pinned, since>>
vars == <<registry, disk, workers, sessions, swaps>>

Requests == {r \in Request : r.kind \in Kinds}

AllIdle == [w \in Worker |-> "idle"]
NothingAsked == [w \in Worker |-> None]

\* loadPolicy and bootstrapPolicy.
Init ==
  /\ disk = InitialPolicy
  /\ pins = {disk} /\ pinOrder = <<disk>> /\ live = disk
  /\ holder = None /\ pc = AllIdle
  /\ request = NothingAsked /\ case = NothingAsked
  /\ next = NothingAsked /\ base = NothingAsked
  /\ pinned = [s \in Session |-> None]
  /\ since = [s \in Session |-> 0]
  /\ swaps = 0

-----------------------------------------------------------------------------
\* policyRegistry

\* The eviction loop.  The order exceeds the cap by one at most, so that the
\* loop drops one pin: the oldest, or the next one if the oldest is live,
\* which then moves to the back.
Evicted(order) ==
  IF Len(order) <= MaxPins THEN order
  ELSE IF Head(order) # live THEN Tail(order)
  ELSE Append(Tail(Tail(order)), live)

\* Mutant: the loop does not look at what it evicts.
Swap_EvictsLive(p) ==
  LET order == IF p \in pins THEN pinOrder ELSE Append(pinOrder, p)
      kept == IF Len(order) <= MaxPins THEN order ELSE Tail(order)
  IN  /\ pinOrder' = kept
      /\ pins' = (pins \cup {p}) \ (ToSet(order) \ ToSet(kept))
      /\ live' = p
      /\ since' = [s \in Session |-> since[s] + 1]
      /\ swaps' = swaps + 1
      /\ UNCHANGED pinned

\* Swap: pin, evict with the old live policy protected, promote.
Swap(p) ==
  LET order == IF p \in pins THEN pinOrder ELSE Append(pinOrder, p)
  IN  /\ pinOrder' = Evicted(order)
      /\ pins' = (pins \cup {p}) \ (ToSet(order) \ ToSet(Evicted(order)))
      /\ live' = p
      /\ since' = [s \in Session |-> since[s] + 1]
      /\ swaps' = swaps + 1
      /\ UNCHANGED pinned

ByHash(p) == IF p \in pins THEN p ELSE live

\* A session starts, rotates or reloads: it binds to the live policy.
Bind(s) ==
  /\ pinned' = [pinned EXCEPT ![s] = live]
  /\ since' = [since EXCEPT ![s] = 0]
  /\ UNCHANGED <<registry, disk, workers, swaps>>

-----------------------------------------------------------------------------
\* The edit endpoints

\* add, add_yaml, patch and delete: the body is decoded, no lock is held.
Receive(w, r) ==
  /\ pc[w] = "idle"
  /\ swaps < MaxSwaps                                         \* bound
  /\ r.kind # "apply"
  /\ request' = [request EXCEPT ![w] = r]
  /\ pc' = [pc EXCEPT ![w] = "checked"]
  /\ UNCHANGED <<registry, disk, holder, case, next, base, sessions, swaps>>

\* The dashboard fetches a case bundle, which names the live policy.
BuildCase(w, r) ==
  /\ pc[w] = "idle"
  /\ swaps < MaxSwaps                                         \* bound
  /\ r.kind = "apply"
  /\ r.gate \in Present(live)
  /\ request' = [request EXCEPT ![w] = r]
  /\ case' = [case EXCEPT ![w] = live]
  /\ pc' = [pc EXCEPT ![w] = "case"]
  /\ UNCHANGED <<registry, disk, holder, next, base, sessions, swaps>>

\* ... and posts it: a bundle of another policy is refused (409), before
\* policyMu is taken.
CheckCase(w) ==
  /\ pc[w] = "case"
  /\ pc' = [pc EXCEPT ![w] = IF live = case[w] THEN "checked" ELSE "error"]
  /\ UNCHANGED <<registry, disk, holder, request, case, next, base, sessions, swaps>>

\* Mutant: the live policy is read and edited without policyMu.
Mutate_WithoutLock(w) ==
  /\ pc[w] = "checked"
  /\ LET ok == CanEdit(request[w], live) /\ Compiles(Edited(request[w], live))
     IN  IF ok
         THEN /\ pc' = [pc EXCEPT ![w] = "locked"]
              /\ next' = [next EXCEPT ![w] = Edited(request[w], live)]
              /\ base' = [base EXCEPT ![w] = live]
         ELSE /\ pc' = [pc EXCEPT ![w] = "error"]
              /\ UNCHANGED <<next, base>>
  /\ UNCHANGED <<registry, disk, holder, request, case, sessions, swaps>>

\* mutatePolicy up to LoadBytes; an error releases policyMu again.
Mutate(w) ==
  /\ pc[w] = "checked"
  /\ holder = None
  /\ LET ok == CanEdit(request[w], live) /\ Compiles(Edited(request[w], live))
     IN  IF ok
         THEN /\ holder' = w
              /\ pc' = [pc EXCEPT ![w] = "locked"]
              /\ next' = [next EXCEPT ![w] = Edited(request[w], live)]
              /\ base' = [base EXCEPT ![w] = live]
         ELSE /\ pc' = [pc EXCEPT ![w] = "error"]
              /\ UNCHANGED <<holder, next, base>>
  /\ UNCHANGED <<registry, disk, request, case, sessions, swaps>>

\* AtomicWriteFile: the rename is the instant at which the file changes.
Persist(w) ==
  /\ pc[w] = "locked"
  /\ disk' = next[w]
  /\ pc' = [pc EXCEPT ![w] = "persisted"]
  /\ UNCHANGED <<registry, holder, request, case, next, base, sessions, swaps>>

\* Mutant: a failed write is answered with an error after the swap.
PersistFails_AfterSwap(w) ==
  /\ pc[w] = "locked"
  /\ Swap(next[w])
  /\ pc' = [pc EXCEPT ![w] = "error"]
  /\ holder' = None
  /\ UNCHANGED <<disk, request, case, next, base>>

\* AtomicWriteFile fails before the rename: nothing has changed.
PersistFails(w) ==
  /\ pc[w] = "locked"
  /\ pc' = [pc EXCEPT ![w] = "error"]
  /\ holder' = None
  /\ UNCHANGED <<registry, disk, request, case, next, base, sessions, swaps>>

\* The swap, and policyMu is released.
Promote(w) ==
  /\ pc[w] = "persisted"
  /\ Swap(next[w])
  /\ pc' = [pc EXCEPT ![w] = "ok"]
  /\ holder' = None
  /\ UNCHANGED <<disk, request, case, next, base>>

\* The worker's next request.
Answer(w) ==
  /\ pc[w] \in {"ok", "error"}
  /\ pc' = [pc EXCEPT ![w] = "idle"]
  /\ case' = [case EXCEPT ![w] = None]
  /\ next' = [next EXCEPT ![w] = None]
  /\ base' = [base EXCEPT ![w] = None]
  /\ request' = [request EXCEPT ![w] = None]
  /\ UNCHANGED <<registry, disk, holder, sessions, swaps>>

\* The daemon dies and starts again: requests in progress and the sessions
\* are gone, the policy is read from the file.
Restart ==
  /\ pins' = {disk} /\ pinOrder' = <<disk>> /\ live' = disk
  /\ holder' = None /\ pc' = AllIdle
  /\ request' = NothingAsked /\ case' = NothingAsked
  /\ next' = NothingAsked /\ base' = NothingAsked
  /\ pinned' = [s \in Session |-> None]
  /\ since' = [s \in Session |-> 0]
  /\ UNCHANGED <<disk, swaps>>

Step(w) ==
  \/ \E r \in Requests : Receive(w, r) \/ BuildCase(w, r)
  \/ CheckCase(w) \/ Mutate(w) \/ Persist(w) \/ PersistFails(w)
  \/ Promote(w) \/ Answer(w)

Next ==
  \/ \E w \in Worker : Step(w)
  \/ \E s \in Session : Bind(s)
  \/ Restart

Spec == Init /\ [][Next]_vars

-----------------------------------------------------------------------------
\* Properties

Stage == {"idle", "case", "checked", "locked", "persisted", "ok", "error"}

TypeOK ==
  /\ pins \subseteq Policy
  /\ pinOrder \in Seq(Policy)
  /\ live \in Policy
  /\ disk \in Policy
  /\ holder \in Worker \cup {None}
  /\ pc \in [Worker -> Stage]
  /\ request \in [Worker -> Request \cup {None}]
  /\ case \in [Worker -> Policy \cup {None}]
  /\ next \in [Worker -> Policy \cup {None}]
  /\ base \in [Worker -> Policy \cup {None}]
  /\ pinned \in [Session -> Policy \cup {None}]
  /\ since \in [Session -> Nat]
  /\ swaps \in Nat

\* The registry's two structures agree, the cap holds and the live policy can
\* always be found by its hash, whatever edits went back to an older policy
\* (Swap: a policy that is pinned already is not inserted again).
RegistryOK ==
  /\ pins = ToSet(pinOrder)
  /\ \A i, j \in DOMAIN pinOrder : pinOrder[i] = pinOrder[j] => i = j
  /\ Len(pinOrder) <= MaxPins
  /\ live \in pins

\* A failed write never leaves the live registry ahead of the file: they
\* differ only between the rename and the swap of the edit that holds
\* policyMu, and then the file is the one ahead, by that edit.
LiveNeverAhead ==
  live # disk =>
    /\ holder # None
    /\ pc[holder] = "persisted"
    /\ disk = next[holder] /\ live = base[holder]

\* The previous live policy is never the one that is evicted: a session that
\* has just attested survives the next edit with its own policy.
PinSurvivesOneEdit ==
  \A s \in Session : pinned[s] # None /\ since[s] <= 1 => ByHash(pinned[s]) = pinned[s]

\* Sessions keep their policy through a burst of edits, as long as there are
\* fewer edits than other pins.
PinSurvivesBurst ==
  \A s \in Session : pinned[s] # None /\ since[s] < MaxPins - 1 => ByHash(pinned[s]) = pinned[s]

\* A false-positive repair edits the policy its case bundle was made from:
\* stale bundles are rejected.
RepairEditsItsCase ==
  \A w \in Worker : 
    (pc[w] \in {"locked", "persisted", "ok"} /\ request[w].kind = "apply") => base[w] = case[w]

\* Refinement: the policy of EditedPolicy is the one in the file.
Edits == INSTANCE EditedPolicy WITH policy <- disk

\* Edits are serial and whole whatever interleaves with them, fails or dies:
\* none is lost, none is computed from a policy that was already replaced.
ImplementsEditedPolicy == Edits!Spec
=============================================================================
