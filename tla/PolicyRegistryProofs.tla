------------------------ MODULE PolicyRegistryProofs ------------------------
(***************************************************************************)
(* Proofs about PolicyRegistry, for any gates, workers, sessions and cap   *)
(* of at least two pins.  RegistryOK is inductive by itself; LockInv says  *)
(* what the holder of policyMu may rely on and gives LiveNeverAhead and    *)
(* the refinement of EditedPolicy.                                         *)
(***************************************************************************)
EXTENDS PolicyRegistry, SequenceTheorems, TLAPS

(* The algebra of edits *)

\* An edit of a policy is a policy.
LEMMA EditedType ==
  ASSUME NEW r \in Request, NEW p \in Policy
  PROVE  Edited(r, p) \in Policy
<1>1. \A g \in Gate : Edited(r, p)[g] \in {"absent", "on", "disabled"}
  BY DEF Edited, Policy
<1>2. QED
  BY <1>1 DEF Edited, Policy

-----------------------------------------------------------------------------
(* Eviction *)

LEMMA LongNotEmpty ==
  ASSUME NEW s, Len(s) >= 2
  PROVE  s # <<>>
OBVIOUS

\* What the loop does to an order that exceeds the cap, position by position.
LEMMA EvictedShape ==
  ASSUME NEW order \in Seq(Policy), live \in Policy, Len(order) > MaxPins
  PROVE  /\ Len(order) \in Nat /\ Len(order) >= 3
         /\ Evicted(order) \in Seq(Policy)
         /\ Len(Evicted(order)) = Len(order) - 1
         /\ order[1] # live =>
              \A i \in 1 .. Len(order) - 1 : Evicted(order)[i] = order[i + 1]
         /\ order[1] = live =>
              /\ Evicted(order)[Len(order) - 1] = live
              /\ \A i \in 1 .. Len(order) - 2 : Evicted(order)[i] = order[i + 2]
<1> DEFINE t == Tail(order)
           u == Tail(t)
<1>1. Len(order) \in Nat /\ Len(order) >= 3 /\ order # <<>>
  BY RegistryAssumption
<1>2. /\ t \in Seq(Policy) /\ Len(t) = Len(order) - 1 /\ t # <<>>
      /\ \A i \in 1 .. Len(order) - 1 : t[i] = order[i + 1]
  <2>1. /\ t \in Seq(Policy) /\ Len(t) = Len(order) - 1
        /\ \A i \in 1 .. Len(t) : t[i] = order[i + 1]
    BY <1>1, HeadTailProperties
  <2>2. t # <<>>
    <3>1. Len(t) >= 2
      BY <1>1, <2>1
    <3>2. QED
      BY <3>1, LongNotEmpty
  <2>3. QED
    BY <2>1, <2>2
<1>3. /\ u \in Seq(Policy) /\ Len(u) = Len(order) - 2
      /\ \A i \in 1 .. Len(order) - 2 : u[i] = order[i + 2]
  <2>1. u \in Seq(Policy) /\ Len(u) = Len(t) - 1
    BY <1>2, HeadTailProperties
  <2>2. \A i \in 1 .. Len(u) : u[i] = t[i + 1]
    BY <1>2, HeadTailProperties
  <2>3. QED
    BY <1>1, <1>2, <2>1, <2>2
<1>4. Evicted(order) = IF order[1] # live THEN t ELSE Append(u, live)
  BY <1>1, RegistryAssumption DEF Evicted
<1>5. CASE order[1] # live
  BY <1>1, <1>2, <1>4, <1>5
<1>6. CASE order[1] = live
  <2>1. Evicted(order) = Append(u, live)
    BY <1>4, <1>6
  <2>2. /\ Append(u, live) \in Seq(Policy) /\ Len(Append(u, live)) = Len(u) + 1
        /\ Append(u, live)[Len(u) + 1] = live
        /\ \A i \in 1 .. Len(u) : Append(u, live)[i] = u[i]
    BY <1>3
  <2>3. Len(u) + 1 = Len(order) - 1
    BY <1>1, <1>3
  <2>4. QED
    BY <1>1, <1>3, <1>6, <2>1, <2>2, <2>3
<1>7. QED
  BY <1>5, <1>6

\* No policy stands twice in an order.
Distinct(order) == \A i, j \in DOMAIN order : order[i] = order[j] => i = j

\* Eviction keeps the newest pin and the live policy, forgets one other pin
\* and repeats none.
LEMMA EvictedFacts ==
  ASSUME NEW order \in Seq(Policy), live \in Policy, Distinct(order),
         Len(order) = MaxPins + 1, live \in ToSet(order)
  PROVE  LET kept == Evicted(order) IN
         /\ kept \in Seq(Policy) /\ Distinct(kept) /\ Len(kept) = MaxPins
         /\ ToSet(kept) \subseteq ToSet(order)
         /\ live \in ToSet(kept) /\ order[Len(order)] \in ToSet(kept)
<1> DEFINE kept == Evicted(order)
           n == Len(order)
<1>1. Len(order) > MaxPins
  BY RegistryAssumption
<1>2. n \in Nat /\ n >= 3 /\ kept \in Seq(Policy) /\ Len(kept) = n - 1
  BY <1>1, EvictedShape
<1>3. DOMAIN kept = 1 .. n - 1 /\ DOMAIN order = 1 .. n
  BY <1>2
<1>4. PICK l \in 1 .. n : order[l] = live
  BY <1>3 DEF ToSet
<1>5. CASE order[1] # live
  <2>1. \A i \in 1 .. n - 1 : kept[i] = order[i + 1] /\ i + 1 \in 1 .. n
    BY <1>1, <1>2, <1>5, EvictedShape
  <2>2. Distinct(kept)
    BY <1>2, <1>3, <2>1 DEF Distinct
  <2>3. ToSet(kept) \subseteq ToSet(order)
    BY <1>3, <2>1 DEF ToSet
  <2>4. l - 1 \in 1 .. n - 1 /\ kept[l - 1] = live
    BY <1>2, <1>4, <1>5, <2>1
  <2>5. n - 1 \in 1 .. n - 1 /\ kept[n - 1] = order[n]
    BY <1>2, <2>1
  <2>6. live \in ToSet(kept) /\ order[n] \in ToSet(kept)
    BY <1>3, <2>4, <2>5 DEF ToSet
  <2>7. QED
    BY <1>2, <2>2, <2>3, <2>6, RegistryAssumption
<1>6. CASE order[1] = live
  <2>1. \A i \in 1 .. n - 2 : kept[i] = order[i + 2] /\ i + 2 \in 1 .. n /\ kept[i] # order[1]
    <3>1. \A i \in 1 .. n - 2 : kept[i] = order[i + 2] /\ i + 2 \in 1 .. n /\ i + 2 # 1
      <4>1. \A i \in 1 .. n - 2 : kept[i] = order[i + 2]
        BY <1>1, <1>6, EvictedShape
      <4>2. \A i \in 1 .. n - 2 : i + 2 \in 1 .. n /\ i + 2 # 1
        BY <1>2
      <4>3. QED
        BY <4>1, <4>2
    <3>2. QED
      BY <1>2, <1>3, <3>1 DEF Distinct
  <2>2. kept[n - 1] = order[1] /\ n - 1 \in 1 .. n - 1 /\ 1 \in 1 .. n
    BY <1>1, <1>2, <1>6, EvictedShape
  <2>3. Distinct(kept)
    <3> SUFFICES ASSUME NEW i \in 1 .. n - 1, NEW j \in 1 .. n - 1, kept[i] = kept[j]
                 PROVE  i = j
      BY <1>3 DEF Distinct
    <3>1. CASE i \in 1 .. n - 2 /\ j \in 1 .. n - 2
      <4>1. order[i + 2] = order[j + 2] /\ i + 2 \in 1 .. n /\ j + 2 \in 1 .. n
        <5>1. kept[i] = order[i + 2] /\ i + 2 \in 1 .. n
          BY <2>1, <3>1
        <5>2. kept[j] = order[j + 2] /\ j + 2 \in 1 .. n
          BY <2>1, <3>1
        <5>3. kept[i] = kept[j]
          OBVIOUS
        <5>4. QED
          BY <5>1, <5>2, <5>3
      <4>2. i + 2 = j + 2
        BY <1>3, <4>1 DEF Distinct
      <4>3. QED
        BY <4>2
    <3>2. CASE i = n - 1 /\ j = n - 1
      BY <3>2
    <3>3. CASE i = n - 1 /\ j \in 1 .. n - 2
      BY <2>1, <2>2, <3>3
    <3>4. CASE j = n - 1 /\ i \in 1 .. n - 2
      BY <2>1, <2>2, <3>4
    <3>5. QED
      BY <1>2, <3>1, <3>2, <3>3, <3>4
  <2>4. \A i \in 1 .. n - 1 : kept[i] \in ToSet(order)
    <3> SUFFICES ASSUME NEW i \in 1 .. n - 1 PROVE kept[i] \in ToSet(order)
      OBVIOUS
    <3>1. CASE i \in 1 .. n - 2
      BY <1>3, <2>1, <3>1 DEF ToSet
    <3>2. CASE i = n - 1
      BY <1>3, <2>2, <3>2 DEF ToSet
    <3>3. QED
      BY <1>2, <3>1, <3>2
  <2>5. n - 2 \in 1 .. n - 2 /\ n - 2 \in 1 .. n - 1 /\ kept[n - 2] = order[n]
    <3>1. n - 2 \in 1 .. n - 2 /\ n - 2 \in 1 .. n - 1 /\ (n - 2) + 2 = n
      BY <1>2
    <3>2. QED
      BY <2>1, <3>1
  <2>6. live \in ToSet(kept) /\ order[n] \in ToSet(kept) /\ ToSet(kept) \subseteq ToSet(order)
    BY <1>3, <1>6, <2>2, <2>4, <2>5 DEF ToSet
  <2>7. QED
    BY <1>2, <2>3, <2>6, RegistryAssumption
<1>7. QED
  BY <1>5, <1>6

-----------------------------------------------------------------------------
(* The registry and the holder of policyMu *)

\* What a request in progress has computed so far.
WorkInv ==
  \A w \in Worker :
    /\ pc[w] \in {"case", "checked", "locked", "persisted"} => request[w] \in Request
    /\ pc[w] \in {"locked", "persisted"} => next[w] \in Policy

\* policyMu is held exactly by an edit between its reading of the live policy
\* and its swap, and nobody else moves the live policy or the file meanwhile.
LockInv ==
  /\ \A w \in Worker : pc[w] \in {"locked", "persisted"} <=> holder = w
  /\ holder = None => live = disk
  /\ \A w \in Worker :
       /\ pc[w] = "locked" =>
            /\ live = disk /\ base[w] = live
            /\ CanEdit(request[w], live) /\ next[w] = Edited(request[w], live)
            /\ Compiles(next[w])
       /\ pc[w] = "persisted" => disk = next[w] /\ base[w] = live

\* A session bound since the last swap is bound to the live policy, one bound
\* a swap ago to a pinned one.
PinInv ==
  \A s \in Session : pinned[s] # None =>
    /\ since[s] = 0 => pinned[s] = live
    /\ since[s] = 1 => pinned[s] \in pins

IInv == TypeOK /\ WorkInv /\ RegistryOK /\ LockInv /\ PinInv

\* Pinning a policy that is not pinned yet.
LEMMA PinAppended ==
  ASSUME NEW seq \in Seq(Policy), NEW p \in Policy, NEW order,
         order = Append(seq, p), Distinct(seq), p \notin ToSet(seq)
  PROVE  /\ order \in Seq(Policy) /\ Len(order) = Len(seq) + 1
         /\ order[Len(order)] = p
         /\ ToSet(order) = ToSet(seq) \cup {p}
         /\ Distinct(order)
<1> DEFINE n == Len(seq)
<1>1. n \in Nat /\ DOMAIN seq = 1 .. n
  OBVIOUS
<1>2. order \in Seq(Policy) /\ Len(order) = n + 1 /\ order[n + 1] = p
  OBVIOUS
<1>3. DOMAIN order = 1 .. n + 1 /\ \A i \in 1 .. n : order[i] = seq[i]
  BY <1>1
<1> HIDE DEF n
<1>4. ToSet(seq) = {seq[i] : i \in 1 .. n} /\ ToSet(order) = {order[i] : i \in 1 .. n + 1}
  BY <1>1, <1>3 DEF ToSet
<1>5. 1 .. n + 1 = (1 .. n) \cup {n + 1}
  BY <1>1
<1>6. ToSet(order) = ToSet(seq) \cup {p}
  BY <1>2, <1>3, <1>4, <1>5
<1>7. \A i \in 1 .. n : seq[i] # p
  BY <1>4
<1>8. Distinct(order)
  <2> SUFFICES ASSUME NEW i \in 1 .. n + 1, NEW j \in 1 .. n + 1, order[i] = order[j]
               PROVE  i = j
    BY <1>2 DEF Distinct
  <2>1. CASE i \in 1 .. n /\ j \in 1 .. n
    <3>1. seq[i] = seq[j]
      BY <1>3, <2>1
    <3>2. QED
      BY <2>1, <3>1 DEF Distinct, n
  <2>2. CASE i = n + 1 /\ j \in 1 .. n
    BY <1>2, <1>3, <1>7, <2>2
  <2>3. CASE j = n + 1 /\ i \in 1 .. n
    BY <1>2, <1>3, <1>7, <2>3
  <2>4. QED
    BY <1>5, <2>1, <2>2, <2>3
<1>9. QED
  BY <1>2, <1>6, <1>8 DEF n

\* A swap keeps the registry in order and the replaced policy pinned.
LEMMA SwapFacts ==
  ASSUME TypeOK, RegistryOK, NEW p \in Policy, Swap(p)
  PROVE  /\ pins' \subseteq Policy /\ pinOrder' \in Seq(Policy) /\ live' = p
         /\ RegistryOK' /\ live \in pins'
<1> DEFINE order == IF p \in pins THEN pinOrder ELSE Append(pinOrder, p)
           kept == Evicted(order)
<1>1. /\ pinOrder' = kept /\ live' = p
      /\ pins' = (pins \cup {p}) \ (ToSet(order) \ ToSet(kept))
  BY DEF Swap
<1>2. pinOrder \in Seq(Policy) /\ Len(pinOrder) \in Nat /\ live \in Policy /\ Len(pinOrder) <= MaxPins
  BY DEF TypeOK, RegistryOK
<1>3. Distinct(pinOrder) /\ pins = ToSet(pinOrder) /\ live \in pins
  BY DEF RegistryOK, Distinct
<1>4. CASE p \in pins
  <2>1. kept = pinOrder /\ order = pinOrder
    BY <1>2, <1>4 DEF Evicted
  <2>2. pins' = pins /\ pinOrder' = pinOrder
    BY <1>1, <1>4, <2>1
  <2>3. QED
    BY <1>1, <1>2, <1>3, <1>4, <2>2 DEF RegistryOK, TypeOK
<1>5. CASE p \notin pins
  <2>1. /\ order \in Seq(Policy) /\ Len(order) = Len(pinOrder) + 1
        /\ order[Len(order)] = p /\ ToSet(order) = pins \cup {p} /\ Distinct(order)
    <3>1. order = Append(pinOrder, p) /\ p \notin ToSet(pinOrder)
      BY <1>3, <1>5
    <3> HIDE DEF order
    <3>2. QED
      BY <1>2, <1>3, <3>1, PinAppended
  <2> HIDE DEF order
  <2>2. ToSet(order) = pins \cup {p} /\ MaxPins \in Nat /\ Len(order) \in Nat
    BY <1>2, <2>1, RegistryAssumption
  <2>3. /\ kept \in Seq(Policy) /\ Distinct(kept) /\ Len(kept) <= MaxPins
        /\ ToSet(kept) \subseteq ToSet(order) /\ live \in ToSet(kept) /\ p \in ToSet(kept)
    <3>1. CASE Len(order) <= MaxPins
      <4>1. kept = order
        BY <3>1 DEF Evicted
      <4> HIDE DEF kept
      <4>2. QED
        BY <1>3, <2>1, <3>1, <4>1
    <3>2. CASE Len(order) > MaxPins
      <4>1. Len(order) = MaxPins + 1
        BY <1>2, <2>1, <2>2, <3>2
      <4>2. live \in ToSet(order) /\ p \in ToSet(order)
        BY <1>3, <2>1
      <4>3. QED
        BY <1>2, <2>1, <4>1, <4>2, EvictedFacts
    <3> HIDE DEF kept
    <3>3. Len(order) <= MaxPins \/ Len(order) > MaxPins
      BY <2>2
    <3>4. QED
      BY <3>1, <3>2, <3>3
  <2>4. pins' = ToSet(kept)
    BY <1>1, <2>2, <2>3
  <2>5. pins' \subseteq Policy
    BY <2>3, <2>4 DEF ToSet
  <2>6. RegistryOK'
    BY <1>1, <2>3, <2>4 DEF RegistryOK, Distinct
  <2>7. QED
    BY <1>1, <2>3, <2>4, <2>5, <2>6
<1>6. QED
  BY <1>4, <1>5

\* The steps that leave the registry and the sessions alone.
LEMMA RegistryStays ==
  ASSUME RegistryOK, PinInv, UNCHANGED <<registry, sessions>>
  PROVE  RegistryOK' /\ PinInv'
BY DEF RegistryOK, PinInv, registry, sessions

LEMMA IInvHolds == Spec => []IInv
<1> USE DEF registry, sessions
<1>1. Init => IInv
  <2> SUFFICES ASSUME Init PROVE IInv
    OBVIOUS
  <2>1. TypeOK
    BY RegistryAssumption DEF Init, TypeOK, AllIdle, NothingAsked, Stage
  <2>2. RegistryOK
    BY RegistryAssumption DEF Init, RegistryOK, ToSet
  <2>3. WorkInv /\ LockInv /\ PinInv
    BY RegistryAssumption DEF Init, WorkInv, LockInv, PinInv, AllIdle
  <2>4. QED
    BY <2>1, <2>2, <2>3 DEF IInv
<1>2. IInv /\ [Next]_vars => IInv'
  <2> SUFFICES ASSUME IInv, [Next]_vars PROVE IInv'
    OBVIOUS
  <2> USE DEF IInv
  <2>1. ASSUME NEW w \in Worker, NEW r \in Requests, Receive(w, r) PROVE IInv'
    <3>1. TypeOK'
      BY <2>1 DEF Receive, TypeOK, Requests, Stage
    <3>2. WorkInv' /\ LockInv'
      BY <2>1 DEF Receive, WorkInv, LockInv, Requests, TypeOK
    <3>3. QED
      BY <2>1, <3>1, <3>2, RegistryStays DEF Receive
  <2>2. ASSUME NEW w \in Worker, NEW r \in Requests, BuildCase(w, r) PROVE IInv'
    <3>1. TypeOK'
      BY <2>2 DEF BuildCase, TypeOK, Requests, Stage
    <3>2. WorkInv' /\ LockInv'
      BY <2>2 DEF BuildCase, WorkInv, LockInv, Requests, TypeOK
    <3>3. QED
      BY <2>2, <3>1, <3>2, RegistryStays DEF BuildCase
  <2>3. ASSUME NEW w \in Worker, CheckCase(w) PROVE IInv'
    <3>1. TypeOK'
      BY <2>3 DEF CheckCase, TypeOK, Stage
    <3>2. WorkInv' /\ LockInv'
      BY <2>3 DEF CheckCase, WorkInv, LockInv, TypeOK
    <3>3. QED
      BY <2>3, <3>1, <3>2, RegistryStays DEF CheckCase
  <2>4. ASSUME NEW w \in Worker, Mutate(w) PROVE IInv'
    <3>1. Edited(request[w], live) \in Policy
      BY <2>4, EditedType DEF Mutate, WorkInv, TypeOK
    <3>2. TypeOK'
      BY <2>4, <3>1 DEF Mutate, TypeOK, Stage
    <3>3. WorkInv'
      BY <2>4, <3>1 DEF Mutate, WorkInv, TypeOK
    <3>4. LockInv'
      BY <2>4, RegistryAssumption DEF Mutate, LockInv, TypeOK
    <3>5. QED
      BY <2>4, <3>2, <3>3, <3>4, RegistryStays DEF Mutate
  <2>5. ASSUME NEW w \in Worker, Persist(w) PROVE IInv'
    <3>1. next[w] \in Policy
      BY <2>5 DEF Persist, WorkInv
    <3>2. TypeOK'
      BY <2>5, <3>1 DEF Persist, TypeOK, Stage
    <3>3. WorkInv' /\ LockInv'
      BY <2>5, RegistryAssumption DEF Persist, WorkInv, LockInv, TypeOK
    <3>4. QED
      BY <2>5, <3>2, <3>3, RegistryStays DEF Persist
  <2>6. ASSUME NEW w \in Worker, PersistFails(w) PROVE IInv'
    <3>1. TypeOK'
      BY <2>6 DEF PersistFails, TypeOK, Stage
    <3>2. WorkInv' /\ LockInv'
      BY <2>6, RegistryAssumption DEF PersistFails, WorkInv, LockInv, TypeOK
    <3>3. QED
      BY <2>6, <3>1, <3>2, RegistryStays DEF PersistFails
  <2>7. ASSUME NEW w \in Worker, Promote(w) PROVE IInv'
    <3>1. next[w] \in Policy /\ Swap(next[w])
      BY <2>7 DEF Promote, WorkInv
    <3>2. /\ pins' \subseteq Policy /\ pinOrder' \in Seq(Policy) /\ live' = next[w]
          /\ RegistryOK' /\ live \in pins'
      BY <3>1, SwapFacts
    <3>3. TypeOK'
      BY <2>7, <3>1, <3>2 DEF Promote, Swap, TypeOK, Stage
    <3>4. WorkInv' /\ LockInv'
      BY <2>7, <3>2, RegistryAssumption DEF Promote, WorkInv, LockInv, TypeOK
    <3>5. PinInv'
      BY <3>1, <3>2 DEF Swap, PinInv, TypeOK
    <3>6. QED
      BY <3>2, <3>3, <3>4, <3>5
  <2>8. ASSUME NEW w \in Worker, Answer(w) PROVE IInv'
    <3>1. TypeOK'
      BY <2>8 DEF Answer, TypeOK, Stage
    <3>2. WorkInv' /\ LockInv'
      BY <2>8 DEF Answer, WorkInv, LockInv, TypeOK
    <3>3. QED
      BY <2>8, <3>1, <3>2, RegistryStays DEF Answer
  <2>9. ASSUME NEW s \in Session, Bind(s) PROVE IInv'
    <3>1. TypeOK'
      BY <2>9 DEF Bind, TypeOK, workers
    <3>2. WorkInv' /\ LockInv' /\ RegistryOK'
      BY <2>9 DEF Bind, WorkInv, LockInv, RegistryOK, workers
    <3>3. PinInv'
      BY <2>9 DEF Bind, PinInv, TypeOK
    <3>4. QED
      BY <3>1, <3>2, <3>3
  <2>10. CASE Restart
    <3>1. TypeOK'
      BY <2>10 DEF Restart, TypeOK, AllIdle, NothingAsked, Stage
    <3>2. RegistryOK'
      BY <2>10, RegistryAssumption DEF Restart, RegistryOK, ToSet
    <3>3. WorkInv' /\ LockInv' /\ PinInv'
      BY <2>10, RegistryAssumption DEF Restart, WorkInv, LockInv, PinInv, AllIdle
    <3>4. QED
      BY <3>1, <3>2, <3>3
  <2>11. CASE UNCHANGED vars
    BY <2>11, RegistryStays DEF vars, workers, TypeOK, WorkInv, LockInv
  <2>12. QED
    BY <2>1, <2>2, <2>3, <2>4, <2>5, <2>6, <2>7, <2>8, <2>9, <2>10, <2>11 DEF Next, Step
<1>3. QED
  BY <1>1, <1>2, PTL DEF Spec

\* The fields of policyRegistry, of the file and of every request in progress
\* are well formed in every reachable state.
THEOREM RegistryTypeCorrect == Spec => []TypeOK
<1>1. IInv => TypeOK
  BY DEF IInv
<1>2. QED
  BY <1>1, IInvHolds, PTL

\* The map and the order of policyRegistry agree, no policy is pinned twice,
\* the cap holds and the live policy is pinned, for any cap of at least two.
THEOREM RegistryAlwaysOK == Spec => []RegistryOK
<1>1. IInv => RegistryOK
  BY DEF IInv
<1>2. QED
  BY <1>1, IInvHolds, PTL

\* mutatePolicy never lets the live registry get ahead of the policy file.
THEOREM LiveIsNeverAhead == Spec => []LiveNeverAhead
<1>1. IInv => LiveNeverAhead
  <2> SUFFICES ASSUME IInv, live # disk PROVE LiveNeverAhead
    BY DEF LiveNeverAhead
  <2>1. holder \in Worker
    BY DEF IInv, TypeOK, LockInv
  <2>2. pc[holder] = "persisted"
    BY <2>1 DEF IInv, LockInv
  <2>3. QED
    BY <2>1, <2>2, RegistryAssumption DEF IInv, LockInv, LiveNeverAhead
<1>2. QED
  BY <1>1, IInvHolds, PTL

\* A session that attested since the last edit but one still evaluates its own
\* policy (Swap protects the policy it replaces).
THEOREM FreshPinsSurvive == Spec => []PinSurvivesOneEdit
<1>1. IInv => PinSurvivesOneEdit
  <2> SUFFICES ASSUME IInv, NEW s \in Session, pinned[s] # None, since[s] <= 1
               PROVE  ByHash(pinned[s]) = pinned[s]
    BY DEF PinSurvivesOneEdit
  <2>1. since[s] = 0 \/ since[s] = 1
    BY DEF IInv, TypeOK
  <2>2. pinned[s] \in pins
    BY <2>1 DEF IInv, PinInv, RegistryOK
  <2>3. QED
    BY <2>2 DEF ByHash
<1>2. QED
  BY <1>1, IInvHolds, PTL

\* The abstract module computes edits with the same definitions.
LEMMA SameEdits ==
  /\ Edits!Policy = Policy /\ Edits!Request = Request
  /\ \A p : Edits!Compiles(p) <=> Compiles(p)
  /\ \A r, p : (Edits!CanEdit(r, p) <=> CanEdit(r, p)) /\ Edits!Edited(r, p) = Edited(r, p)
BY DEF Edits!Policy, Policy, Edits!Request, Request, Edits!Compiles, Compiles,
       Edits!Present, Present, Edits!CanEdit, CanEdit, Edits!Edited, Edited

\* Every change of the policy file is one whole edit, computed from the policy
\* that the file held before: concurrent edits, failing writes and restarts
\* lose none and tear none.
THEOREM RegistryImplementsEditedPolicy == Spec => ImplementsEditedPolicy
<1>1. Init => Edits!Init
  BY RegistryAssumption, SameEdits DEF Init, Edits!Init
<1>2. IInv /\ [Next]_vars => [Edits!Next]_disk
  <2> SUFFICES ASSUME IInv, Next, disk' # disk PROVE Edits!Next
    BY DEF vars
  <2>1. PICK w \in Worker : Persist(w)
    BY DEF Next, Step, Receive, BuildCase, CheckCase, Mutate, PersistFails, Promote,
           Answer, Bind, Restart
  <2>2. request[w] \in Request /\ Edits!Edit(request[w])
    BY <2>1, SameEdits DEF Persist, IInv, WorkInv, LockInv, Edits!Edit
  <2>3. QED
    BY <2>2, SameEdits DEF Edits!Next
<1>3. QED
  BY <1>1, <1>2, IInvHolds, PTL DEF Spec, ImplementsEditedPolicy, Edits!Spec
=============================================================================
