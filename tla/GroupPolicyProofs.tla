--------------------------- MODULE GroupPolicyProofs --------------------------
(***************************************************************************)
(* Proofs about how a session's call is decided: the priority rule and the *)
(* denials of the layers (PolicyLayers), the order of the groups           *)
(* (GroupOrder), and the two together (GroupPolicy), for any policy files, *)
(* any bundle, cyclic ones included, and any number of layers.             *)
(***************************************************************************)
EXTENDS GroupPolicy, SelectionProofs

-----------------------------------------------------------------------------
(* One policy *)

Answer ==
  [verdict : {"allow", "deny"}, rule : RuleId \cup {"default"}, original : {"allow", "deny"},
   monitored : BOOLEAN, priority : Nat]

\* In monitor mode a verdict is allow, else it is what the evaluators said.
Plain(r) == r.verdict = IF r.monitored THEN "allow" ELSE r.original

LEMMA MinIs ==
  ASSUME NEW I \in SUBSET Nat, I # {}
  PROVE  Min(I) \in I /\ \A i \in I : Min(I) <= i
<1>1. \E m \in I : \A n \in I : m <= n
  BY LeastNat
<1>2. QED
  BY <1>1 DEF Min

LEMMA ReactionFacts ==
  ASSUME NEW g \in Gate
  PROVE  Reaction(g) \in {"allow", "deny", "skip"}
<1>1. PICK I : I = {i \in 1 .. Len(g.evals) : Says(g.evals[i]) # "skip"}
  OBVIOUS
<1>2. PICK i : i = IF I # {} THEN Min(I) ELSE 0
  OBVIOUS
<1>3. Reaction(g) = IF i = 0 THEN "skip" ELSE Says(g.evals[i])
  BY <1>1, <1>2 DEF Reaction, SelectInSeq
<1>4. g.evals \in Seq(Evaluator)
  BY DEF Gate
<1>5. CASE I = {}
  BY <1>2, <1>3, <1>5
<1>6. CASE I # {}
  <2>1. I \in SUBSET Nat
    BY <1>1
  <2>2. i \in I
    BY <1>2, <1>6, <2>1, MinIs
  <2>3. g.evals[i] \in Evaluator /\ i # 0
    BY <1>1, <1>4, <2>2, ElementOfSeq
  <2>4. Says(g.evals[i]) \in {"allow", "deny", "skip"}
    BY <2>3 DEF Evaluator, Says
  <2>5. QED
    BY <1>3, <2>3, <2>4
<1>7. QED
  BY <1>5, <1>6

Firing(gs) == {i \in 1 .. Len(gs) : Fires(gs[i])}

\* What a policy answers is the answer of the first gate that fires.
AnswerOf(m, g) ==
  LET effective == IF g.mode = Unset THEN m ELSE g.mode
  IN  [verdict   |-> IF effective = "monitor" THEN "allow" ELSE Reaction(g),
       rule      |-> g.id,
       original  |-> Reaction(g),
       monitored |-> effective = "monitor",
       priority  |-> g.priority]

LEMMA EvaluateIs ==
  ASSUME NEW m, NEW gs \in Seq(Gate)
  PROVE  /\ Firing(gs) \in SUBSET Nat
         /\ Firing(gs) = {} => Evaluate(m, gs) = NoRule
         /\ Firing(gs) # {} => Evaluate(m, gs) = AnswerOf(m, gs[Min(Firing(gs))])
<1>1. Firing(gs) \in SUBSET Nat
  BY DEF Firing
<1>2. PICK i : i = IF Firing(gs) # {} THEN Min(Firing(gs)) ELSE 0
  OBVIOUS
<1>3. SelectInSeq(gs, Fires) = i
  BY <1>2 DEF SelectInSeq, Firing
<1>4. Evaluate(m, gs) = IF i = 0 THEN NoRule ELSE AnswerOf(m, gs[i])
  BY <1>3 DEF Evaluate, AnswerOf
<1>5. CASE Firing(gs) = {}
  BY <1>1, <1>2, <1>4, <1>5
<1>6. CASE Firing(gs) # {}
  <2>1. i \in Firing(gs)
    BY <1>1, <1>2, <1>6, MinIs
  <2>2. i # 0
    BY <2>1 DEF Firing
  <2>3. QED
    BY <1>1, <1>2, <1>4, <1>6, <2>2
<1>7. QED
  BY <1>5, <1>6

LEMMA AnswerFacts ==
  ASSUME NEW m, NEW g \in Gate, Fires(g)
  PROVE  /\ AnswerOf(m, g) \in Answer /\ Plain(AnswerOf(m, g))
         /\ AnswerOf(m, g).rule = g.id /\ AnswerOf(m, g).rule # "default"
         /\ AnswerOf(m, g).priority = g.priority
<1>1. Reaction(g) \in {"allow", "deny"}
  BY ReactionFacts DEF Fires
<1>2. g.id \in RuleId /\ g.priority \in Nat /\ g.id # "default"
  BY LayersAssumption DEF Gate
<1>3. PICK mon \in BOOLEAN : mon = ((IF g.mode = Unset THEN m ELSE g.mode) = "monitor")
  OBVIOUS
<1>4. AnswerOf(m, g) = [verdict |-> IF mon THEN "allow" ELSE Reaction(g), rule |-> g.id,
                        original |-> Reaction(g), monitored |-> mon, priority |-> g.priority]
  BY <1>3 DEF AnswerOf
<1>5. QED
  BY <1>1, <1>2, <1>4 DEF Answer, Plain

LEMMA EvaluateFacts ==
  ASSUME NEW m, NEW gs \in Seq(Gate)
  PROVE  /\ Evaluate(m, gs) \in Answer /\ Plain(Evaluate(m, gs))
         /\ Evaluate(m, gs).rule = "default" => Evaluate(m, gs) = NoRule
         /\ Evaluate(m, gs) = NoRule
            \/ \E i \in 1 .. Len(gs) : /\ Evaluate(m, gs).rule = gs[i].id
                                       /\ Evaluate(m, gs).priority = gs[i].priority
<1>1. CASE Firing(gs) = {}
  <2>1. Evaluate(m, gs) = NoRule
    BY <1>1, EvaluateIs
  <2>2. NoRule \in Answer /\ Plain(NoRule)
    BY DEF NoRule, Answer, Plain
  <2>3. QED
    BY <2>1, <2>2
<1>2. CASE Firing(gs) # {}
  <2>1. PICK i : i = Min(Firing(gs))
    OBVIOUS
  <2>2. i \in Firing(gs) /\ Evaluate(m, gs) = AnswerOf(m, gs[i])
    BY <1>2, <2>1, EvaluateIs, MinIs
  <2>3. i \in 1 .. Len(gs) /\ Fires(gs[i])
    BY <2>2 DEF Firing
  <2>4. gs[i] \in Gate
    BY <2>3, ElementOfSeq
  <2>5. QED
    BY <2>2, <2>3, <2>4, AnswerFacts
<1>3. QED
  BY <1>1, <1>2

\* A gate that is appended is asked only if none before it fires.
LEMMA EvaluateExtended ==
  ASSUME NEW m, NEW gs \in Seq(Gate), NEW more \in Seq(Gate)
  PROVE  \/ Evaluate(m, gs \o more) = Evaluate(m, gs)
         \/ /\ Evaluate(m, gs) = NoRule
            /\ \E i \in 1 .. Len(more) : Evaluate(m, gs \o more).priority = more[i].priority
<1>0. gs \o more \in Seq(Gate)
  OBVIOUS
<1>1. PICK all \in Seq(Gate) : all = gs \o more
  BY <1>0
<1>2. /\ Len(all) = Len(gs) + Len(more) /\ Len(gs) \in Nat /\ Len(more) \in Nat
      /\ \A i \in 1 .. Len(gs) : all[i] = gs[i]
      /\ \A i \in 1 .. Len(more) : all[Len(gs) + i] = more[i]
  BY <1>1
<1>3. CASE Firing(gs) # {}
  <2>1. PICK i : i = Min(Firing(gs))
    OBVIOUS
  <2>2. PICK k : k = Min(Firing(all))
    OBVIOUS
  <2>3. i \in Firing(gs) /\ \A j \in Firing(gs) : i <= j
    BY <1>3, <2>1, EvaluateIs, MinIs
  <2>4. i \in Firing(all)
    BY <1>2, <2>3 DEF Firing
  <2>5. k \in Firing(all) /\ k <= i
    BY <2>2, <2>4, EvaluateIs, MinIs
  <2>6. k \in Firing(gs)
    BY <1>2, <2>3, <2>5 DEF Firing
  <2>7. k = i
    BY <2>3, <2>5, <2>6 DEF Firing
  <2>8. all[k] = gs[i]
    BY <1>2, <2>3, <2>7 DEF Firing
  <2>9. Evaluate(m, all) = AnswerOf(m, all[k]) /\ Evaluate(m, gs) = AnswerOf(m, gs[i])
    BY <1>3, <2>1, <2>2, <2>4, EvaluateIs
  <2>10. QED
    BY <1>1, <2>8, <2>9
<1>4. CASE Firing(gs) = {} /\ Firing(all) = {}
  BY <1>1, <1>4, EvaluateIs
<1>5. CASE Firing(gs) = {} /\ Firing(all) # {}
  <2>1. PICK k : k = Min(Firing(all))
    OBVIOUS
  <2>2. k \in Firing(all) /\ Evaluate(m, all) = AnswerOf(m, all[k]) /\ Evaluate(m, gs) = NoRule
    BY <1>5, <2>1, EvaluateIs, MinIs
  <2>3. k \in 1 .. Len(all) /\ Fires(all[k]) /\ k \notin 1 .. Len(gs)
    BY <1>2, <1>5, <2>2 DEF Firing
  <2>4. all[k] \in Gate
    BY <2>3, ElementOfSeq
  <2>5. PICK i : i = k - Len(gs)
    OBVIOUS
  <2>6. i \in 1 .. Len(more) /\ k = Len(gs) + i
    BY <1>2, <2>3, <2>5
  <2>7. all[k] = more[i]
    BY <1>2, <2>6
  <2>8. Evaluate(m, all).priority = more[i].priority
    BY <2>2, <2>3, <2>4, <2>7, AnswerFacts
  <2>9. QED
    BY <1>1, <2>2, <2>6, <2>8
<1>6. QED
  BY <1>3, <1>4, <1>5

-----------------------------------------------------------------------------
(* The priority rule *)

\* Of each rule, the best result among the first n and the ones set aside.
Standing(rs, n, best, drop) ==
  /\ best \in [RuleId -> 0 .. n] /\ drop \subseteq 1 .. n
  /\ \A j \in drop : rs[j].priority # 0
  /\ \A r \in RuleId : best[r] = 0 => \A j \in 1 .. n : rs[j].rule = r => rs[j].priority = 0
  /\ \A r \in RuleId : best[r] # 0 =>
       /\ rs[best[r]].rule = r /\ rs[best[r]].priority # 0 /\ best[r] \notin drop
       /\ \A j \in 1 .. n : rs[j].rule = r /\ rs[j].priority # 0 /\ j # best[r] =>
            /\ j \in drop /\ rs[j].priority <= rs[best[r]].priority
            /\ j > best[r] => rs[j].priority < rs[best[r]].priority

\* Results of a call: only one with a rule has a priority.
Ranked(rs) == rs \in Seq(Answer) /\ \A i \in DOMAIN rs : rs[i].rule = "default" => rs[i].priority = 0

LEMMA ContendFacts ==
  ASSUME NEW rs, Ranked(rs), NEW n \in 1 .. Len(rs), NEW best, NEW drop, Standing(rs, n - 1, best, drop)
  PROVE  \E b, d : Contend([best |-> best, drop |-> drop], n, rs) = [best |-> b, drop |-> d] /\ Standing(rs, n, b, d)
<1>1. PICK r : r = rs[n].rule
  OBVIOUS
<1>2. PICK p : p = [i \in 1 .. n |-> rs[i].priority]
  OBVIOUS
<1>3. PICK q : q = [i \in 1 .. n |-> rs[i].rule]
  OBVIOUS
<1>4. n \in Nat /\ n \in 1 .. n /\ \A i \in 1 .. n : p[i] \in Nat /\ p[i] = rs[i].priority /\ q[i] = rs[i].rule
  <2>1. \A i \in 1 .. n : rs[i] \in Answer
    BY DEF Ranked
  <2>2. \A i \in 1 .. n : rs[i].priority \in Nat
    BY <2>1 DEF Answer
  <2>3. QED
    BY <1>2, <1>3, <2>2
<1>5. /\ best \in [RuleId -> 0 .. n - 1] /\ drop \subseteq 1 .. n - 1
      /\ \A j \in drop : p[j] # 0
      /\ \A s \in RuleId : best[s] = 0 => \A j \in 1 .. n - 1 : q[j] = s => p[j] = 0
      /\ \A s \in RuleId : best[s] # 0 =>
           /\ q[best[s]] = s /\ p[best[s]] # 0 /\ best[s] \notin drop
           /\ \A j \in 1 .. n - 1 : q[j] = s /\ p[j] # 0 /\ j # best[s] =>
                j \in drop /\ p[j] <= p[best[s]] /\ (j > best[s] => p[j] < p[best[s]])
  <2>1. 1 .. n - 1 \subseteq 1 .. n /\ \A i \in 0 .. n - 1 : i # 0 => i \in 1 .. n - 1
    BY <1>4
  <2>2. \A s \in RuleId : best[s] # 0 => best[s] \in 1 .. n - 1
    BY <2>1 DEF Standing
  <2>3. \A i \in 1 .. n - 1 : p[i] = rs[i].priority /\ q[i] = rs[i].rule
    BY <1>4, <2>1
  <2>4. best \in [RuleId -> 0 .. n - 1] /\ drop \subseteq 1 .. n - 1
    BY DEF Standing
  <2>5. \A j \in drop : p[j] # 0
    BY <2>3, <2>4, Zenon DEF Standing
  <2>6. \A s \in RuleId : best[s] = 0 => \A j \in 1 .. n - 1 : q[j] = s => p[j] = 0
    <3>1. \A s \in RuleId : best[s] = 0 => \A j \in 1 .. n - 1 : rs[j].rule = s => rs[j].priority = 0
      BY Zenon DEF Standing
    <3>2. QED
      BY <2>3, <3>1
  <2>7. ASSUME NEW s \in RuleId, best[s] # 0
        PROVE  /\ q[best[s]] = s /\ p[best[s]] # 0 /\ best[s] \notin drop
               /\ \A j \in 1 .. n - 1 : q[j] = s /\ p[j] # 0 /\ j # best[s] =>
                    j \in drop /\ p[j] <= p[best[s]] /\ (j > best[s] => p[j] < p[best[s]])
    <3>1. best[s] \in 1 .. n - 1
      BY <2>2, <2>7
    <3>2. /\ rs[best[s]].rule = s /\ rs[best[s]].priority # 0 /\ best[s] \notin drop
          /\ \A j \in 1 .. n - 1 : rs[j].rule = s /\ rs[j].priority # 0 /\ j # best[s] =>
               /\ j \in drop /\ rs[j].priority <= rs[best[s]].priority
               /\ j > best[s] => rs[j].priority < rs[best[s]].priority
      BY <2>7, Zenon DEF Standing
    <3>3. QED
      BY <2>3, <3>1, <3>2, Zenon
  <2>8. QED
    BY <2>4, <2>5, <2>6, <2>7, Zenon
<1>6. p[n] # 0 => r \in RuleId
  <2>1. rs[n] \in Answer /\ (rs[n].rule = "default" => rs[n].priority = 0)
    BY DEF Ranked
  <2>2. QED
    BY <1>1, <1>4, <2>1 DEF Answer
<1>7. ASSUME NEW b, NEW d,
             /\ b \in [RuleId -> 0 .. n] /\ d \subseteq 1 .. n
             /\ \A j \in d : p[j] # 0
             /\ \A s \in RuleId : b[s] = 0 => \A j \in 1 .. n : q[j] = s => p[j] = 0
             /\ \A s \in RuleId : b[s] # 0 =>
                  /\ q[b[s]] = s /\ p[b[s]] # 0 /\ b[s] \notin d
                  /\ \A j \in 1 .. n : q[j] = s /\ p[j] # 0 /\ j # b[s] =>
                       j \in d /\ p[j] <= p[b[s]] /\ (j > b[s] => p[j] < p[b[s]])
      PROVE  Standing(rs, n, b, d)
  <2>1. \A s \in RuleId : b[s] # 0 => b[s] \in 1 .. n
    BY <1>4, <1>7
  <2>2. \A j \in d : rs[j].priority # 0
    BY <1>4, <1>7, Zenon
  <2>3. \A s \in RuleId : b[s] = 0 => \A j \in 1 .. n : rs[j].rule = s => rs[j].priority = 0
    BY <1>4, <1>7
  <2>4. ASSUME NEW s \in RuleId, b[s] # 0
        PROVE  /\ rs[b[s]].rule = s /\ rs[b[s]].priority # 0 /\ b[s] \notin d
               /\ \A j \in 1 .. n : rs[j].rule = s /\ rs[j].priority # 0 /\ j # b[s] =>
                    /\ j \in d /\ rs[j].priority <= rs[b[s]].priority
                    /\ j > b[s] => rs[j].priority < rs[b[s]].priority
    <3>1. b[s] \in 1 .. n
      BY <2>1, <2>4
    <3>2. rs[b[s]].rule = s /\ rs[b[s]].priority # 0 /\ b[s] \notin d
      BY <1>4, <1>7, <2>4, <3>1
    <3>3. ASSUME NEW j \in 1 .. n, rs[j].rule = s, rs[j].priority # 0, j # b[s]
          PROVE  /\ j \in d /\ rs[j].priority <= rs[b[s]].priority
                 /\ j > b[s] => rs[j].priority < rs[b[s]].priority
      <4>1. q[j] = s /\ p[j] # 0
        BY <1>4, <3>3
      <4>2. j \in d /\ p[j] <= p[b[s]] /\ (j > b[s] => p[j] < p[b[s]])
        BY <1>7, <2>4, <3>3, <4>1
      <4>3. p[j] = rs[j].priority /\ p[b[s]] = rs[b[s]].priority
        BY <1>4, <3>1
      <4>4. QED
        BY <4>2, <4>3
    <3>4. QED
      BY <3>2, <3>3
  <2>5. QED
    BY <1>7, <2>2, <2>3, <2>4, Zenon DEF Standing
<1>8. CASE p[n] = 0
  <2>1. Contend([best |-> best, drop |-> drop], n, rs) = [best |-> best, drop |-> drop]
    BY <1>4, <1>8 DEF Contend
  <2>2. best \in [RuleId -> 0 .. n] /\ drop \subseteq 1 .. n
    BY <1>4, <1>5
  <2>3. \A s \in RuleId : best[s] = 0 => \A j \in 1 .. n : q[j] = s => p[j] = 0
    BY <1>4, <1>5, <1>8
  <2>4. \A s \in RuleId : best[s] # 0 =>
          /\ q[best[s]] = s /\ p[best[s]] # 0 /\ best[s] \notin drop
          /\ \A j \in 1 .. n : q[j] = s /\ p[j] # 0 /\ j # best[s] =>
               j \in drop /\ p[j] <= p[best[s]] /\ (j > best[s] => p[j] < p[best[s]])
    BY <1>4, <1>5, <1>8
  <2>5. Standing(rs, n, best, drop)
    BY <1>5, <1>7, <2>2, <2>3, <2>4, Zenon
  <2>6. QED
    BY <2>1, <2>5
<1>9. CASE p[n] # 0 /\ best[r] = 0
  <2>1. PICK b : b = [best EXCEPT ![r] = n]
    OBVIOUS
  <2>2. Contend([best |-> best, drop |-> drop], n, rs) = [best |-> b, drop |-> drop]
    BY <1>1, <1>4, <1>9, <2>1 DEF Contend
  <2>3. r \in RuleId /\ q[n] = r /\ n # 0 /\ b[r] = n /\ \A s \in RuleId : s # r => b[s] = best[s]
    BY <1>1, <1>4, <1>5, <1>6, <1>9, <2>1
  <2>4. b \in [RuleId -> 0 .. n] /\ drop \subseteq 1 .. n
    <3>1. best \in [RuleId -> 0 .. n] /\ n \in 0 .. n /\ drop \subseteq 1 .. n
      BY <1>4, <1>5
    <3>2. QED
      BY <2>1, <3>1
  <2>5. \A s \in RuleId : b[s] = 0 => \A j \in 1 .. n : q[j] = s => p[j] = 0
    BY <1>4, <1>5, <2>3
  <2>6. ASSUME NEW s \in RuleId, b[s] # 0
        PROVE  /\ q[b[s]] = s /\ p[b[s]] # 0 /\ b[s] \notin drop
               /\ \A j \in 1 .. n : q[j] = s /\ p[j] # 0 /\ j # b[s] =>
                    j \in drop /\ p[j] <= p[b[s]] /\ (j > b[s] => p[j] < p[b[s]])
    <3>1. CASE s = r
      BY <1>4, <1>5, <1>9, <2>3, <3>1
    <3>2. CASE s # r
      BY <1>4, <1>5, <2>3, <2>6, <3>2
    <3>3. QED
      BY <3>1, <3>2
  <2>7. Standing(rs, n, b, drop)
    BY <1>5, <1>7, <2>4, <2>5, <2>6, Zenon
  <2>8. QED
    BY <2>2, <2>7
<1>10. CASE p[n] # 0 /\ best[r] # 0 /\ p[n] >= p[best[r]]
  <2>1. PICK b : b = [best EXCEPT ![r] = n]
    OBVIOUS
  <2>2. PICK d : d = drop \cup {best[r]}
    OBVIOUS
  <2>3. r \in RuleId /\ best[r] \in 1 .. n - 1 /\ p[best[r]] = rs[best[r]].priority
    BY <1>4, <1>5, <1>6, <1>10
  <2>4. Contend([best |-> best, drop |-> drop], n, rs) = [best |-> b, drop |-> d]
    BY <1>1, <1>4, <1>10, <2>1, <2>2, <2>3 DEF Contend
  <2>5. q[n] = r /\ n # 0 /\ b[r] = n /\ \A s \in RuleId : s # r => b[s] = best[s]
    BY <1>1, <1>4, <1>5, <2>1, <2>3
  <2>6. b \in [RuleId -> 0 .. n] /\ d \subseteq 1 .. n /\ \A j \in d : p[j] # 0
    <3>1. best \in [RuleId -> 0 .. n] /\ n \in 0 .. n /\ drop \subseteq 1 .. n /\ best[r] \in 1 .. n
      BY <1>4, <1>5, <2>3
    <3>2. p[best[r]] # 0 /\ \A j \in drop : p[j] # 0
      BY <1>5, <1>10, <2>3
    <3>3. QED
      BY <2>1, <2>2, <3>1, <3>2
  <2>7. \A s \in RuleId : b[s] = 0 => \A j \in 1 .. n : q[j] = s => p[j] = 0
    BY <1>4, <1>5, <2>5
  <2>8. ASSUME NEW s \in RuleId, b[s] # 0
        PROVE  /\ q[b[s]] = s /\ p[b[s]] # 0 /\ b[s] \notin d
               /\ \A j \in 1 .. n : q[j] = s /\ p[j] # 0 /\ j # b[s] =>
                    j \in d /\ p[j] <= p[b[s]] /\ (j > b[s] => p[j] < p[b[s]])
    <3>1. CASE s = r
      <4>1. q[b[s]] = s /\ p[b[s]] # 0 /\ b[s] \notin d
        BY <1>4, <1>5, <1>10, <2>2, <2>3, <2>5, <3>1
      <4>2. \A j \in 1 .. n - 1 : q[j] = s /\ p[j] # 0 => j \in d /\ p[j] <= p[best[r]]
        BY <1>4, <1>5, <1>10, <2>2, <2>3, <3>1
      <4>3. QED
        BY <1>4, <1>10, <2>3, <2>5, <3>1, <4>1, <4>2
    <3>2. CASE s # r
      <4>1. q[best[s]] = s /\ q[best[r]] = r /\ best[s] # best[r] /\ b[s] = best[s]
        BY <1>5, <2>3, <2>5, <2>8, <3>2, <1>10
      <4>2. QED
        BY <1>4, <1>5, <2>2, <2>5, <2>8, <3>2, <4>1
    <3>3. QED
      BY <3>1, <3>2
  <2>9. Standing(rs, n, b, d)
    BY <1>7, <2>6, <2>7, <2>8, Zenon
  <2>10. QED
    BY <2>4, <2>9
<1>11. CASE p[n] # 0 /\ best[r] # 0 /\ p[n] < p[best[r]]
  <2>1. PICK d : d = drop \cup {n}
    OBVIOUS
  <2>2. r \in RuleId /\ best[r] \in 1 .. n - 1 /\ p[best[r]] = rs[best[r]].priority /\ p[best[r]] \in Nat /\ p[n] \in Nat
    BY <1>4, <1>5, <1>6, <1>11
  <2>3. Contend([best |-> best, drop |-> drop], n, rs) = [best |-> best, drop |-> d]
    <3>1. rs[n].priority # 0 /\ ~(rs[n].priority >= rs[best[r]].priority)
      BY <1>4, <1>11, <2>2
    <3>2. QED
      BY <1>1, <1>11, <2>1, <3>1 DEF Contend
  <2>4. best \in [RuleId -> 0 .. n] /\ d \subseteq 1 .. n /\ \A j \in d : p[j] # 0
    <3>1. best \in [RuleId -> 0 .. n] /\ drop \subseteq 1 .. n /\ n \in 1 .. n
      BY <1>4, <1>5
    <3>2. QED
      BY <1>5, <1>11, <2>1, <3>1
  <2>5. \A s \in RuleId : best[s] = 0 => \A j \in 1 .. n : q[j] = s => p[j] = 0
    BY <1>1, <1>4, <1>5, <1>11
  <2>6. ASSUME NEW s \in RuleId, best[s] # 0
        PROVE  /\ q[best[s]] = s /\ p[best[s]] # 0 /\ best[s] \notin d
               /\ \A j \in 1 .. n : q[j] = s /\ p[j] # 0 /\ j # best[s] =>
                    j \in d /\ p[j] <= p[best[s]] /\ (j > best[s] => p[j] < p[best[s]])
    <3>1. best[s] \in 1 .. n - 1 /\ best[s] # n
      BY <1>4, <1>5, <2>6
    <3>2. q[best[s]] = s /\ p[best[s]] # 0 /\ best[s] \notin d
      BY <1>5, <2>1, <2>6, <3>1
    <3>3. \A j \in 1 .. n - 1 : q[j] = s /\ p[j] # 0 /\ j # best[s] =>
            j \in d /\ p[j] <= p[best[s]] /\ (j > best[s] => p[j] < p[best[s]])
      BY <1>5, <2>1, <2>6
    <3>4. q[n] = s => n \in d /\ p[n] <= p[best[s]] /\ p[n] < p[best[s]]
      BY <1>1, <1>4, <1>11, <2>1, <2>2
    <3>5. QED
      BY <1>4, <3>2, <3>3, <3>4
  <2>7. Standing(rs, n, best, d)
    BY <1>7, <2>4, <2>5, <2>6, Zenon
  <2>8. QED
    BY <2>3, <2>7
<1>12. QED
  <2>1. p[n] # 0 /\ best[r] # 0 => p[n] >= p[best[r]] \/ p[n] < p[best[r]]
    BY <1>4, <1>5, <1>6
  <2>2. QED
    BY <1>8, <1>9, <1>10, <1>11, <2>1

\* The contest of the results one after the other.
IsContest(f, rs, n) ==
  f = [i \in 0 .. n |-> IF i = 0 THEN [best |-> [r \in RuleId |-> 0], drop |-> {}] ELSE Contend(f[i - 1], i, rs)]

LEMMA ContestExists ==
  ASSUME NEW rs, NEW n \in Nat
  PROVE  \E f : IsContest(f, rs, n)
<1>1. PICK G : G = {m \in 0 .. n : \E f : IsContest(f, rs, m)}
  OBVIOUS
<1>2. 0 \in G
  <2>1. PICK none : none = [best |-> [r \in RuleId |-> 0], drop |-> {}]
    OBVIOUS
  <2>2. PICK f : f = [i \in 0 .. 0 |-> none]
    OBVIOUS
  <2>3. f = [i \in 0 .. 0 |-> IF i = 0 THEN none ELSE Contend(f[i - 1], i, rs)]
    BY <2>2
  <2>4. IsContest(f, rs, 0)
    BY <2>1, <2>3, Zenon DEF IsContest
  <2>5. QED
    BY <1>1, <2>4
<1>3. ASSUME NEW m \in 1 .. n, m - 1 \in G PROVE m \in G
  <2>1. PICK f : IsContest(f, rs, m - 1)
    BY <1>1, <1>3
  <2>2. PICK none : none = [best |-> [r \in RuleId |-> 0], drop |-> {}]
    OBVIOUS
  <2>3. f = [i \in 0 .. m - 1 |-> IF i = 0 THEN none ELSE Contend(f[i - 1], i, rs)]
    BY <2>1, <2>2, Zenon DEF IsContest
  <2>4. PICK last : last = Contend(f[m - 1], m, rs)
    OBVIOUS
  <2>5. PICK g : g = [i \in 0 .. m |-> IF i = m THEN last ELSE f[i]]
    OBVIOUS
  <2>6. ASSUME NEW i \in 0 .. m
        PROVE  g[i] = IF i = 0 THEN none ELSE Contend(g[i - 1], i, rs)
    <3>1. CASE i = m
      <4>1. g[i - 1] = f[m - 1] /\ g[i] = last /\ i # 0
        BY <2>5, <3>1
      <4>2. QED
        BY <2>4, <3>1, <4>1, Zenon
    <3>2. CASE i # m
      <4>1. i \in 0 .. m - 1 /\ g[i] = f[i] /\ (i # 0 => g[i - 1] = f[i - 1])
        BY <2>5, <3>2
      <4>2. f[i] = IF i = 0 THEN none ELSE Contend(f[i - 1], i, rs)
        BY <2>3, <4>1
      <4>3. QED
        BY <4>1, <4>2
    <3>3. QED
      BY <3>1, <3>2
  <2>7. g = [i \in 0 .. m |-> IF i = 0 THEN none ELSE Contend(g[i - 1], i, rs)]
    BY <2>5, <2>6
  <2>8. IsContest(g, rs, m)
    BY <2>2, <2>7, Zenon DEF IsContest
  <2>9. QED
    BY <1>1, <2>8
<1>4. \A m \in 0 .. n : m \in G
  BY <1>2, <1>3, UpTo
<1>5. n \in 0 .. n
  OBVIOUS
<1>6. QED
  BY <1>1, <1>4, <1>5

LEMMA DroppedStand ==
  ASSUME NEW rs, Ranked(rs)
  PROVE  \E best : Standing(rs, Len(rs), best, Dropped(rs))
<1>1. PICK n \in Nat : n = Len(rs)
  BY DEF Ranked
<1>2. PICK f : f = CHOOSE g : g = [i \in 0 .. Len(rs) |->
        IF i = 0 THEN [best |-> [r \in RuleId |-> 0], drop |-> {}] ELSE Contend(g[i - 1], i, rs)]
  OBVIOUS
<1>3. Dropped(rs) = f[n].drop
  BY <1>1, <1>2, Zenon DEF Dropped
<1>4. IsContest(f, rs, n)
  <2>1. \E g : g = [i \in 0 .. Len(rs) |->
          IF i = 0 THEN [best |-> [r \in RuleId |-> 0], drop |-> {}] ELSE Contend(g[i - 1], i, rs)]
    BY <1>1, ContestExists, Zenon DEF IsContest
  <2>2. QED
    BY <1>1, <1>2, <2>1, Zenon DEF IsContest
<1>5. \A i \in 0 .. n : f[i] = IF i = 0 THEN [best |-> [r \in RuleId |-> 0], drop |-> {}] ELSE Contend(f[i - 1], i, rs)
  BY <1>4, Zenon DEF IsContest
<1>6. PICK G : G = {m \in 0 .. n : \E b, d : f[m] = [best |-> b, drop |-> d] /\ Standing(rs, m, b, d)}
  OBVIOUS
<1>7. 0 \in G
  <2>1. PICK b : b = [r \in RuleId |-> 0]
    OBVIOUS
  <2>2. f[0] = [best |-> b, drop |-> {}]
    BY <1>5, <2>1
  <2>3. Standing(rs, 0, b, {})
    BY <2>1 DEF Standing
  <2>4. QED
    BY <1>6, <2>2, <2>3
<1>8. ASSUME NEW m \in 1 .. n, m - 1 \in G PROVE m \in G
  <2>1. PICK b, d : f[m - 1] = [best |-> b, drop |-> d] /\ Standing(rs, m - 1, b, d)
    BY <1>6, <1>8
  <2>2. m \in 0 .. n /\ m # 0 /\ m \in 1 .. Len(rs)
    BY <1>1
  <2>3. f[m] = Contend(f[m - 1], m, rs)
    BY <1>5, <2>2
  <2>4. PICK c, e : Contend([best |-> b, drop |-> d], m, rs) = [best |-> c, drop |-> e] /\ Standing(rs, m, c, e)
    BY <2>1, <2>2, ContendFacts
  <2>5. f[m] = [best |-> c, drop |-> e]
    BY <2>1, <2>3, <2>4
  <2>6. QED
    BY <1>6, <2>2, <2>4, <2>5
<1>9. n \in G
  <2>1. \A m \in 0 .. n : m \in G
    BY <1>7, <1>8, UpTo
  <2>2. n \in 0 .. n
    OBVIOUS
  <2>3. QED
    BY <2>1, <2>2
<1>10. PICK b, d : f[n] = [best |-> b, drop |-> d] /\ Standing(rs, n, b, d)
  BY <1>6, <1>9
<1>11. Dropped(rs) = d
  BY <1>3, <1>10
<1>12. QED
  BY <1>1, <1>10, <1>11

\* What is set aside: a result with a priority, for one of the same rule that is
\* kept, at least as high, and higher unless it comes later.
LEMMA DroppedFacts ==
  ASSUME NEW rs, Ranked(rs)
  PROVE  /\ Dropped(rs) \subseteq DOMAIN rs
         /\ \A i \in DOMAIN rs : i \in Dropped(rs) <=>
              /\ rs[i].priority # 0
              /\ \E j \in DOMAIN rs : /\ rs[j].rule = rs[i].rule /\ j # i
                                      /\ IF j > i THEN rs[j].priority >= rs[i].priority
                                                  ELSE rs[j].priority > rs[i].priority
         /\ \A i \in Dropped(rs) : \E k \in DOMAIN rs \ Dropped(rs) :
              rs[k].rule = rs[i].rule /\ rs[k].priority >= rs[i].priority /\ rs[i].priority # 0
<1>1. PICK n \in Nat : n = Len(rs) /\ DOMAIN rs = 1 .. n
  BY DEF Ranked
<1>2. PICK drop : drop = Dropped(rs)
  OBVIOUS
<1>3. PICK best : Standing(rs, n, best, drop)
  BY <1>1, <1>2, DroppedStand
<1>4. /\ best \in [RuleId -> 0 .. n] /\ drop \subseteq 1 .. n
      /\ \A j \in drop : rs[j].priority # 0
      /\ \A r \in RuleId : best[r] = 0 => \A j \in 1 .. n : rs[j].rule = r => rs[j].priority = 0
      /\ \A r \in RuleId : best[r] # 0 =>
           /\ rs[best[r]].rule = r /\ rs[best[r]].priority # 0 /\ best[r] \notin drop
           /\ \A j \in 1 .. n : rs[j].rule = r /\ rs[j].priority # 0 /\ j # best[r] =>
                /\ j \in drop /\ rs[j].priority <= rs[best[r]].priority
                /\ j > best[r] => rs[j].priority < rs[best[r]].priority
  BY <1>3, Zenon DEF Standing
<1>5. \A i \in 1 .. n : rs[i].priority \in Nat /\ (rs[i].priority # 0 => rs[i].rule \in RuleId)
  <2>1. \A i \in 1 .. n : rs[i] \in Answer /\ (rs[i].rule = "default" => rs[i].priority = 0)
    BY <1>1 DEF Ranked
  <2>2. QED
    BY <2>1 DEF Answer
<1>6. ASSUME NEW i \in 1 .. n, rs[i].priority # 0
      PROVE  /\ best[rs[i].rule] \in 1 .. n /\ best[rs[i].rule] \notin drop
             /\ rs[best[rs[i].rule]].rule = rs[i].rule
             /\ rs[i].priority <= rs[best[rs[i].rule]].priority
             /\ i \in drop <=> i # best[rs[i].rule]
             /\ i > best[rs[i].rule] => rs[i].priority < rs[best[rs[i].rule]].priority
  <2>1. rs[i].rule \in RuleId
    BY <1>5, <1>6
  <2>2. best[rs[i].rule] # 0 /\ best[rs[i].rule] \in 1 .. n
    BY <1>4, <1>6, <2>1
  <2>3. QED
    BY <1>4, <1>5, <1>6, <2>1, <2>2
<1>7. ASSUME NEW i \in drop
      PROVE  \E k \in 1 .. n : /\ k \notin drop /\ k # i /\ rs[k].rule = rs[i].rule
                               /\ rs[k].priority >= rs[i].priority /\ rs[i].priority # 0
                               /\ i > k => rs[i].priority < rs[k].priority
  <2>1. i \in 1 .. n /\ rs[i].priority # 0
    BY <1>4, <1>7
  <2>2. PICK k : k = best[rs[i].rule]
    OBVIOUS
  <2>3. /\ k \in 1 .. n /\ k \notin drop /\ rs[k].rule = rs[i].rule /\ rs[i].priority <= rs[k].priority
        /\ i # k /\ (i > k => rs[i].priority < rs[k].priority)
    BY <1>6, <1>7, <2>1, <2>2
  <2>4. rs[i].priority \in Nat /\ rs[k].priority \in Nat
    BY <1>5, <2>1, <2>3
  <2>5. QED
    BY <2>1, <2>3, <2>4
<1>8. ASSUME NEW i \in 1 .. n
      PROVE  i \in drop <=>
               /\ rs[i].priority # 0
               /\ \E j \in 1 .. n : /\ rs[j].rule = rs[i].rule /\ j # i
                                    /\ IF j > i THEN rs[j].priority >= rs[i].priority
                                                ELSE rs[j].priority > rs[i].priority
  <2>1. ASSUME i \in drop
        PROVE  /\ rs[i].priority # 0
               /\ \E j \in 1 .. n : /\ rs[j].rule = rs[i].rule /\ j # i
                                    /\ IF j > i THEN rs[j].priority >= rs[i].priority
                                                ELSE rs[j].priority > rs[i].priority
    <3>1. PICK k \in 1 .. n : /\ k \notin drop /\ k # i /\ rs[k].rule = rs[i].rule
                              /\ rs[k].priority >= rs[i].priority /\ rs[i].priority # 0
                              /\ i > k => rs[i].priority < rs[k].priority
      BY <1>7, <2>1
    <3>2. rs[i].priority \in Nat /\ rs[k].priority \in Nat
      BY <1>5
    <3>3. QED
      BY <3>1, <3>2
  <2>2. ASSUME rs[i].priority # 0, i \notin drop, NEW j \in 1 .. n, rs[j].rule = rs[i].rule, j # i,
               IF j > i THEN rs[j].priority >= rs[i].priority ELSE rs[j].priority > rs[i].priority
        PROVE  FALSE
    <3>1. i = best[rs[i].rule]
      BY <1>6, <2>2
    <3>2. rs[i].priority \in Nat /\ rs[j].priority \in Nat
      BY <1>5
    <3>3. rs[j].priority # 0
      BY <2>2, <3>2
    <3>4. rs[j].priority <= rs[i].priority /\ (j > i => rs[j].priority < rs[i].priority)
      BY <1>6, <2>2, <3>1, <3>3
    <3>5. QED
      BY <2>2, <3>2, <3>4
  <2>3. QED
    BY <2>1, <2>2
<1>9. \A i \in drop : \E k \in DOMAIN rs \ drop :
              rs[k].rule = rs[i].rule /\ rs[k].priority >= rs[i].priority /\ rs[i].priority # 0
  BY <1>1, <1>7
<1>10. QED
  BY <1>1, <1>2, <1>4, <1>8, <1>9, Zenon

-----------------------------------------------------------------------------
(* Layers *)

\* The answers to a call, the daemon's first, then one for each layer.
AnswersOf(rs, m, base, ls) ==
  /\ Ranked(rs) /\ DOMAIN rs = 1 .. Len(ls) + 1
  /\ rs[1] = Evaluate(m, base)
  /\ \A i \in 2 .. Len(ls) + 1 : rs[i] = Evaluate("enforce", ls[i - 1])
  /\ \A i \in DOMAIN rs : /\ rs[i] \in Answer /\ Plain(rs[i])
                          /\ rs[i].rule = "default" => rs[i] = NoRule

LEMMA ResultsFacts ==
  ASSUME NEW m, NEW base \in Seq(Gate), NEW ls \in Seq(Seq(Gate))
  PROVE  AnswersOf(Results(m, base, ls), m, base, ls)
<1>0. PICK rs : rs = Results(m, base, ls)
  OBVIOUS
<1>1. PICK rest : rest = [i \in DOMAIN ls |-> Evaluate("enforce", ls[i])]
  OBVIOUS
<1>2. \A i \in DOMAIN ls : ls[i] \in Seq(Gate)
  OBVIOUS
<1>3. \A i \in DOMAIN ls : /\ rest[i] \in Answer /\ Plain(rest[i])
                           /\ rest[i].rule = "default" => rest[i] = NoRule
  BY <1>1, <1>2, EvaluateFacts
<1>4. DOMAIN ls = 1 .. Len(ls) /\ Len(ls) \in Nat
  OBVIOUS
<1>5. rest \in Seq(Answer) /\ Len(rest) = Len(ls)
  BY <1>1, <1>3, <1>4
<1>6. PICK first : first = Evaluate(m, base)
  OBVIOUS
<1>7. first \in Answer /\ Plain(first) /\ (first.rule = "default" => first = NoRule)
  BY <1>6, EvaluateFacts
<1>8. rs = <<first>> \o rest
  BY <1>0, <1>1, <1>6, Zenon DEF Results
<1>9. /\ rs \in Seq(Answer) /\ Len(rs) = Len(ls) + 1 /\ DOMAIN rs = 1 .. Len(ls) + 1 /\ rs[1] = first
      /\ \A i \in 2 .. Len(ls) + 1 : rs[i] = rest[i - 1]
  <2>1. <<first>> \in Seq(Answer) /\ Len(<<first>>) = 1 /\ <<first>>[1] = first
    BY <1>7
  <2>2. PICK one \in Seq(Answer) : one = <<first>>
    BY <2>1
  <2>3. rs \in Seq(Answer) /\ Len(rs) = Len(ls) + 1 /\ DOMAIN rs = 1 .. Len(rs)
    BY <1>5, <1>8, <2>1, <2>2
  <2>4. \A i \in 1 .. Len(ls) + 1 : rs[i] = IF i <= 1 THEN one[i] ELSE rest[i - 1]
    BY <1>5, <1>8, <2>1, <2>2, <1>4
  <2>5. QED
    BY <1>4, <2>1, <2>2, <2>3, <2>4
<1>10. \A i \in 2 .. Len(ls) + 1 : i - 1 \in DOMAIN ls /\ rs[i] = rest[i - 1]
  BY <1>4, <1>9
<1>11. \A i \in DOMAIN rs : i = 1 \/ i \in 2 .. Len(ls) + 1
  BY <1>4, <1>9
<1>12. \A i \in DOMAIN rs : /\ rs[i] \in Answer /\ Plain(rs[i])
                            /\ rs[i].rule = "default" => rs[i] = NoRule
  BY <1>3, <1>7, <1>9, <1>10, <1>11
<1>13. Ranked(rs)
  <2>1. NoRule.priority = 0
    BY DEF NoRule
  <2>2. QED
    BY <1>9, <1>12, <2>1 DEF Ranked
<1>14. \A i \in 2 .. Len(ls) + 1 : rs[i] = Evaluate("enforce", ls[i - 1])
  BY <1>1, <1>10
<1>15. AnswersOf(rs, m, base, ls)
  BY <1>6, <1>9, <1>12, <1>13, <1>14, Zenon DEF AnswersOf
<1>16. QED
  BY <1>0, <1>15, Zenon

\* The call is denied, or would be, exactly if a result that is not set aside
\* denies it.
Decides(r, rs) ==
  /\ r \in Answer /\ Plain(r)
  /\ r.original = "deny" <=> \E i \in DOMAIN rs \ Dropped(rs) : rs[i].original = "deny"

LEMMA LayeredFacts ==
  ASSUME NEW m, NEW base \in Seq(Gate), NEW ls \in Seq(Seq(Gate))
  PROVE  Decides(EvaluateLayered(m, base, ls), Results(m, base, ls))
<1>0. PICK rs : rs = Results(m, base, ls)
  OBVIOUS
<1>1. PICK kept : kept = Contributing(rs) \ Dropped(rs)
  OBVIOUS
<1>2. PICK denies : denies = {i \in kept : rs[i].original = "deny"}
  OBVIOUS
<1>3. EvaluateLayered(m, base, ls) = IF Contributing(rs) = {} THEN NoRule
                                     ELSE rs[Min(IF denies = {} THEN kept ELSE denies)]
  BY <1>0, <1>1, <1>2, Zenon DEF EvaluateLayered
<1>4. /\ Ranked(rs) /\ DOMAIN rs \subseteq Nat
      /\ \A i \in DOMAIN rs : rs[i] \in Answer /\ Plain(rs[i]) /\ (rs[i].rule = "default" => rs[i] = NoRule)
  <2>1. /\ Ranked(rs) /\ DOMAIN rs = 1 .. Len(ls) + 1
        /\ \A i \in DOMAIN rs : rs[i] \in Answer /\ Plain(rs[i]) /\ (rs[i].rule = "default" => rs[i] = NoRule)
    <3>1. AnswersOf(rs, m, base, ls)
      BY <1>0, ResultsFacts
    <3>2. QED
      BY <3>1, Zenon DEF AnswersOf
  <2>2. DOMAIN rs \subseteq Nat
    BY <2>1
  <2>3. QED
    BY <2>1, <2>2
<1>5. \A i \in DOMAIN rs : rs[i].original = "deny" => i \in Contributing(rs)
  BY <1>4 DEF Contributing, NoRule
<1>6. NoRule \in Answer /\ Plain(NoRule) /\ NoRule.original # "deny"
  BY DEF NoRule, Answer, Plain
<1>7. CASE Contributing(rs) = {}
  <2>1. EvaluateLayered(m, base, ls) = NoRule
    BY <1>3, <1>7
  <2>2. \A i \in DOMAIN rs : rs[i].original # "deny"
    BY <1>5, <1>7
  <2>3. Decides(NoRule, rs)
    BY <1>6, <2>2 DEF Decides
  <2>4. QED
    BY <1>0, <2>1, <2>3, Zenon
<1>8. CASE Contributing(rs) # {}
  <2>1. kept # {}
    <3>1. PICK i \in DOMAIN rs : rs[i].rule # "default"
      BY <1>8 DEF Contributing
    <3>2. CASE i \notin Dropped(rs)
      BY <1>1, <3>1, <3>2 DEF Contributing
    <3>3. CASE i \in Dropped(rs)
      <4>1. PICK k \in DOMAIN rs \ Dropped(rs) : rs[k].rule = rs[i].rule
        BY <1>4, <3>3, DroppedFacts
      <4>2. QED
        BY <1>1, <3>1, <4>1 DEF Contributing
    <3>4. QED
      BY <3>2, <3>3
  <2>2. PICK I : I = IF denies = {} THEN kept ELSE denies
    OBVIOUS
  <2>3. I # {} /\ I \in SUBSET Nat /\ I \subseteq kept /\ kept \subseteq DOMAIN rs
    BY <1>1, <1>2, <1>4, <2>1, <2>2 DEF Contributing
  <2>4. PICK k : k = Min(I)
    OBVIOUS
  <2>5. k \in I /\ EvaluateLayered(m, base, ls) = rs[k]
    BY <1>3, <1>8, <2>2, <2>3, <2>4, MinIs
  <2>6. k \in DOMAIN rs /\ k \in kept /\ (denies # {} => rs[k].original = "deny")
    BY <1>2, <2>2, <2>3, <2>5
  <2>7. denies # {} <=> \E i \in DOMAIN rs \ Dropped(rs) : rs[i].original = "deny"
    BY <1>1, <1>2, <1>5, <2>3
  <2>8. rs[k].original = "deny" <=> denies # {}
    BY <1>2, <2>6
  <2>9. rs[k] \in Answer /\ Plain(rs[k])
    BY <1>4, <2>6
  <2>10. Decides(rs[k], rs)
    BY <2>7, <2>8, <2>9, Zenon DEF Decides
  <2>11. QED
    BY <1>0, <2>5, <2>10, Zenon
<1>9. QED
  BY <1>7, <1>8, Zenon

-----------------------------------------------------------------------------
(* The files of a call *)

FilesOK == daemon \in Seq(Gate) /\ repo \in Seq(Gate) /\ layers \in Seq(Seq(Gate))

\* The overlay appends some of the repo gates.
LEMMA OverlayFacts ==
  ASSUME NEW gs \in Seq(Gate), NEW ext \in Seq(Gate)
  PROVE  \E more \in Seq(Gate) : /\ Overlay(gs, ext) = gs \o more /\ Overlay(gs, ext) \in Seq(Gate)
                                 /\ Range(more) \subseteq Range(ext)
<1>1. PICK more : more = Among(ext, Accepted(gs, ext))
  OBVIOUS
<1>2. more \in Seq(Gate) /\ Range(more) = Range(ext) \cap Accepted(gs, ext)
  BY <1>1, AmongFacts
<1>3. Overlay(gs, ext) = gs \o more
  BY <1>1 DEF Overlay
<1>4. gs \o more \in Seq(Gate)
  BY <1>2
<1>5. QED
  BY <1>2, <1>3, <1>4

\* A result that wants to deny is set aside only for one of the same rule with at
\* least its priority (collapsePriorityConflicts, EvaluateLayered).
LEMMA ExceptionsFromFiles ==
  ASSUME FilesOK
  PROVE  ExceptionsAreExplicit /\ HighestPriorityKept
<1>1. PICK base : base = Overlay(daemon, repo)
  OBVIOUS
<1>2. base \in Seq(Gate) /\ layers \in Seq(Seq(Gate))
  BY <1>1, OverlayFacts DEF FilesOK
<1>3. PICK rs : rs = Results(mode, base, layers)
  OBVIOUS
<1>4. Answers = rs
  BY <1>1, <1>3, Zenon DEF Answers
<1>5. Ranked(rs) /\ \A i \in DOMAIN rs : rs[i] \in Answer
  <2>1. AnswersOf(rs, mode, base, layers)
    BY <1>2, <1>3, ResultsFacts
  <2>2. QED
    BY <2>1, Zenon DEF AnswersOf
<1>6. ExceptionsAreExplicit
  <2>1. SUFFICES ASSUME NEW r \in SeqValues(rs), r.original = "deny",
                        EvaluateLayered(mode, base, layers).original = "allow"
                 PROVE  \E s \in SeqValues(rs) : /\ s # r /\ s.rule = r.rule /\ s.original = "allow"
                                                 /\ r.priority # 0 /\ s.priority >= r.priority
    BY <1>1, <1>4 DEF ExceptionsAreExplicit
  <2>2. PICK i \in DOMAIN rs : r = rs[i]
    BY <2>1 DEF SeqValues
  <2>3. \A k \in DOMAIN rs \ Dropped(rs) : rs[k].original # "deny"
    <3>1. Decides(EvaluateLayered(mode, base, layers), rs)
      BY <1>2, <1>3, LayeredFacts
    <3>2. QED
      BY <2>1, <3>1 DEF Decides
  <2>4. i \in Dropped(rs)
    BY <2>1, <2>2, <2>3
  <2>5. PICK k \in DOMAIN rs \ Dropped(rs) :
          rs[k].rule = rs[i].rule /\ rs[k].priority >= rs[i].priority /\ rs[i].priority # 0
    BY <1>5, <2>4, DroppedFacts
  <2>6. rs[k].original = "allow"
    BY <1>5, <2>3, <2>5 DEF Answer
  <2>7. rs[k] \in SeqValues(rs) /\ rs[k] # r
    BY <2>1, <2>2, <2>5, <2>6 DEF SeqValues
  <2>8. QED
    BY <2>2, <2>5, <2>6, <2>7
<1>7. HighestPriorityKept
  BY <1>4, <1>5, DroppedFacts DEF HighestPriorityKept
<1>8. QED
  BY <1>6, <1>7

\* Without a priority the repo file takes no denial away
\* (MergeRestrictiveExtension, EvaluateLayered).
LEMMA RepoFromFiles ==
  ASSUME FilesOK
  PROVE  RepoKeepsDenies
<1>0. daemon \in Seq(Gate) /\ repo \in Seq(Gate) /\ layers \in Seq(Seq(Gate))
  BY DEF FilesOK
<1>1. SUFFICES ASSUME \A i \in DOMAIN repo : repo[i].priority = 0,
                      EvaluateLayered(mode, daemon, layers).original = "deny"
               PROVE  EvaluateLayered(mode, Overlay(daemon, repo), layers).original = "deny"
  BY DEF RepoKeepsDenies
<1>2. PICK more \in Seq(Gate) : /\ Overlay(daemon, repo) = daemon \o more /\ Overlay(daemon, repo) \in Seq(Gate)
                                /\ Range(more) \subseteq Range(repo)
  BY OverlayFacts DEF FilesOK
<1>3. \A i \in 1 .. Len(more) : more[i].priority = 0
  <2>1. ASSUME NEW i \in 1 .. Len(more) PROVE more[i].priority = 0
    <3>1. more[i] \in Range(more)
      BY <1>2 DEF Range
    <3>2. PICK j \in DOMAIN repo : more[i] = repo[j]
      BY <1>2, <3>1 DEF Range
    <3>3. QED
      BY <1>1, <3>2
  <2>2. QED
    BY <2>1
<1>4. PICK base \in Seq(Gate) : base = Overlay(daemon, repo)
  BY <1>2
<1>5. PICK rs : rs = Results(mode, daemon, layers)
  OBVIOUS
<1>6. PICK ts : ts = Results(mode, base, layers)
  OBVIOUS
<1>7. /\ Ranked(rs) /\ DOMAIN rs = 1 .. Len(layers) + 1 /\ rs[1] = Evaluate(mode, daemon)
      /\ \A i \in 2 .. Len(layers) + 1 : rs[i] = Evaluate("enforce", layers[i - 1])
      /\ \A i \in DOMAIN rs : rs[i] \in Answer
  <2>1. AnswersOf(rs, mode, daemon, layers)
    BY <1>0, <1>5, ResultsFacts
  <2>2. QED
    BY <2>1, Zenon DEF AnswersOf
<1>8. /\ Ranked(ts) /\ DOMAIN ts = 1 .. Len(layers) + 1 /\ ts[1] = Evaluate(mode, base)
      /\ \A i \in 2 .. Len(layers) + 1 : ts[i] = Evaluate("enforce", layers[i - 1])
      /\ \A i \in DOMAIN ts : ts[i] \in Answer
  <2>1. AnswersOf(ts, mode, base, layers)
    BY <1>0, <1>6, ResultsFacts
  <2>2. QED
    BY <2>1, Zenon DEF AnswersOf
<1>9. \A i \in DOMAIN rs : i # 1 => ts[i] = rs[i]
  <2>1. Len(layers) \in Nat
    BY DEF FilesOK
  <2>2. QED
    BY <1>7, <1>8, <2>1
<1>10. ts[1] = rs[1] \/ (rs[1] = NoRule /\ ts[1].priority = 0)
  <2>1. \/ Evaluate(mode, daemon \o more) = Evaluate(mode, daemon)
        \/ /\ Evaluate(mode, daemon) = NoRule
           /\ \E i \in 1 .. Len(more) : Evaluate(mode, daemon \o more).priority = more[i].priority
    BY <1>0, EvaluateExtended
  <2>2. base = daemon \o more
    BY <1>2, <1>4
  <2>3. QED
    BY <1>3, <1>7, <1>8, <2>1, <2>2
<1>11. PICK i \in DOMAIN rs \ Dropped(rs) : rs[i].original = "deny"
  <2>1. Decides(EvaluateLayered(mode, daemon, layers), rs)
    BY <1>0, <1>5, LayeredFacts
  <2>2. QED
    BY <1>1, <2>1 DEF Decides
<1>12. ts[i] = rs[i]
  BY <1>9, <1>10, <1>11 DEF NoRule
<1>13. i \notin Dropped(ts)
  <2>1. SUFFICES ASSUME i \in Dropped(ts) PROVE FALSE
    OBVIOUS
  <2>2. PICK j \in DOMAIN ts : /\ ts[i].priority # 0 /\ ts[j].rule = ts[i].rule /\ j # i
                               /\ IF j > i THEN ts[j].priority >= ts[i].priority
                                           ELSE ts[j].priority > ts[i].priority
    BY <1>7, <1>8, <1>11, <2>1, DroppedFacts
  <2>3. ts[i].priority \in Nat /\ ts[j].priority \in Nat
    BY <1>7, <1>8, <1>11, <2>2 DEF Answer
  <2>4. ts[j].priority # 0
    BY <2>2, <2>3
  <2>5. ts[j] = rs[j]
    BY <1>7, <1>8, <1>9, <1>10, <2>2, <2>4
  <2>6. i \in Dropped(rs)
    BY <1>7, <1>8, <1>11, <1>12, <2>2, <2>5, DroppedFacts
  <2>7. QED
    BY <1>11, <2>6
<1>14. \E k \in DOMAIN ts \ Dropped(ts) : ts[k].original = "deny"
  <2>1. i \in DOMAIN ts /\ ts[i].original = "deny"
    BY <1>7, <1>8, <1>11, <1>12
  <2>2. QED
    BY <1>13, <2>1
<1>15. EvaluateLayered(mode, base, layers).original = "deny"
  <2>1. Decides(EvaluateLayered(mode, base, layers), ts)
    BY <1>0, <1>6, <1>14, LayeredFacts
  <2>2. QED
    BY <1>0, <1>6, <1>14, <2>1 DEF Decides
<1>16. QED
  BY <1>4, <1>15

\* Without priorities nothing is set aside, and in firewall mode what a layer
\* denies is denied (EvaluateLayered, applyDaemonModeOverride).
LEMMA FirewallFromFiles ==
  ASSUME FilesOK
  PROVE  FirewallHoldsDenies
<1>0. daemon \in Seq(Gate) /\ repo \in Seq(Gate) /\ layers \in Seq(Seq(Gate))
  BY DEF FilesOK
<1>1. SUFFICES ASSUME ~Priorities, daemonMode = "firewall"
               PROVE  Decision(repo).verdict = "deny" <=> \E r \in SeqValues(Answers) : r.original = "deny"
  BY DEF FirewallHoldsDenies
<1>2. PICK more \in Seq(Gate) : /\ Overlay(daemon, repo) = daemon \o more /\ Overlay(daemon, repo) \in Seq(Gate)
                                /\ Range(more) \subseteq Range(repo)
  BY OverlayFacts DEF FilesOK
<1>3. PICK base \in Seq(Gate) : base = Overlay(daemon, repo)
  BY <1>2
<1>4. \A i \in 1 .. Len(base) : base[i].priority = 0
  <2>1. \A i \in 1 .. Len(daemon) : daemon[i].priority = 0
    BY <1>1 DEF Priorities, FilesOK
  <2>2. \A i \in 1 .. Len(more) : more[i].priority = 0
    <3>1. ASSUME NEW i \in 1 .. Len(more) PROVE more[i].priority = 0
      <4>1. more[i] \in Range(more)
        BY <1>2 DEF Range
      <4>2. PICK j \in DOMAIN repo : more[i] = repo[j]
        BY <1>2, <4>1 DEF Range
      <4>3. QED
        BY <1>1, <4>2 DEF Priorities
    <3>2. QED
      BY <3>1
  <2>3. Len(base) = Len(daemon) + Len(more) /\ Len(daemon) \in Nat /\ Len(more) \in Nat
    BY <1>2, <1>3 DEF FilesOK
  <2>4. \A i \in 1 .. Len(base) : base[i] = IF i <= Len(daemon) THEN daemon[i] ELSE more[i - Len(daemon)]
    BY <1>0, <1>2, <1>3, <2>3
  <2>5. ASSUME NEW i \in 1 .. Len(base) PROVE base[i].priority = 0
    <3>1. CASE i <= Len(daemon)
      <4>1. i \in 1 .. Len(daemon) /\ base[i] = daemon[i]
        BY <2>3, <2>4, <3>1
      <4>2. QED
        BY <2>1, <4>1
    <3>2. CASE ~(i <= Len(daemon))
      <4>1. i - Len(daemon) \in 1 .. Len(more) /\ base[i] = more[i - Len(daemon)]
        BY <2>3, <2>4, <3>2
      <4>2. QED
        BY <2>2, <4>1
    <3>3. QED
      BY <3>1, <3>2
  <2>6. QED
    BY <2>5
<1>5. PICK rs : rs = Results(mode, base, layers)
  OBVIOUS
<1>6. /\ Ranked(rs) /\ DOMAIN rs = 1 .. Len(layers) + 1 /\ rs[1] = Evaluate(mode, base)
      /\ \A i \in 2 .. Len(layers) + 1 : rs[i] = Evaluate("enforce", layers[i - 1])
  <2>1. AnswersOf(rs, mode, base, layers)
    BY <1>0, <1>5, ResultsFacts
  <2>2. QED
    BY <2>1, Zenon DEF AnswersOf
<1>7. NoRule.priority = 0
  BY DEF NoRule
<1>8. \A i \in DOMAIN rs : rs[i].priority = 0
  <2>1. rs[1].priority = 0
    <3>1. \/ Evaluate(mode, base) = NoRule
          \/ \E i \in 1 .. Len(base) : Evaluate(mode, base).priority = base[i].priority
      BY EvaluateFacts, Zenon
    <3>2. QED
      BY <1>4, <1>6, <1>7, <3>1
  <2>2. ASSUME NEW i \in 2 .. Len(layers) + 1 PROVE rs[i].priority = 0
    <3>1. i - 1 \in DOMAIN layers /\ layers[i - 1] \in Seq(Gate)
      BY DEF FilesOK
    <3>2. PICK l \in Seq(Gate) : l = layers[i - 1]
      BY <3>1
    <3>3. \A k \in 1 .. Len(l) : l[k].priority = 0
      BY <1>1, <3>1, <3>2 DEF Priorities
    <3>4. \/ Evaluate("enforce", l) = NoRule
          \/ \E k \in 1 .. Len(l) : Evaluate("enforce", l).priority = l[k].priority
      BY EvaluateFacts
    <3>5. Evaluate("enforce", l).priority = 0
      BY <1>7, <3>3, <3>4
    <3>6. QED
      BY <1>6, <3>2, <3>5
  <2>3. \A i \in DOMAIN rs : i = 1 \/ i \in 2 .. Len(layers) + 1
    BY <1>6 DEF FilesOK
  <2>4. QED
    BY <2>1, <2>2, <2>3
<1>9. Dropped(rs) = {}
  BY <1>6, <1>8, DroppedFacts
<1>10. PICK r : r = EvaluateLayered(mode, base, layers)
  OBVIOUS
<1>11. r \in Answer /\ Plain(r) /\ (r.original = "deny" <=> \E i \in DOMAIN rs : rs[i].original = "deny")
  <2>1. /\ r \in Answer /\ Plain(r)
        /\ r.original = "deny" <=> \E i \in DOMAIN rs \ Dropped(rs) : rs[i].original = "deny"
    <3>1. Decides(r, rs)
      BY <1>0, <1>5, <1>10, LayeredFacts
    <3>2. QED
      BY <1>0, <1>5, <1>10, <3>1 DEF Decides
  <2>2. QED
    BY <1>9, <2>1
<1>12. Decision(repo) = UnderMode(r, "firewall")
  BY <1>1, <1>3, <1>10, Zenon DEF Decision
<1>13. UnderMode(r, "firewall").verdict = "deny" <=> r.original = "deny"
  BY <1>11 DEF UnderMode, Plain, Answer
<1>14. Answers = rs
  BY <1>3, <1>5, Zenon DEF Answers
<1>15. QED
  BY <1>11, <1>12, <1>13, <1>14 DEF SeqValues

-----------------------------------------------------------------------------
(* The walk over the groups *)

\* The names of a session, each once: none is lost or added (dedupeStrings).
FirstsOf(f, s, n) ==
  f = [i \in 0 .. n |-> IF i = 0 THEN <<>>
                        ELSE IF s[i] \in Walk!Values(f[i - 1]) THEN f[i - 1] ELSE Append(f[i - 1], s[i])]

LEMMA FirstsExist ==
  ASSUME NEW s, NEW n \in Nat
  PROVE  \E f : FirstsOf(f, s, n)
<1>1. PICK G : G = {m \in 0 .. n : \E f : FirstsOf(f, s, m)}
  OBVIOUS
<1>2. 0 \in G
  <2>1. FirstsOf([i \in 0 .. 0 |-> <<>>], s, 0)
    BY DEF FirstsOf
  <2>2. QED
    BY <1>1, <2>1
<1>3. ASSUME NEW m \in 1 .. n, m - 1 \in G PROVE m \in G
  <2>1. PICK f : FirstsOf(f, s, m - 1)
    BY <1>1, <1>3
  <2>2. PICK last : last = IF s[m] \in Walk!Values(f[m - 1]) THEN f[m - 1] ELSE Append(f[m - 1], s[m])
    OBVIOUS
  <2>3. PICK g : g = [i \in 0 .. m |-> IF i = m THEN last ELSE f[i]]
    OBVIOUS
  <2>4. \A i \in 0 .. m - 1 : f[i] = IF i = 0 THEN <<>>
          ELSE IF s[i] \in Walk!Values(f[i - 1]) THEN f[i - 1] ELSE Append(f[i - 1], s[i])
    BY <2>1, Zenon DEF FirstsOf
  <2>5. ASSUME NEW i \in 0 .. m
        PROVE  g[i] = IF i = 0 THEN <<>>
                      ELSE IF s[i] \in Walk!Values(g[i - 1]) THEN g[i - 1] ELSE Append(g[i - 1], s[i])
    <3>1. CASE i = m
      <4>1. i # 0 /\ g[i - 1] = f[m - 1] /\ g[i] = last
        BY <2>3, <3>1
      <4>2. QED
        BY <2>2, <3>1, <4>1, Zenon
    <3>2. CASE i # m
      <4>1. i \in 0 .. m - 1 /\ g[i] = f[i] /\ (i # 0 => g[i - 1] = f[i - 1])
        BY <2>3, <3>2
      <4>2. QED
        BY <2>4, <4>1
    <3>3. QED
      BY <3>1, <3>2
  <2>6. g = [i \in 0 .. m |-> IF i = 0 THEN <<>>
               ELSE IF s[i] \in Walk!Values(g[i - 1]) THEN g[i - 1] ELSE Append(g[i - 1], s[i])]
    BY <2>3, <2>5
  <2>7. FirstsOf(g, s, m)
    BY <2>6, Zenon DEF FirstsOf
  <2>8. QED
    BY <1>1, <2>7
<1>4. \A m \in 0 .. n : m \in G
  BY <1>2, <1>3, UpTo
<1>5. n \in 0 .. n
  OBVIOUS
<1>6. QED
  BY <1>1, <1>4, <1>5

LEMMA DedupeFacts ==
  ASSUME NEW U, NEW s \in Seq(U)
  PROVE  Walk!Dedupe(s) \in Seq(U) /\ Range(Walk!Dedupe(s)) = Range(s)
<1>1. PICK n \in Nat : n = Len(s)
  OBVIOUS
<1>2. PICK f : f = CHOOSE g : g = [i \in 0 .. Len(s) |-> IF i = 0 THEN <<>>
        ELSE IF s[i] \in Walk!Values(g[i - 1]) THEN g[i - 1] ELSE Append(g[i - 1], s[i])]
  OBVIOUS
<1>3. Walk!Dedupe(s) = f[n]
  BY <1>1, <1>2, Zenon DEF Walk!Dedupe
<1>4. FirstsOf(f, s, n)
  BY <1>1, <1>2, FirstsExist, Zenon DEF FirstsOf
<1>5. \A i \in 0 .. n : f[i] = IF i = 0 THEN <<>>
        ELSE IF s[i] \in Walk!Values(f[i - 1]) THEN f[i - 1] ELSE Append(f[i - 1], s[i])
  BY <1>4, Zenon DEF FirstsOf
<1>6. PICK first : first = [m \in 0 .. n |-> {s[i] : i \in 1 .. m}]
  OBVIOUS
<1>7. PICK G : G = {m \in 0 .. n : f[m] \in Seq(U) /\ Range(f[m]) = first[m]}
  OBVIOUS
<1>8. 0 \in G
  <2>1. f[0] = <<>> /\ first[0] = {} /\ 0 \in 0 .. n
    BY <1>5, <1>6
  <2>2. f[0] \in Seq(U) /\ Range(f[0]) = {}
    BY <2>1 DEF Range
  <2>3. QED
    BY <1>7, <2>1, <2>2
<1>9. ASSUME NEW m \in 1 .. n, m - 1 \in G PROVE m \in G
  <2>1. m \in 0 .. n /\ m # 0 /\ f[m - 1] \in Seq(U) /\ Range(f[m - 1]) = first[m - 1] /\ s[m] \in U
    BY <1>1, <1>7, <1>9
  <2>2. f[m] = IF s[m] \in Walk!Values(f[m - 1]) THEN f[m - 1] ELSE Append(f[m - 1], s[m])
    BY <1>5, <2>1
  <2>3. first[m] = first[m - 1] \cup {s[m]}
    BY <1>6
  <2>4. Walk!Values(f[m - 1]) = Range(f[m - 1])
    BY DEF Walk!Values, Range
  <2>5. f[m] \in Seq(U) /\ Range(f[m]) = Range(f[m - 1]) \cup {s[m]}
    BY <2>1, <2>2, <2>4, AppendFacts
  <2>6. QED
    BY <1>7, <2>1, <2>3, <2>5
<1>10. n \in G
  <2>1. \A m \in 0 .. n : m \in G
    BY <1>8, <1>9, UpTo
  <2>2. n \in 0 .. n
    OBVIOUS
  <2>3. QED
    BY <2>1, <2>2
<1>11. first[n] = Range(s)
  BY <1>1, <1>6 DEF Range
<1>12. QED
  BY <1>3, <1>7, <1>10, <1>11

\* Inheritance: every group is its own ancestor, and so are its parents, and theirs.
LEMMA InheritsFacts ==
  ASSUME NEW g \in Group, NEW h \in Group, NEW k \in Group
  PROVE  /\ Walk!Inherits(g, g)
         /\ h \in Walk!Values(inherits[g]) => Walk!Inherits(g, h)
         /\ Walk!Inherits(g, h) /\ Walk!Inherits(h, k) => Walk!Inherits(g, k)
<1>1. Walk!Inherits(g, g)
  BY DEF Walk!Inherits
<1>2. ASSUME h \in Walk!Values(inherits[g]) PROVE Walk!Inherits(g, h)
  BY <1>2 DEF Walk!Inherits, Walk!Closed
<1>3. ASSUME Walk!Inherits(g, h), Walk!Inherits(h, k) PROVE Walk!Inherits(g, k)
  BY <1>3 DEF Walk!Inherits
<1>4. QED
  BY <1>1, <1>2, <1>3

LEMMA InheritsStays ==
  ASSUME inherits' = inherits
  PROVE  \A g, h : Walk!Inherits(g, h)' <=> Walk!Inherits(g, h)
<1>1. \A S : Walk!Closed(S)' <=> Walk!Closed(S)
  BY DEF Walk!Closed, Walk!Values
<1>2. QED
  BY <1>1 DEF Walk!Inherits

Frame == [group : Group, seen : Nat]
Known == visited \cup visiting
\* h is a group of the session or an ancestor of one.
Reached(h) == \E g \in Walk!Values(session) \cap Group : Walk!Inherits(g, h)

WType ==
  /\ inherits \in [Group -> Seq(Group)] /\ session \in Seq(Name) /\ roots \in Seq(Name)
  /\ Range(roots) = Range(session) /\ at \in 0 .. Len(roots)
  /\ stack \in Seq(Frame) /\ visited \subseteq Group /\ out \in Seq(Group)
\* Every group under way is on the stack, once, and none of them is placed.
WStack ==
  /\ visiting = {stack[i].group : i \in DOMAIN stack} /\ visiting \cap visited = {}
  /\ \A i, j \in DOMAIN stack : stack[i].group = stack[j].group => i = j
WOut == visited = Range(out) /\ Once(out)
\* The stack is a chain of inheritance, from a group of the session.
WChain ==
  /\ \A i, j \in DOMAIN stack : i <= j => Walk!Inherits(stack[i].group, stack[j].group)
  /\ \A h \in Known : Reached(h)
\* Every parent that has been seen, and every root, is known.
WSeen ==
  /\ \A i \in DOMAIN stack : \A k \in 1 .. stack[i].seen : inherits[stack[i].group][k] \in Known
  /\ \A g \in visited : Walk!Values(inherits[g]) \subseteq Known
  /\ \A i \in 1 .. at : roots[i] \in Group => roots[i] \in Known
WalkInv == WType /\ WStack /\ WOut /\ WChain /\ WSeen /\ ParentsFirst

\* The groups placed before stay placed, with their parents.
LEMMA ParentsStay ==
  ASSUME ParentsFirst, inherits' = inherits, out' = out
  PROVE  ParentsFirst'
<1>1. SUFFICES ASSUME NEW g \in Walk!Values(out), NEW p \in Group, p \in Walk!Values(inherits[g]), p # g
               PROVE  Walk!Before(p, g)' \/ Walk!Inherits(p, g)'
  BY DEF ParentsFirst, Walk!ParentsFirst, Walk!Values
<1>2. Walk!Before(p, g) \/ Walk!Inherits(p, g)
  BY <1>1, Zenon DEF ParentsFirst, Walk!ParentsFirst
<1>3. Walk!Before(p, g) => Walk!Before(p, g)'
  BY DEF Walk!Before
<1>4. Walk!Inherits(p, g)' <=> Walk!Inherits(p, g)
  BY InheritsStays
<1>5. QED
  BY <1>2, <1>3, <1>4

LEMMA WalkStutters ==
  ASSUME WalkInv, UNCHANGED walkVars
  PROVE  WalkInv'
<1>1. inherits' = inherits /\ UNCHANGED <<session, roots, at, stack, visiting, visited, out>>
  BY DEF walkVars
<1>2. \A g, h : Walk!Inherits(g, h)' <=> Walk!Inherits(g, h)
  BY <1>1, InheritsStays
<1>3. WType' /\ WStack' /\ WOut'
  BY <1>1 DEF WalkInv, WType, WStack, WOut, Once
<1>4. WChain'
  BY <1>1, <1>2, Zenon DEF WalkInv, WChain, Reached, Known, Walk!Values
<1>5. WSeen'
  BY <1>1 DEF WalkInv, WSeen, Known, Walk!Values
<1>6. ParentsFirst'
  BY <1>1, ParentsStay DEF WalkInv
<1>7. QED
  BY <1>3, <1>4, <1>5, <1>6 DEF WalkInv

LEMMA ChainIs ==
  ASSUME inherits' = inherits, NEW i, NEW j, Walk!Inherits(stack'[i].group, stack'[j].group)
  PROVE  Walk!Inherits(stack[i].group, stack[j].group)'
BY DEF Walk!Inherits, Walk!Closed, Walk!Values

\* A visit begins: p, not yet known, goes on the stack, above s0, the stack with
\* its innermost frame having seen p.
LEMMA PushKeeps ==
  ASSUME WalkInv, NEW s0 \in Seq(Frame), Len(s0) = Len(stack),
         \A i \in DOMAIN s0 : s0[i].group = stack[i].group,
         NEW p \in Group, p \notin Known, Reached(p),
         \A i \in DOMAIN stack : Walk!Inherits(stack[i].group, p),
         \A i \in DOMAIN s0 : \A k \in 1 .. s0[i].seen : inherits[s0[i].group][k] \in Known \cup {p},
         \A i \in 1 .. at' : roots[i] \in Group => roots[i] \in Known \cup {p},
         at' \in 0 .. Len(roots), stack' = Append(s0, [group |-> p, seen |-> 0]),
         visiting' = visiting \cup {p}, UNCHANGED <<inherits, session, roots, visited, out>>
  PROVE  WalkInv'
<1>1. PICK n \in Nat : n = Len(stack)
  BY DEF WalkInv, WType
<1>2. PICK f : f = [group |-> p, seen |-> 0]
  OBVIOUS
<1>3. f \in Frame /\ f.group = p /\ f.seen = 0
  BY <1>2 DEF Frame
<1>4. /\ stack' \in Seq(Frame) /\ DOMAIN stack' = 1 .. n + 1 /\ DOMAIN stack = 1 .. n /\ DOMAIN s0 = 1 .. n
      /\ stack'[n + 1] = f /\ \A i \in 1 .. n : stack'[i] = s0[i]
  <2>1. stack' \in Seq(Frame) /\ Len(stack') = n + 1 /\ stack'[n + 1] = f /\ \A i \in 1 .. n : stack'[i] = s0[i]
    BY <1>1, <1>2, <1>3
  <2>2. DOMAIN stack = 1 .. n /\ DOMAIN s0 = 1 .. n
    BY <1>1 DEF WalkInv, WType
  <2>3. QED
    BY <2>1, <2>2
<1>5. /\ \A i \in 1 .. n : stack'[i].group = stack[i].group /\ stack'[i].seen = s0[i].seen
      /\ stack'[n + 1].group = p /\ stack'[n + 1].seen = 0
  BY <1>3, <1>4
<1>6. \A i \in 1 .. n + 1 : i \in 1 .. n \/ i = n + 1
  OBVIOUS
<1>7. Known' = Known \cup {p}
  BY DEF Known
<1>8. WType'
  <2>1. /\ inherits \in [Group -> Seq(Group)] /\ session \in Seq(Name) /\ roots \in Seq(Name)
        /\ Range(roots) = Range(session) /\ visited \subseteq Group /\ out \in Seq(Group)
    BY DEF WalkInv, WType
  <2>2. QED
    BY <1>4, <2>1 DEF WType
<1>9. WStack'
  <2>1. /\ visiting = {stack[i].group : i \in 1 .. n} /\ visiting \cap visited = {} /\ p \notin visiting
        /\ p \notin visited /\ \A i, j \in 1 .. n : stack[i].group = stack[j].group => i = j
    BY <1>4 DEF WalkInv, WStack, Known
  <2>2. PICK gs : gs = [i \in 1 .. n + 1 |-> stack'[i].group]
    OBVIOUS
  <2>3. gs[n + 1] = p /\ \A i \in 1 .. n : gs[i] = stack[i].group /\ gs[i] \in visiting
    BY <1>5, <2>1, <2>2
  <2>4. \A i, j \in 1 .. n + 1 : gs[i] = gs[j] => i = j
    BY <1>6, <2>1, <2>3
  <2>5. {gs[i] : i \in 1 .. n + 1} = visiting'
    BY <1>6, <2>1, <2>3
  <2>6. visiting' \cap visited' = {}
    BY <2>1
  <2>7. visiting' = {stack'[i].group : i \in 1 .. n + 1}
    BY <2>2, <2>5
  <2>8. \A i, j \in 1 .. n + 1 : stack'[i].group = stack'[j].group => i = j
    BY <2>2, <2>4
  <2>9. QED
    BY <1>4, <2>6, <2>7, <2>8 DEF WStack
<1>10. WOut' /\ ParentsFirst'
  <2>1. ParentsFirst'
    BY ParentsStay DEF WalkInv
  <2>2. QED
    BY <2>1 DEF WalkInv, WOut, Once
<1>11. \A g, h : Walk!Inherits(g, h)' <=> Walk!Inherits(g, h)
  BY InheritsStays
<1>12. WChain'
  <2>1. ASSUME NEW i \in 1 .. n + 1, NEW j \in 1 .. n + 1, i <= j
        PROVE  Walk!Inherits(stack'[i].group, stack'[j].group)
    <3>1. CASE j \in 1 .. n
      <4>1. i \in 1 .. n
        BY <2>1, <3>1
      <4>2. Walk!Inherits(stack[i].group, stack[j].group)
        BY <1>4, <2>1, <3>1, <4>1 DEF WalkInv, WChain
      <4>3. QED
        BY <1>5, <3>1, <4>1, <4>2
    <3>2. CASE j = n + 1 /\ i \in 1 .. n
      <4>1. Walk!Inherits(stack[i].group, p)
        BY <1>4, <3>2
      <4>2. QED
        BY <1>5, <3>2, <4>1
    <3>3. CASE j = n + 1 /\ i = n + 1
      BY <1>5, <3>3, InheritsFacts
    <3>4. QED
      BY <1>6, <3>1, <3>2, <3>3
  <2>2. \A h \in Known \cup {p} : Reached(h)
    BY DEF WalkInv, WChain
  <2>3. \A h : Reached(h)' <=> Reached(h)
    BY <1>11, Zenon DEF Reached, Walk!Values
  <2>4. \A h \in Known' : Reached(h)'
    BY <1>7, <2>2, <2>3, Zenon
  <2>5. \A i, j \in DOMAIN stack' : i <= j => Walk!Inherits(stack[i].group, stack[j].group)'
    <3>1. ASSUME NEW i \in 1 .. n + 1, NEW j \in 1 .. n + 1, i <= j
          PROVE  Walk!Inherits(stack[i].group, stack[j].group)'
      <4>1. Walk!Inherits(stack'[i].group, stack'[j].group)
        BY <2>1, <3>1
      <4>2. QED
        BY <4>1, ChainIs
    <3>2. QED
      BY <1>4, <3>1
  <2>6. QED
    BY <2>4, <2>5, Zenon DEF WChain
<1>13. WSeen'
  <2>1. \A i \in DOMAIN stack' : \A k \in 1 .. stack'[i].seen : inherits[stack'[i].group][k] \in Known'
    <3>1. ASSUME NEW i \in 1 .. n, NEW k \in 1 .. stack'[i].seen PROVE inherits[stack'[i].group][k] \in Known'
      <4>1. stack'[i].seen = s0[i].seen /\ stack'[i].group = s0[i].group /\ i \in DOMAIN s0
        BY <1>4, <1>5
      <4>2. QED
        BY <1>7, <3>1, <4>1
    <3>2. stack'[n + 1].seen = 0
      BY <1>5
    <3>3. 1 .. 0 = {}
      OBVIOUS
    <3>4. \A k \in 1 .. stack'[n + 1].seen : inherits[stack'[n + 1].group][k] \in Known'
      BY <3>2, <3>3
    <3>5. QED
      BY <1>4, <1>6, <3>1, <3>4
  <2>2. \A g \in visited : Walk!Values(inherits[g]) \subseteq Known'
    BY <1>7 DEF WalkInv, WSeen
  <2>3. \A i \in 1 .. at' : roots[i] \in Group => roots[i] \in Known'
    BY <1>7
  <2>4. QED
    BY <2>1, <2>2, <2>3 DEF WSeen, Walk!Values
<1>14. QED
  BY <1>8, <1>9, <1>10, <1>12, <1>13 DEF WalkInv

LEMMA VisitRootKeeps ==
  ASSUME WalkInv, Walk!VisitRoot
  PROVE  WalkInv'
<1>1. PICK p : p = roots[at + 1]
  OBVIOUS
<1>2. stack = <<>> /\ at < Len(roots) /\ at' = at + 1 /\ UNCHANGED <<inherits, session, roots, visited, out>>
  BY DEF Walk!VisitRoot
<1>3. at' \in 0 .. Len(roots) /\ at + 1 \in DOMAIN roots /\ p \in Name /\ at \in Nat
  BY <1>1, <1>2 DEF WalkInv, WType
<1>4. \A i \in 1 .. at : roots[i] \in Group => roots[i] \in Known
  BY DEF WalkInv, WSeen
<1>5. CASE Walk!Skips(p)
  <2>1. UNCHANGED <<stack, visiting>>
    BY <1>1, <1>5 DEF Walk!VisitRoot
  <2>2. p \in Group => p \in Known
    BY <1>5 DEF Walk!Skips, Known
  <2>3. \A i \in 1 .. at' : roots[i] \in Group => roots[i] \in Known
    BY <1>1, <1>2, <1>3, <1>4, <2>2
  <2>4. WType' /\ WStack' /\ WOut'
    BY <1>2, <1>3, <2>1 DEF WalkInv, WType, WStack, WOut, Once
  <2>5. Known' = Known /\ \A g, h : Walk!Inherits(g, h)' <=> Walk!Inherits(g, h)
    BY <1>2, <2>1, InheritsStays DEF Known
  <2>6. WChain'
    BY <1>2, <2>1, <2>5, Zenon DEF WalkInv, WChain, Reached, Walk!Values
  <2>7. WSeen'
    BY <1>2, <2>1, <2>3, <2>5 DEF WalkInv, WSeen, Walk!Values
  <2>8. ParentsFirst'
    BY <1>2, ParentsStay DEF WalkInv
  <2>9. QED
    BY <2>4, <2>6, <2>7, <2>8 DEF WalkInv
<1>6. CASE ~Walk!Skips(p)
  <2>1. stack' = Append(stack, [group |-> p, seen |-> 0]) /\ visiting' = visiting \cup {p}
    BY <1>1, <1>6 DEF Walk!VisitRoot, Walk!Enter
  <2>2. p \in Group /\ p \notin Known
    BY <1>6 DEF Walk!Skips, Known
  <2>3. Reached(p)
    <3>1. p \in Range(session)
      BY <1>1, <1>3 DEF WalkInv, WType, Range
    <3>2. p \in Walk!Values(session)
      BY <3>1 DEF Range, Walk!Values
    <3>3. Walk!Inherits(p, p)
      BY <2>2, InheritsFacts
    <3>4. QED
      BY <2>2, <3>2, <3>3 DEF Reached
  <2>4. \A i \in 1 .. at' : roots[i] \in Group => roots[i] \in Known \cup {p}
    BY <1>1, <1>2, <1>3, <1>4
  <2>5. stack \in Seq(Frame) /\ DOMAIN stack = {}
    BY <1>2 DEF WalkInv, WType
  <2>6. QED
    BY <1>2, <1>3, <2>1, <2>2, <2>3, <2>4, <2>5, PushKeeps
<1>7. QED
  BY <1>5, <1>6

LEMMA VisitParentKeeps ==
  ASSUME WalkInv, Walk!VisitParent
  PROVE  WalkInv'
<1>1. PICK n \in Nat : n = Len(stack) /\ DOMAIN stack = 1 .. n
  BY DEF WalkInv, WType
<1>2. PICK frame : frame = stack[n]
  OBVIOUS
<1>3. Walk!Last(stack) = frame
  BY <1>1, <1>2 DEF Walk!Last
<1>4. stack # <<>> /\ n \in 1 .. n /\ frame \in Frame /\ n # 0
  <2>1. stack # <<>>
    BY DEF Walk!VisitParent
  <2>2. stack \in Seq(Frame)
    BY DEF WalkInv, WType
  <2>3. n # 0
    BY <1>1, <2>1, <2>2
  <2>4. QED
    BY <1>1, <1>2, <2>1, <2>2, <2>3
<1>5. PICK called : called = [stack EXCEPT ![n].seen = @ + 1]
  OBVIOUS
<1>6. PICK p : p = inherits[frame.group][frame.seen + 1]
  OBVIOUS
<1>7. /\ frame.seen < Len(inherits[frame.group])
      /\ IF Walk!Skips(p) THEN stack' = called /\ visiting' = visiting
         ELSE stack' = Append(called, [group |-> p, seen |-> 0]) /\ visiting' = visiting \cup {p}
      /\ UNCHANGED <<inherits, session, roots, at, visited, out>>
  BY <1>1, <1>3, <1>5, <1>6 DEF Walk!VisitParent
<1>8. /\ frame.group \in Group /\ frame.seen \in Nat /\ inherits[frame.group] \in Seq(Group)
      /\ frame.seen + 1 \in DOMAIN inherits[frame.group]
      /\ p \in Group /\ p \in Walk!Values(inherits[frame.group])
  <2>1. frame.group \in Group /\ frame.seen \in Nat
    BY <1>4 DEF Frame
  <2>2. inherits[frame.group] \in Seq(Group)
    BY <2>1 DEF WalkInv, WType
  <2>3. frame.seen + 1 \in DOMAIN inherits[frame.group]
    BY <1>7, <2>1, <2>2
  <2>4. QED
    BY <1>6, <2>1, <2>2, <2>3 DEF Walk!Values
<1>9. /\ called \in Seq(Frame) /\ Len(called) = n /\ DOMAIN called = 1 .. n
      /\ \A i \in 1 .. n : called[i].group = stack[i].group
      /\ called[n].seen = frame.seen + 1 /\ \A i \in 1 .. n : i # n => called[i] = stack[i]
  <2>0. stack \in Seq(Frame)
    BY DEF WalkInv, WType
  <2>1. [frame EXCEPT !.seen = @ + 1] \in Frame
    BY <1>4 DEF Frame
  <2>2. called = [stack EXCEPT ![n] = [frame EXCEPT !.seen = @ + 1]]
    BY <1>2, <1>5
  <2>3. called \in Seq(Frame) /\ Len(called) = n /\ DOMAIN called = 1 .. n
    BY <1>1, <1>4, <2>0, <2>1, <2>2
  <2>4. called[n] = [frame EXCEPT !.seen = @ + 1] /\ \A i \in 1 .. n : i # n => called[i] = stack[i]
    BY <1>1, <1>4, <2>0, <2>2
  <2>5. called[n].group = frame.group /\ called[n].seen = frame.seen + 1
    BY <1>4, <2>4 DEF Frame
  <2>6. QED
    BY <1>2, <2>3, <2>4, <2>5
<1>10. \A i \in 1 .. n : \A k \in 1 .. called[i].seen : inherits[called[i].group][k] \in Known \cup {p}
  <2>1. ASSUME NEW i \in 1 .. n, NEW k \in 1 .. called[i].seen
        PROVE  inherits[called[i].group][k] \in Known \cup {p}
    <3>1. \A j \in 1 .. stack[i].seen : inherits[stack[i].group][j] \in Known
      BY <1>1 DEF WalkInv, WSeen
    <3>2. CASE i # n
      BY <1>9, <2>1, <3>1, <3>2
    <3>3. CASE i = n
      <4>1. k \in 1 .. stack[n].seen \/ k = frame.seen + 1
        BY <1>2, <1>8, <1>9, <2>1, <3>3
      <4>2. called[n].group = frame.group /\ stack[n] = frame
        BY <1>2, <1>4, <1>9
      <4>3. QED
        BY <1>6, <3>1, <3>3, <4>1, <4>2
    <3>4. QED
      BY <3>2, <3>3
  <2>2. QED
    BY <2>1
<1>11. \A i \in 1 .. n : Walk!Inherits(stack[i].group, frame.group) /\ stack[i].group \in Group
  <2>1. \A i \in 1 .. n : i <= n
    OBVIOUS
  <2>2. \A i \in 1 .. n : Walk!Inherits(stack[i].group, stack[n].group)
    BY <1>1, <1>4, <2>1 DEF WalkInv, WChain
  <2>3. \A i \in 1 .. n : stack[i] \in Frame
    BY <1>1 DEF WalkInv, WType
  <2>4. QED
    BY <1>2, <2>2, <2>3 DEF Frame
<1>12. CASE Walk!Skips(p)
  <2>1. stack' = called /\ visiting' = visiting
    BY <1>7, <1>12
  <2>2. Known' = Known /\ p \in Known
    BY <1>7, <1>8, <1>12, <2>1 DEF Known, Walk!Skips
  <2>3. WType' /\ WOut'
    BY <1>7, <1>9, <2>1 DEF WalkInv, WType, WOut, Once
  <2>4. \A i \in 1 .. n : stack'[i].group = stack[i].group /\ stack'[i] = called[i]
    BY <1>9, <2>1
  <2>5. DOMAIN stack' = 1 .. n
    BY <1>9, <2>1
  <2>6. WStack'
    <3>1. {stack'[i].group : i \in 1 .. n} = {stack[i].group : i \in 1 .. n}
      BY <2>4
    <3>2. \A i, j \in 1 .. n : stack'[i].group = stack'[j].group => i = j
      BY <1>1, <2>4, Zenon DEF WalkInv, WStack
    <3>3. visiting' = {stack'[i].group : i \in DOMAIN stack'}
      BY <1>1, <2>1, <2>5, <3>1 DEF WalkInv, WStack
    <3>4. visiting' \cap visited' = {}
      BY <1>7, <2>1 DEF WalkInv, WStack
    <3>5. QED
      BY <2>5, <3>2, <3>3, <3>4 DEF WStack
  <2>7. \A g, h : Walk!Inherits(g, h)' <=> Walk!Inherits(g, h)
    BY <1>7, InheritsStays
  <2>8. WChain'
    <3>1. ASSUME NEW i \in 1 .. n, NEW j \in 1 .. n, i <= j
          PROVE  Walk!Inherits(stack[i].group, stack[j].group)'
      <4>1. Walk!Inherits(stack[i].group, stack[j].group)
        BY <1>1, <3>1 DEF WalkInv, WChain
      <4>2. Walk!Inherits(stack'[i].group, stack'[j].group)
        BY <2>4, <4>1
      <4>3. QED
        BY <1>7, <4>2, ChainIs
    <3>2. \A h \in Known' : Reached(h)'
      BY <1>7, <2>2, <2>7, Zenon DEF WalkInv, WChain, Reached, Walk!Values
    <3>3. QED
      BY <2>5, <3>1, <3>2 DEF WChain
  <2>9. WSeen'
    <3>1. \A i \in DOMAIN stack' : \A k \in 1 .. stack'[i].seen : inherits[stack'[i].group][k] \in Known'
      BY <1>10, <2>2, <2>4, <2>5
    <3>2. \A g \in visited : Walk!Values(inherits[g]) \subseteq Known'
      BY <2>2 DEF WalkInv, WSeen
    <3>3. \A i \in 1 .. at : roots[i] \in Group => roots[i] \in Known'
      BY <2>2 DEF WalkInv, WSeen
    <3>4. QED
      BY <1>7, <3>1, <3>2, <3>3 DEF WSeen, Walk!Values
  <2>10. ParentsFirst'
    BY <1>7, ParentsStay DEF WalkInv
  <2>11. QED
    BY <2>3, <2>6, <2>8, <2>9, <2>10 DEF WalkInv
<1>13. CASE ~Walk!Skips(p)
  <2>1. stack' = Append(called, [group |-> p, seen |-> 0]) /\ visiting' = visiting \cup {p}
    BY <1>7, <1>13
  <2>2. p \notin Known
    BY <1>13 DEF Walk!Skips, Known
  <2>3. Walk!Inherits(frame.group, p)
    BY <1>8, InheritsFacts
  <2>4. \A i \in 1 .. n : Walk!Inherits(stack[i].group, p)
    BY <1>8, <1>11, <2>3, InheritsFacts
  <2>5. Reached(p)
    <3>1. frame.group \in Known
      BY <1>1, <1>2, <1>4 DEF WalkInv, WStack, Known
    <3>2. PICK g \in Walk!Values(session) \cap Group : Walk!Inherits(g, frame.group)
      BY <3>1 DEF WalkInv, WChain, Reached
    <3>3. Walk!Inherits(g, p)
      BY <1>8, <2>3, <3>2, InheritsFacts
    <3>4. QED
      BY <3>2, <3>3 DEF Reached
  <2>6. /\ at' \in 0 .. Len(roots)
        /\ \A i \in 1 .. at' : roots[i] \in Group => roots[i] \in Known \cup {p}
    BY <1>7 DEF WalkInv, WType, WSeen
  <2>7. QED
    BY <1>1, <1>7, <1>8, <1>9, <1>10, <2>1, <2>2, <2>4, <2>5, <2>6, PushKeeps
<1>14. QED
  BY <1>12, <1>13

\* The innermost visit ends: its group is placed after the ones it has seen.
LEMMA LeaveKeeps ==
  ASSUME WalkInv, Walk!Leave
  PROVE  WalkInv'
<1>1. PICK n \in Nat : n = Len(stack) /\ DOMAIN stack = 1 .. n
  BY DEF WalkInv, WType
<1>2. PICK frame : frame = stack[n]
  OBVIOUS
<1>3. Walk!Last(stack) = frame
  BY <1>1, <1>2 DEF Walk!Last
<1>4. stack # <<>> /\ n \in 1 .. n /\ frame \in Frame /\ n # 0
  <2>1. stack # <<>>
    BY DEF Walk!Leave
  <2>2. stack \in Seq(Frame)
    BY DEF WalkInv, WType
  <2>3. n # 0
    BY <1>1, <2>1, <2>2
  <2>4. QED
    BY <1>1, <1>2, <2>1, <2>2, <2>3
<1>5. PICK g : g = frame.group
  OBVIOUS
<1>6. /\ frame.seen = Len(inherits[g]) /\ visiting' = visiting \ {g} /\ visited' = visited \cup {g}
      /\ out' = Append(out, g) /\ stack' = Walk!Front(stack) /\ UNCHANGED <<inherits, session, roots, at>>
  BY <1>3, <1>5 DEF Walk!Leave
<1>7. g \in Group /\ g \in visiting /\ g \notin visited /\ inherits[g] \in Seq(Group)
  BY <1>1, <1>2, <1>4, <1>5 DEF Frame, WalkInv, WStack, WType
<1>8. Known' = Known
  BY <1>6, <1>7 DEF Known
<1>9. /\ stack' \in Seq(Frame) /\ DOMAIN stack' = 1 .. n - 1
      /\ \A i \in 1 .. n - 1 : stack'[i] = stack[i] /\ i \in 1 .. n /\ i # n
  <2>1. stack \in Seq(Frame)
    BY DEF WalkInv, WType
  <2>2. stack' = SubSeq(stack, 1, n - 1)
    BY <1>1, <1>6 DEF Walk!Front
  <2>3. QED
    BY <1>1, <1>4, <2>1, <2>2
<1>10. out \in Seq(Group) /\ out' \in Seq(Group) /\ Range(out') = visited' /\ Once(out')
  <2>1. out \in Seq(Group) /\ Range(out) = visited /\ Once(out)
    BY DEF WalkInv, WType, WOut
  <2>2. QED
    BY <1>6, <1>7, <2>1, AppendFacts
<1>11. WType'
  <2>1. /\ inherits \in [Group -> Seq(Group)] /\ session \in Seq(Name) /\ roots \in Seq(Name)
        /\ Range(roots) = Range(session) /\ visited \subseteq Group /\ at \in 0 .. Len(roots)
    BY DEF WalkInv, WType
  <2>2. QED
    BY <1>6, <1>7, <1>9, <1>10, <2>1 DEF WType
<1>12. WOut'
  BY <1>10 DEF WOut, Once
<1>13. WStack'
  <2>1. /\ visiting = {stack[i].group : i \in 1 .. n} /\ visiting \cap visited = {}
        /\ \A i, j \in 1 .. n : stack[i].group = stack[j].group => i = j
    BY <1>1 DEF WalkInv, WStack
  <2>2. PICK gs : gs = [i \in 1 .. n |-> stack[i].group]
    OBVIOUS
  <2>3. visiting = {gs[i] : i \in 1 .. n} /\ gs[n] = g /\ \A i, j \in 1 .. n : gs[i] = gs[j] => i = j
    BY <1>2, <1>4, <1>5, <2>1, <2>2
  <2>4. \A i \in 1 .. n : i \in 1 .. n - 1 \/ i = n
    BY <1>1
  <2>5. visiting' = {gs[i] : i \in 1 .. n - 1}
    BY <1>4, <1>6, <1>9, <2>3, <2>4
  <2>6. \A i \in 1 .. n - 1 : gs[i] = stack'[i].group
    BY <1>9, <2>2
  <2>7. visiting' = {stack'[i].group : i \in 1 .. n - 1}
    BY <2>5, <2>6
  <2>8. \A i, j \in 1 .. n - 1 : stack'[i].group = stack'[j].group => i = j
    BY <1>9, <2>3, <2>6
  <2>9. visiting' \cap visited' = {}
    BY <1>6, <2>1
  <2>10. QED
    BY <1>9, <2>7, <2>8, <2>9 DEF WStack
<1>14. \A a, b : Walk!Inherits(a, b)' <=> Walk!Inherits(a, b)
  BY <1>6, InheritsStays
<1>15. WChain'
  <2>1. ASSUME NEW i \in 1 .. n - 1, NEW j \in 1 .. n - 1, i <= j
        PROVE  Walk!Inherits(stack[i].group, stack[j].group)'
    <3>1. Walk!Inherits(stack[i].group, stack[j].group)
      BY <1>1, <1>9, <2>1 DEF WalkInv, WChain
    <3>2. Walk!Inherits(stack'[i].group, stack'[j].group)
      BY <1>9, <3>1
    <3>3. QED
      BY <1>6, <3>2, ChainIs
  <2>2. \A h \in Known' : Reached(h)'
    BY <1>6, <1>8, <1>14, Zenon DEF WalkInv, WChain, Reached, Walk!Values
  <2>3. QED
    BY <1>9, <2>1, <2>2 DEF WChain
<1>16. Walk!Values(inherits[g]) \subseteq Known
  <2>1. \A k \in 1 .. frame.seen : inherits[g][k] \in Known
    BY <1>1, <1>2, <1>4, <1>5 DEF WalkInv, WSeen
  <2>2. DOMAIN inherits[g] = 1 .. frame.seen
    BY <1>6, <1>7
  <2>3. QED
    BY <2>1, <2>2 DEF Walk!Values
<1>17. WSeen'
  <2>1. \A i \in DOMAIN stack' : \A k \in 1 .. stack'[i].seen : inherits[stack'[i].group][k] \in Known'
    BY <1>1, <1>8, <1>9 DEF WalkInv, WSeen
  <2>2. \A h \in visited' : Walk!Values(inherits[h]) \subseteq Known'
    BY <1>6, <1>8, <1>16 DEF WalkInv, WSeen
  <2>3. \A i \in 1 .. at : roots[i] \in Group => roots[i] \in Known'
    BY <1>8 DEF WalkInv, WSeen
  <2>4. QED
    BY <1>6, <2>1, <2>2, <2>3 DEF WSeen, Walk!Values
<1>18. ParentsFirst'
  <2>1. PICK m \in Nat : m = Len(out)
    BY <1>10
  <2>2. /\ DOMAIN out = 1 .. m /\ DOMAIN out' = 1 .. m + 1 /\ out'[m + 1] = g
        /\ \A i \in 1 .. m : out'[i] = out[i] /\ i \in 1 .. m + 1 /\ i < m + 1
    BY <1>6, <1>7, <1>10, <2>1
  <2>3. SUFFICES ASSUME NEW h \in Walk!Values(out'), NEW p \in Group, p \in Walk!Values(inherits[h]), p # h
                 PROVE  Walk!Before(p, h)' \/ Walk!Inherits(p, h)
    <3>1. \A p, h : Walk!Inherits(p, h)' <=> Walk!Inherits(p, h)
      BY <1>14
    <3>2. inherits' = inherits
      BY <1>6
    <3>3. \A p, h : (h \in Walk!Values(out') /\ p \in Group /\ p \in Walk!Values(inherits[h]) /\ p # h)
                      => Walk!Before(p, h)' \/ Walk!Inherits(p, h)'
      BY <2>3, <3>1, Zenon
    <3>4. QED
      BY <3>2, <3>3 DEF ParentsFirst, Walk!ParentsFirst, Walk!Values
  <2>4. CASE h = g
    <3>1. p \in Known
      BY <1>16, <2>3, <2>4
    <3>2. CASE p \in visited
      <4>1. PICK i \in 1 .. m : out[i] = p
        BY <2>2, <3>2 DEF WalkInv, WOut, Range
      <4>2. i < m + 1 /\ out'[i] = p /\ out'[m + 1] = h /\ i \in DOMAIN out' /\ m + 1 \in DOMAIN out'
        BY <2>1, <2>2, <2>4, <4>1
      <4>3. Walk!Before(p, h)'
        BY <4>2 DEF Walk!Before
      <4>4. QED
        BY <4>3
    <3>3. CASE p \in visiting
      <4>1. PICK i \in 1 .. n : stack[i].group = p
        BY <1>1, <3>3 DEF WalkInv, WStack
      <4>2. i <= n /\ stack[n].group = g
        BY <1>2, <1>5
      <4>3. Walk!Inherits(stack[i].group, stack[n].group)
        BY <1>1, <1>4, <4>1, <4>2 DEF WalkInv, WChain
      <4>4. QED
        BY <2>4, <4>1, <4>2, <4>3
    <3>4. QED
      BY <3>1, <3>2, <3>3 DEF Known
  <2>5. CASE h # g
    <3>1. PICK k \in DOMAIN out' : out'[k] = h
      BY <2>3 DEF Walk!Values
    <3>2. k \in 1 .. m /\ out[k] = h
      BY <2>1, <2>2, <2>5, <3>1
    <3>3. h \in Walk!Values(out)
      BY <2>2, <3>2 DEF Walk!Values
    <3>4. Walk!Before(p, h) \/ Walk!Inherits(p, h)
      BY <2>3, <3>3, Zenon DEF WalkInv, ParentsFirst, Walk!ParentsFirst
    <3>5. ASSUME Walk!Before(p, h) PROVE Walk!Before(p, h)'
      <4>1. PICK i \in 1 .. m, j \in 1 .. m : i < j /\ out[i] = p /\ out[j] = h
        BY <2>2, <3>5 DEF Walk!Before
      <4>2. i \in DOMAIN out' /\ j \in DOMAIN out' /\ out'[i] = p /\ out'[j] = h
        BY <2>2, <4>1
      <4>3. QED
        BY <4>1, <4>2 DEF Walk!Before
    <3>6. QED
      BY <3>4, <3>5
  <2>6. QED
    BY <2>4, <2>5
<1>19. QED
  BY <1>11, <1>12, <1>13, <1>15, <1>17, <1>18 DEF WalkInv

LEMMA WalkInit ==
  ASSUME Walk!Init
  PROVE  WalkInv
<1>1. inherits \in [Group -> Walk!SeqUpTo(Group, MaxParents)] /\ session \in Walk!SeqUpTo(Name, MaxRoots)
  BY DEF Walk!Init
<1>2. /\ roots = Walk!Dedupe(session) /\ at = 0 /\ stack = <<>> /\ visiting = {} /\ visited = {} /\ out = <<>>
  BY DEF Walk!Init
<1>3. \A S, k : Walk!SeqUpTo(S, k) \subseteq Seq(S)
  BY DEF Walk!SeqUpTo
<1>4. session \in Seq(Name)
  BY <1>1, <1>3
<1>5. inherits \in [Group -> Seq(Group)]
  <2>1. Walk!SeqUpTo(Group, MaxParents) \subseteq Seq(Group)
    BY <1>3
  <2>2. QED
    BY <1>1, <2>1
<1>6. roots \in Seq(Name) /\ Range(roots) = Range(session)
  BY <1>2, <1>4, DedupeFacts
<1>7. WType
  BY <1>2, <1>4, <1>5, <1>6 DEF WType
<1>8. WStack /\ WOut
  BY <1>2 DEF WStack, WOut, Range, Once
<1>9. WChain /\ WSeen
  BY <1>2 DEF WChain, WSeen, Known
<1>10. ParentsFirst
  BY <1>2 DEF ParentsFirst, Walk!ParentsFirst, Walk!Values
<1>11. QED
  BY <1>7, <1>8, <1>9, <1>10 DEF WalkInv

\* At the end the groups of the session and their ancestors are placed.
LEMMA WalkCompletes ==
  ASSUME WalkInv
  PROVE  Complete
<1>1. SUFFICES ASSUME stack = <<>>, at = Len(roots)
               PROVE  Walk!Values(out) = {h \in Group : \E g \in Walk!Values(session) \cap Group : Walk!Inherits(g, h)}
  BY DEF Complete, Walk!Complete, Walk!Done
<1>2. visiting = {} /\ Known = visited
  BY <1>1 DEF WalkInv, WStack, Known
<1>3. Walk!Values(out) = visited /\ visited \subseteq Group
  BY DEF WalkInv, WOut, WType, Walk!Values, Range
<1>4. ASSUME NEW h \in visited PROVE \E g \in Walk!Values(session) \cap Group : Walk!Inherits(g, h)
  BY <1>2, <1>4 DEF WalkInv, WChain, Reached
<1>5. ASSUME NEW h \in Group, NEW g \in Walk!Values(session) \cap Group, Walk!Inherits(g, h)
      PROVE  h \in visited
  <2>1. g \in Range(roots)
    BY <1>5 DEF Walk!Values, WalkInv, WType, Range
  <2>2. DOMAIN roots = 1 .. at
    BY <1>1 DEF WalkInv, WType
  <2>3. g \in visited
    BY <1>2, <1>5, <2>1, <2>2 DEF WalkInv, WSeen, Range
  <2>4. Walk!Closed(visited)
    BY <1>2 DEF WalkInv, WSeen, Walk!Closed
  <2>5. QED
    BY <1>3, <1>5, <2>3, <2>4 DEF Walk!Inherits
<1>6. QED
  BY <1>3, <1>4, <1>5

-----------------------------------------------------------------------------
(* Edits *)

LEMMA PositionFacts ==
  ASSUME daemon \in Seq(Gate), NEW id, Position(id) # 0
  PROVE  Position(id) \in DOMAIN daemon
<1>1. PICK I : I = {i \in 1 .. Len(daemon) : daemon[i].id = id}
  OBVIOUS
<1>2. Position(id) = IF I # {} THEN Min(I) ELSE 0
  BY <1>1 DEF Position, SelectInSeq
<1>3. I # {} /\ I \in SUBSET Nat
  BY <1>1, <1>2
<1>4. Position(id) \in I
  BY <1>2, <1>3, MinIs
<1>5. QED
  BY <1>1, <1>4

LEMMA RewrittenType ==
  ASSUME NEW gs \in Seq(Gate)
  PROVE  Rewritten(gs) \in Seq(Gate)
<1>1. \A i \in DOMAIN gs : [gs[i] EXCEPT !.priority = 0] \in Gate
  <2>1. ASSUME NEW g \in Gate PROVE [g EXCEPT !.priority = 0] \in Gate
    BY DEF Gate
  <2>2. \A i \in DOMAIN gs : gs[i] \in Gate
    OBVIOUS
  <2>3. QED
    BY <2>1, <2>2
<1>2. QED
  BY <1>1 DEF Rewritten

\* Every edit of the daemon policy leaves a policy (policy_crud.go).
LEMMA EditPolicyKeeps ==
  ASSUME FilesOK, EditPolicy
  PROVE  FilesOK' /\ UNCHANGED <<mode, repo, layers, daemonMode>>
<1>0. daemon \in Seq(Gate) /\ repo \in Seq(Gate) /\ layers \in Seq(Seq(Gate))
  BY DEF FilesOK
<1>1. ASSUME NEW gs \in Seq(Gate), Mutate(gs) PROVE FilesOK' /\ UNCHANGED <<mode, repo, layers, daemonMode>>
  <2>1. daemon' \in Seq(Gate)
    BY <1>1, RewrittenType DEF Mutate
  <2>2. UNCHANGED <<mode, repo, layers, daemonMode>>
    BY <1>1 DEF Mutate
  <2>3. QED
    BY <1>0, <2>1, <2>2 DEF FilesOK
<1>2. ASSUME NEW g \in EditGate, AddGate(g) PROVE \E gs \in Seq(Gate) : Mutate(gs)
  <2>1. g \in Gate
    BY LayersAssumption
  <2>2. Append(daemon, g) \in Seq(Gate)
    BY <1>0, <2>1
  <2>3. QED
    BY <1>2, <2>2 DEF AddGate
<1>3. ASSUME NEW g \in EditGate, ReplaceGate(g) PROVE \E gs \in Seq(Gate) : Mutate(gs)
  <2>1. g \in Gate
    BY LayersAssumption
  <2>2. PICK p : p = Position(g.id)
    OBVIOUS
  <2>3. [daemon EXCEPT ![p] = g] \in Seq(Gate)
    <3>1. p \in DOMAIN daemon
      BY <1>0, <1>3, <2>2, PositionFacts DEF ReplaceGate
    <3>2. QED
      BY <1>0, <2>1, <3>1
  <2>4. QED
    BY <1>3, <2>2, <2>3 DEF ReplaceGate
<1>4. ASSUME NEW id \in RuleId, DeleteGate(id) PROVE \E gs \in Seq(Gate) : Mutate(gs)
  <2>1. Among(daemon, {g \in SeqValues(daemon) : g.id # id}) \in Seq(Gate)
    BY <1>0, AmongFacts
  <2>2. QED
    BY <1>4, <2>1 DEF DeleteGate
<1>5. ASSUME NEW id \in RuleId, NEW off \in BOOLEAN, NEW m \in GateMode, PatchGate(id, off, m)
      PROVE  \E gs \in Seq(Gate) : Mutate(gs)
  <2>1. PICK p : p = Position(id)
    OBVIOUS
  <2>2. p \in DOMAIN daemon
    BY <1>0, <1>5, <2>1, PositionFacts DEF PatchGate
  <2>3. PICK g \in Gate : g = daemon[p]
    BY <1>0, <2>2
  <2>4. PICK md \in GateMode : md = IF m = Unset THEN g.mode ELSE m
    BY <2>3 DEF Gate
  <2>5. [[g EXCEPT !.disabled = off] EXCEPT !.mode = md] \in Gate
    BY <2>4 DEF Gate
  <2>6. PICK h \in Gate : h = [[g EXCEPT !.disabled = off] EXCEPT !.mode = md]
    BY <2>5
  <2>7. [daemon EXCEPT ![p].disabled = off, ![p].mode = IF m = Unset THEN @ ELSE m] = [daemon EXCEPT ![p] = h]
    BY <1>0, <2>2, <2>3, <2>4, <2>6 DEF Gate
  <2>8. [daemon EXCEPT ![p] = h] \in Seq(Gate)
    BY <1>0, <2>2
  <2>9. QED
    BY <1>5, <2>1, <2>7, <2>8 DEF PatchGate
<1>6. \E gs \in Seq(Gate) : Mutate(gs)
  BY <1>2, <1>3, <1>4, <1>5 DEF EditPolicy
<1>7. QED
  BY <1>1, <1>6

BundleOK == gates \in [Group -> LayerFile] /\ personal \in LayerFile

LEMMA LayerOfType ==
  ASSUME BundleOK, NEW g \in Group
  PROVE  LayerOf(g) \in Seq(Gate)
<1>1. gates[g] \in LayerFile
  BY DEF BundleOK
<1>2. gates[g] \in Seq(Gate)
  BY <1>1, LayersAssumption
<1>3. QED
  BY <1>2 DEF LayerOf

\* The layers of a session: one for each placed group, in order, and the user's.
LEMMA SessionLayersAre ==
  ASSUME out \in Seq(Group), BundleOK
  PROVE  /\ SessionLayers = [i \in 1 .. Len(out) + 1 |-> IF i <= Len(out) THEN LayerOf(out[i]) ELSE personal]
         /\ SessionLayers \in Seq(Seq(Gate)) /\ Len(SessionLayers) = Len(out) + 1
<1>1. PICK ls : ls = [i \in DOMAIN out |-> LayerOf(out[i])]
  OBVIOUS
<1>2. \A i \in DOMAIN out : ls[i] \in Seq(Gate)
  BY <1>1, LayerOfType
<1>3. PICK n \in Nat : n = Len(out) /\ DOMAIN out = 1 .. n
  OBVIOUS
<1>0. PICK T : T = Seq(Gate)
  OBVIOUS
<1>4. ls \in Seq(T) /\ Len(ls) = n
  BY <1>0, <1>1, <1>2, <1>3
<1>5. personal \in T
  BY <1>0, LayersAssumption DEF BundleOK
<1>6. PICK mine \in Seq(T) : mine = <<personal>> /\ Len(mine) = 1 /\ mine[1] = personal
  <2>1. <<personal>> \in Seq(T) /\ Len(<<personal>>) = 1 /\ <<personal>>[1] = personal
    BY <1>5
  <2>2. QED
    BY <2>1
<1>7. SessionLayers = ls \o mine
  BY <1>1, <1>6 DEF SessionLayers
<1>8. /\ ls \o mine \in Seq(T) /\ Len(ls \o mine) = n + 1
      /\ ls \o mine = [i \in 1 .. n + 1 |-> IF i <= n THEN ls[i] ELSE mine[i - n]]
  <2>0. ls \o mine \in Seq(T)
    BY <1>4, <1>6
  <2>1. PICK all \in Seq(T) : all = ls \o mine
    BY <2>0
  <2>2. Len(all) = n + 1 /\ \A i \in 1 .. n + 1 : all[i] = IF i <= n THEN ls[i] ELSE mine[i - n]
    BY <1>3, <1>4, <1>6, <2>1
  <2>3. all = [i \in 1 .. n + 1 |-> all[i]]
    BY <2>2
  <2>4. [i \in 1 .. n + 1 |-> all[i]] = [i \in 1 .. n + 1 |-> IF i <= n THEN ls[i] ELSE mine[i - n]]
    BY <2>2
  <2>5. QED
    BY <2>1, <2>2, <2>3, <2>4
<1>9. \A i \in 1 .. n + 1 : (IF i <= n THEN ls[i] ELSE mine[i - n])
                              = IF i <= n THEN LayerOf(out[i]) ELSE personal
  BY <1>1, <1>3, <1>6
<1>10. [i \in 1 .. n + 1 |-> IF i <= n THEN ls[i] ELSE mine[i - n]]
         = [i \in 1 .. n + 1 |-> IF i <= n THEN LayerOf(out[i]) ELSE personal]
  BY <1>9
<1>11. QED
  BY <1>0, <1>3, <1>7, <1>8, <1>10

LayersShape ==
  out \in Seq(Group) /\ BundleOK =>
    /\ SessionLayers = [i \in 1 .. Len(out) + 1 |-> IF i <= Len(out) THEN LayerOf(out[i]) ELSE personal]
    /\ SessionLayers \in Seq(Seq(Gate))

LEMMA LayersShaped == LayersShape
BY SessionLayersAre DEF LayersShape

-----------------------------------------------------------------------------
(* The system *)

\* After the walk, the layers are always those of the bundle as it is.
DecidedOK == decided => Walk!Done /\ layers = SessionLayers
GroupInv == WalkInv /\ FilesOK /\ BundleOK /\ DecidedOK

LEMMA GroupInitOK ==
  ASSUME GroupInit
  PROVE  GroupInv
<1>1. WalkInv
  BY WalkInit DEF GroupInit
<1>2. daemon \in Seq(Gate) /\ repo = <<>> /\ layers = [l \in 1 .. Layers |-> <<>>] /\ Layers \in Nat
  BY LayersAssumption DEF GroupInit, Init
<1>3. <<>> \in Seq(Gate)
  OBVIOUS
<1>4. layers \in Seq(Seq(Gate))
  BY <1>2, <1>3
<1>5. FilesOK
  BY <1>2, <1>3, <1>4 DEF FilesOK
<1>6. BundleOK /\ DecidedOK
  BY DEF GroupInit, BundleOK, DecidedOK
<1>7. QED
  BY <1>1, <1>5, <1>6 DEF GroupInv

\* While the walk goes on nothing is decided.
LEMMA WalkingKeeps ==
  ASSUME GroupInv, \/ Walking(Walk!VisitRoot)
                   \/ Walking(Walk!VisitParent)
                   \/ Walking(Walk!Leave)
  PROVE  GroupInv'
<1>1. WalkInv'
  BY VisitRootKeeps, VisitParentKeeps, LeaveKeeps DEF GroupInv, Walking
<1>2. UNCHANGED <<vars, bundleVars, decided>>
  BY DEF Walking
<1>3. FilesOK' /\ BundleOK'
  BY <1>2 DEF GroupInv, vars, bundleVars, FilesOK, BundleOK
<1>4. ~decided
  <2>1. Walk!Done => at = Len(roots) /\ stack = <<>>
    BY DEF Walk!Done
  <2>2. Walk!VisitRoot => at < Len(roots)
    BY DEF Walk!VisitRoot
  <2>3. Walk!VisitParent \/ Walk!Leave => stack # <<>>
    BY DEF Walk!VisitParent, Walk!Leave
  <2>4. at \in Int /\ Len(roots) \in Int
    BY DEF GroupInv, WalkInv, WType
  <2>5. QED
    BY <2>1, <2>2, <2>3, <2>4 DEF Walking, GroupInv, DecidedOK
<1>5. DecidedOK'
  BY <1>2, <1>4 DEF DecidedOK
<1>6. QED
  BY <1>1, <1>3, <1>5 DEF GroupInv

\* The other steps leave the walk alone.
LEMMA DoneStays ==
  ASSUME UNCHANGED walkVars
  PROVE  (Walk!Done <=> Walk!Done') /\ out' = out
BY DEF walkVars, Walk!Done

LEMMA CompileKeeps ==
  ASSUME GroupInv, Compile
  PROVE  GroupInv'
<1>1. UNCHANGED <<mode, daemon, repo, daemonMode>> /\ UNCHANGED walkVars /\ UNCHANGED bundleVars
  BY DEF Compile
<1>2. layers' = SessionLayers /\ Walk!Done
  BY DEF Compile
<1>3. BundleOK'
  BY <1>1 DEF GroupInv, BundleOK, bundleVars
<1>4. WalkInv'
  BY <1>1, WalkStutters DEF GroupInv
<1>5. SessionLayers \in Seq(Seq(Gate))
  BY SessionLayersAre DEF GroupInv, WalkInv, WType
<1>6. FilesOK'
  BY <1>1, <1>2, <1>5 DEF GroupInv, FilesOK
<1>7. SessionLayers' = SessionLayers
  BY <1>1, DoneStays DEF SessionLayers, LayerOf, bundleVars
<1>8. DecidedOK'
  BY <1>1, <1>2, <1>7, DoneStays DEF DecidedOK
<1>9. QED
  BY <1>3, <1>4, <1>6, <1>8 DEF GroupInv

\* An edit of a group's gates changes its layer and no other.
LEMMA EditGroupKeeps ==
  ASSUME GroupInv, NEW i \in DOMAIN out, NEW file \in LayerFile, EditGroup(i, file)
  PROVE  GroupInv'
<1>1. PICK l : l = IF out[i] \in Broken THEN <<>> ELSE file
  OBVIOUS
<1>2. /\ decided /\ layers' = [layers EXCEPT ![i] = l] /\ gates' = [gates EXCEPT ![out[i]] = file]
      /\ UNCHANGED <<mode, daemon, repo, daemonMode>> /\ UNCHANGED walkVars /\ UNCHANGED <<personal, decided>>
  BY <1>1 DEF EditGroup, EditLayer
<1>3. out' = out /\ WalkInv'
  BY <1>2, WalkStutters, DoneStays DEF GroupInv
<1>4. out \in Seq(Group) /\ BundleOK /\ Once(out) /\ layers = SessionLayers /\ Walk!Done
  BY <1>2 DEF GroupInv, WalkInv, WType, WOut, DecidedOK
<1>5. BundleOK'
  BY <1>2 DEF GroupInv, BundleOK
<1>6. PICK n \in Nat : n = Len(out) /\ DOMAIN out = 1 .. n
  BY <1>4
<1>7. layers = [j \in 1 .. n + 1 |-> IF j <= n THEN LayerOf(out[j]) ELSE personal]
  BY <1>4, <1>6, SessionLayersAre
<1>8. /\ SessionLayers' = [j \in 1 .. n + 1 |-> IF j <= n THEN LayerOf(out[j])' ELSE personal]
      /\ SessionLayers' \in Seq(Seq(Gate))
  <2>1. out' \in Seq(Group)
    BY <1>3, <1>4
  <2>2. /\ SessionLayers' = [j \in 1 .. Len(out') + 1 |-> IF j <= Len(out') THEN LayerOf(out[j])' ELSE personal']
        /\ SessionLayers' \in Seq(Seq(Gate))
    <3>1. LayersShape'
      BY LayersShaped, PTL
    <3>2. QED
      BY <1>5, <2>1, <3>1 DEF LayersShape
  <2>3. QED
    BY <1>2, <1>3, <1>6, <2>2
<1>9. ASSUME NEW j \in 1 .. n
      PROVE  LayerOf(out[j])' = IF j = i THEN l ELSE LayerOf(out[j])
  <2>1. out[j] \in Group /\ out[i] \in Group /\ (out[j] = out[i] => j = i)
    BY <1>4, <1>6 DEF Once
  <2>2. gates \in [Group -> LayerFile]
    BY DEF GroupInv, BundleOK
  <2>3. gates'[out[j]] = IF j = i THEN file ELSE gates[out[j]]
    BY <1>2, <2>1, <2>2
  <2>4. out'[j] = out[j]
    BY <1>3
  <2>5. QED
    BY <1>1, <2>3, <2>4 DEF LayerOf
<1>10. layers' = SessionLayers'
  <2>1. i \in 1 .. n
    BY <1>6
  <2>2. layers' = [j \in 1 .. n + 1 |-> IF j = i THEN l ELSE IF j <= n THEN LayerOf(out[j]) ELSE personal]
    BY <1>2, <1>6, <1>7, <2>1
  <2>3. \A j \in 1 .. n + 1 : (IF j = i THEN l ELSE IF j <= n THEN LayerOf(out[j]) ELSE personal)
                                = IF j <= n THEN LayerOf(out[j])' ELSE personal
    BY <1>6, <1>9, <2>1
  <2>4. QED
    BY <1>8, <2>2, <2>3
<1>11. FilesOK'
  BY <1>2, <1>8, <1>10 DEF GroupInv, FilesOK
<1>12. DecidedOK'
  BY <1>2, <1>4, <1>10, DoneStays DEF DecidedOK
<1>13. QED
  BY <1>3, <1>5, <1>11, <1>12 DEF GroupInv

LEMMA EditPersonalKeeps ==
  ASSUME GroupInv, NEW file \in LayerFile, EditPersonal(file)
  PROVE  GroupInv'
<1>1. /\ decided /\ layers' = [layers EXCEPT ![Len(layers)] = file] /\ personal' = file /\ gates' = gates
      /\ UNCHANGED <<mode, daemon, repo, daemonMode>> /\ UNCHANGED walkVars /\ decided' = decided
  BY DEF EditPersonal, EditLayer
<1>2. out' = out /\ WalkInv'
  BY <1>1, WalkStutters, DoneStays DEF GroupInv
<1>3. out \in Seq(Group) /\ BundleOK /\ layers = SessionLayers /\ Walk!Done
  BY <1>1 DEF GroupInv, WalkInv, WType, DecidedOK
<1>4. BundleOK'
  BY <1>1 DEF GroupInv, BundleOK
<1>5. PICK n \in Nat : n = Len(out) /\ DOMAIN out = 1 .. n
  BY <1>3
<1>6. layers = [j \in 1 .. n + 1 |-> IF j <= n THEN LayerOf(out[j]) ELSE personal] /\ Len(layers) = n + 1
  BY <1>3, <1>5, SessionLayersAre
<1>7. /\ SessionLayers' = [j \in 1 .. n + 1 |-> IF j <= n THEN LayerOf(out[j])' ELSE file]
      /\ SessionLayers' \in Seq(Seq(Gate))
  <2>1. out' \in Seq(Group)
    BY <1>2, <1>3
  <2>2. LayersShape'
    BY LayersShaped, PTL
  <2>3. QED
    BY <1>1, <1>2, <1>4, <1>5, <2>1, <2>2 DEF LayersShape
<1>8. \A j \in 1 .. n : LayerOf(out[j])' = LayerOf(out[j])
  BY <1>1, <1>2 DEF LayerOf
<1>9. layers' = SessionLayers'
  <2>1. layers' = [j \in 1 .. n + 1 |-> IF j = n + 1 THEN file ELSE IF j <= n THEN LayerOf(out[j]) ELSE personal]
    BY <1>1, <1>6
  <2>2. \A j \in 1 .. n + 1 : (IF j = n + 1 THEN file ELSE IF j <= n THEN LayerOf(out[j]) ELSE personal)
                                = IF j <= n THEN LayerOf(out[j])' ELSE file
    BY <1>8
  <2>3. QED
    BY <1>7, <2>1, <2>2
<1>10. FilesOK'
  BY <1>1, <1>7, <1>9 DEF GroupInv, FilesOK
<1>11. DecidedOK'
  BY <1>1, <1>3, <1>9, DoneStays DEF DecidedOK
<1>12. QED
  BY <1>2, <1>4, <1>10, <1>11 DEF GroupInv

LEMMA EditKeeps ==
  ASSUME GroupInv, Edit
  PROVE  GroupInv'
<1>1. UNCHANGED walkVars /\ UNCHANGED bundleVars /\ decided' = decided
  BY DEF Edit
<1>2. WalkInv' /\ BundleOK'
  BY <1>1, WalkStutters DEF GroupInv, BundleOK, bundleVars
<1>3. FilesOK' /\ layers' = layers
  <2>1. CASE EditPolicy
    BY <2>1, EditPolicyKeeps DEF GroupInv
  <2>2. ASSUME NEW f \in RepoFile, EditRepo(f) PROVE FilesOK' /\ layers' = layers
    <3>1. f \in Seq(Gate)
      BY LayersAssumption
    <3>2. QED
      BY <2>2, <3>1 DEF EditRepo, GroupInv, FilesOK
  <2>3. ASSUME NEW m, SetMode(m) PROVE FilesOK' /\ layers' = layers
    BY <2>3 DEF SetMode, GroupInv, FilesOK
  <2>4. QED
    BY <2>1, <2>2, <2>3 DEF Edit
<1>4. SessionLayers' = SessionLayers
  BY <1>1, DoneStays DEF SessionLayers, LayerOf, bundleVars
<1>5. DecidedOK'
  BY <1>1, <1>3, <1>4, DoneStays DEF GroupInv, DecidedOK
<1>6. QED
  BY <1>2, <1>3, <1>5 DEF GroupInv

LEMMA GroupStutters ==
  ASSUME GroupInv, UNCHANGED allVars
  PROVE  GroupInv'
<1>1. UNCHANGED vars /\ UNCHANGED walkVars /\ UNCHANGED bundleVars /\ decided' = decided
  BY DEF allVars
<1>2. WalkInv' /\ BundleOK' /\ FilesOK'
  BY <1>1, WalkStutters DEF GroupInv, BundleOK, bundleVars, FilesOK, vars
<1>3. SessionLayers' = SessionLayers /\ layers' = layers
  BY <1>1, DoneStays DEF SessionLayers, LayerOf, bundleVars, vars
<1>4. DecidedOK'
  BY <1>1, <1>3, DoneStays DEF GroupInv, DecidedOK
<1>5. QED
  BY <1>2, <1>4 DEF GroupInv

\* What the groups of a session deny reaches the session (evaluatePolicyForSession).
LEMMA DeniesInherited ==
  ASSUME GroupInv
  PROVE  InheritedDenyBlocks
<1>1. SUFFICES ASSUME NEW g \in Walk!Values(session) \cap Group, NEW h \in Group \ Broken,
                      decided, ~Priorities, daemonMode = "firewall", Walk!Inherits(g, h),
                      Evaluate("enforce", gates[h]).original = "deny"
               PROVE  Decision(repo).verdict = "deny"
  BY DEF InheritedDenyBlocks
<1>2. Walk!Done /\ layers = SessionLayers /\ out \in Seq(Group) /\ BundleOK
  BY <1>1 DEF GroupInv, DecidedOK, WalkInv, WType
<1>3. h \in Walk!Values(out)
  <2>1. Complete
    BY WalkCompletes DEF GroupInv
  <2>2. QED
    BY <1>1, <1>2, <2>1 DEF Complete, Walk!Complete
<1>4. PICK i \in DOMAIN out : out[i] = h
  BY <1>3 DEF Walk!Values
<1>5. PICK n \in Nat : n = Len(out) /\ DOMAIN out = 1 .. n
  BY <1>2
<1>6. layers = [j \in 1 .. n + 1 |-> IF j <= n THEN LayerOf(out[j]) ELSE personal] /\ Len(layers) = n + 1
  BY <1>2, <1>5, SessionLayersAre
<1>7. layers[i] = gates[h]
  BY <1>1, <1>4, <1>5, <1>6 DEF LayerOf
<1>8. PICK base \in Seq(Gate) : base = Overlay(daemon, repo)
  BY OverlayFacts DEF GroupInv, FilesOK
<1>9. PICK rs : rs = Results(mode, base, layers)
  OBVIOUS
<1>10. AnswersOf(rs, mode, base, layers)
  BY <1>8, <1>9, ResultsFacts DEF GroupInv, FilesOK
<1>11. i + 1 \in DOMAIN rs /\ i + 1 \in 2 .. Len(layers) + 1 /\ (i + 1) - 1 = i
  BY <1>4, <1>5, <1>6, <1>10 DEF AnswersOf
<1>12. rs[i + 1] = Evaluate("enforce", layers[i])
  BY <1>10, <1>11 DEF AnswersOf
<1>13. rs[i + 1].original = "deny" /\ rs = Answers
  BY <1>1, <1>7, <1>8, <1>9, <1>12 DEF Answers
<1>14. \E r \in SeqValues(Answers) : r.original = "deny"
  BY <1>11, <1>13 DEF SeqValues
<1>15. FirewallHoldsDenies
  BY FirewallFromFiles DEF GroupInv
<1>16. QED
  BY <1>1, <1>14, <1>15 DEF FirewallHoldsDenies

\* What the walk and the edits keep true: the order so far is right, and what is
\* evaluated is what the files say (group_policy.go).
THEOREM GroupInvariant == GroupSpec => []GroupInv
<1>1. GroupInit => GroupInv
  BY GroupInitOK
<1>2. GroupInv /\ [GroupNext]_allVars => GroupInv'
  <2>1. SUFFICES ASSUME GroupInv, [GroupNext]_allVars PROVE GroupInv'
    OBVIOUS
  <2>2. CASE UNCHANGED allVars
    BY <2>1, <2>2, GroupStutters
  <2>3. CASE GroupNext
    BY <2>1, <2>3, WalkingKeeps, CompileKeeps, EditGroupKeeps, EditPersonalKeeps, EditKeeps, Zenon DEF GroupNext
  <2>4. QED
    BY <2>1, <2>2, <2>3
<1>3. QED
  BY <1>1, <1>2, PTL DEF GroupSpec

\* Whatever the bundle, cycles included: the layers of a session are its groups
\* and all their ancestors, parents first, and in firewall mode what one of them
\* denies is denied to the session (expandGroupOrder, evaluatePolicyForSession).
THEOREM LayersAlwaysInherited == GroupSpec => []LayersInherited
<1>1. GroupInv => LayersInherited
  BY WalkCompletes, DeniesInherited DEF GroupInv, WalkInv, LayersInherited
<1>2. QED
  BY <1>1, GroupInvariant, PTL

\* No denial is set aside but for a result of the same rule, both opted into
\* priority, with at least its priority (collapsePriorityConflicts).
THEOREM PrioritiesAlwaysExplicit == GroupSpec => []PrioritiesAreExplicit
<1>1. GroupInv => PrioritiesAreExplicit
  BY ExceptionsFromFiles DEF GroupInv, PrioritiesAreExplicit
<1>2. QED
  BY <1>1, GroupInvariant, PTL

\* Without priorities the repo file takes no denial away, and in firewall mode
\* the call is denied exactly if a layer denies it (MergeRestrictiveExtension,
\* EvaluateLayered, applyDaemonModeOverride).
THEOREM DeniesAlwaysHeld == GroupSpec => []DeniesAreHeld
<1>1. GroupInv => DeniesAreHeld
  BY RepoFromFiles, FirewallFromFiles DEF GroupInv, DeniesAreHeld
<1>2. QED
  BY <1>1, GroupInvariant, PTL

=============================================================================
