--------------------------- MODULE SelectionProofs ---------------------------
(***************************************************************************)
(* What the elements of a sequence that are in a set (Among) are, for      *)
(* sequences of any length: lemmas for the proofs about the files of an    *)
(* install, the lines of the MCP processes and the gates of a policy.      *)
(* The induction on the length is an argument about a least                *)
(* counterexample, which the proofs about recursive functions share.       *)
(***************************************************************************)
EXTENDS Integers, SequencesExt, Selection, FiniteSetTheorems, FunctionTheorems, SequenceTheorems,
        NaturalsInduction, WellFoundedInduction, TLAPS

\* A finite sequence, whatever its values.
IsSeq(s) == Len(s) \in Nat /\ s = [i \in 1 .. Len(s) |-> s[i]]

LEMMA SeqOfFunction ==
  ASSUME NEW n \in Nat, NEW s, s = [i \in 1 .. n |-> s[i]]
  PROVE  /\ s \in Seq({s[i] : i \in 1 .. n})
         /\ Len(s) = n
         /\ IsSeq(s)
<1>1. s \in [1 .. n -> {s[i] : i \in 1 .. n}]
  OBVIOUS
<1>2. s \in Seq({s[i] : i \in 1 .. n})
  BY <1>1
<1>3. Len(s) = n
  BY <1>1, <1>2
<1> QED
  BY <1>2, <1>3 DEF IsSeq

LEMMA SeqIsSeq ==
  ASSUME NEW S, NEW s \in Seq(S)
  PROVE  IsSeq(s)
<1>1. Len(s) \in Nat /\ s \in [1 .. Len(s) -> S]
  OBVIOUS
<1> QED
  BY <1>1 DEF IsSeq

LEMMA AppendAny ==
  ASSUME NEW s, NEW e, IsSeq(s)
  PROVE  /\ IsSeq(Append(s, e))
         /\ Len(Append(s, e)) = Len(s) + 1
         /\ Append(s, e)[Len(s) + 1] = e
         /\ \A i \in 1 .. Len(s) : Append(s, e)[i] = s[i]
<1> DEFINE S == {s[i] : i \in 1 .. Len(s)} \cup {e}
<1>1. Len(s) \in Nat /\ s = [i \in 1 .. Len(s) |-> s[i]]
  BY DEF IsSeq
<1>2. s \in Seq(S)
  <2>1. s \in [1 .. Len(s) -> S]
    BY <1>1
  <2> QED
    BY <2>1, <1>1
<1>3. e \in S
  OBVIOUS
<1> HIDE DEF S
<1>4. /\ Append(s, e) \in Seq(S)
      /\ Len(Append(s, e)) = Len(s) + 1
      /\ Append(s, e)[Len(s) + 1] = e
      /\ \A i \in 1 .. Len(s) : Append(s, e)[i] = s[i]
  BY <1>2, <1>3
<1>5. IsSeq(Append(s, e))
  BY <1>4, SeqIsSeq
<1> QED
  BY <1>4, <1>5

LEMMA SubSeqAny ==
  ASSUME NEW s, IsSeq(s), NEW m \in 1 .. Len(s) + 1, NEW n \in m - 1 .. Len(s)
  PROVE  /\ IsSeq(SubSeq(s, m, n))
         /\ Len(SubSeq(s, m, n)) = n - m + 1
         /\ \A k \in 1 .. n - m + 1 : SubSeq(s, m, n)[k] = s[m + k - 1]
<1> DEFINE S == {s[i] : i \in 1 .. Len(s)}
<1>1. Len(s) \in Nat /\ s = [i \in 1 .. Len(s) |-> s[i]]
  BY DEF IsSeq
<1>2. s \in Seq(S)
  <2>1. s \in [1 .. Len(s) -> S]
    BY <1>1
  <2> QED
    BY <2>1, <1>1
<1> HIDE DEF S
<1>3. /\ SubSeq(s, m, n) \in Seq(S)
      /\ Len(SubSeq(s, m, n)) = n - m + 1
      /\ \A k \in 1 .. n - m + 1 : SubSeq(s, m, n)[k] = s[m + k - 1]
  BY <1>1, <1>2
<1>4. IsSeq(SubSeq(s, m, n))
  BY <1>3, SeqIsSeq
<1> QED
  BY <1>3, <1>4

LEMMA ConcatAny ==
  ASSUME NEW s, NEW t, IsSeq(s), IsSeq(t)
  PROVE  /\ IsSeq(s \o t)
         /\ Len(s \o t) = Len(s) + Len(t)
         /\ \A k \in 1 .. Len(s) : (s \o t)[k] = s[k]
         /\ \A k \in 1 .. Len(t) : (s \o t)[Len(s) + k] = t[k]
<1> DEFINE S == {s[i] : i \in 1 .. Len(s)} \cup {t[i] : i \in 1 .. Len(t)}
<1>1. Len(s) \in Nat /\ s = [i \in 1 .. Len(s) |-> s[i]]
  BY DEF IsSeq
<1>2. Len(t) \in Nat /\ t = [i \in 1 .. Len(t) |-> t[i]]
  BY DEF IsSeq
<1>3. s \in Seq(S)
  <2>1. s \in [1 .. Len(s) -> S]
    BY <1>1
  <2> QED
    BY <2>1, <1>1
<1>4. t \in Seq(S)
  <2>1. t \in [1 .. Len(t) -> S]
    BY <1>2
  <2> QED
    BY <2>1, <1>2
<1> HIDE DEF S
<1>5. /\ s \o t \in Seq(S)
      /\ Len(s \o t) = Len(s) + Len(t)
      /\ \A k \in 1 .. Len(s) : (s \o t)[k] = s[k]
      /\ \A k \in 1 .. Len(t) : (s \o t)[Len(s) + k] = t[k]
  BY <1>1, <1>2, <1>3, <1>4
<1>6. IsSeq(s \o t)
  BY <1>5, SeqIsSeq
<1> QED
  BY <1>5, <1>6

\* RemoveAt: the elements after the place move up by one.
LEMMA RemoveAny ==
  ASSUME NEW s, IsSeq(s), NEW i \in 1 .. Len(s)
  PROVE  /\ IsSeq(RemoveAt(s, i))
         /\ Len(RemoveAt(s, i)) = Len(s) - 1
         /\ \A k \in 1 .. Len(s) - 1 :
              RemoveAt(s, i)[k] = IF k < i THEN s[k] ELSE s[k + 1]
<1>1. Len(s) \in Nat
  BY DEF IsSeq
<1>2. PICK a : a = SubSeq(s, 1, i - 1)
  OBVIOUS
<1>3. PICK b : b = SubSeq(s, i + 1, Len(s))
  OBVIOUS
<1>4. IsSeq(a) /\ Len(a) = i - 1 /\ \A k \in 1 .. i - 1 : a[k] = s[k]
  <2>1. 1 \in 1 .. Len(s) + 1 /\ i - 1 \in 1 - 1 .. Len(s)
    BY <1>1
  <2>2. /\ IsSeq(SubSeq(s, 1, i - 1)) /\ Len(SubSeq(s, 1, i - 1)) = i - 1 - 1 + 1
        /\ \A k \in 1 .. i - 1 - 1 + 1 : SubSeq(s, 1, i - 1)[k] = s[1 + k - 1]
    BY <2>1, SubSeqAny
  <2>3. /\ IsSeq(a) /\ Len(a) = i - 1 - 1 + 1
        /\ \A k \in 1 .. i - 1 - 1 + 1 : a[k] = s[1 + k - 1]
    BY <2>2, <1>2
  <2>4. i - 1 - 1 + 1 = i - 1 /\ \A k \in 1 .. i - 1 : 1 + k - 1 = k
    BY <1>1
  <2> QED
    BY <2>3, <2>4
<1>5. IsSeq(b) /\ Len(b) = Len(s) - i /\ \A k \in 1 .. Len(s) - i : b[k] = s[i + k]
  <2>1. i + 1 \in 1 .. Len(s) + 1 /\ Len(s) \in i + 1 - 1 .. Len(s)
    BY <1>1
  <2>2. /\ IsSeq(SubSeq(s, i + 1, Len(s)))
        /\ Len(SubSeq(s, i + 1, Len(s))) = Len(s) - (i + 1) + 1
        /\ \A k \in 1 .. Len(s) - (i + 1) + 1 : SubSeq(s, i + 1, Len(s))[k] = s[i + 1 + k - 1]
    BY <2>1, SubSeqAny
  <2>3. /\ IsSeq(b) /\ Len(b) = Len(s) - (i + 1) + 1
        /\ \A k \in 1 .. Len(s) - (i + 1) + 1 : b[k] = s[i + 1 + k - 1]
    BY <2>2, <1>3
  <2>4. Len(s) - (i + 1) + 1 = Len(s) - i /\ \A k \in 1 .. Len(s) - i : i + 1 + k - 1 = i + k
    BY <1>1
  <2> QED
    BY <2>3, <2>4
<1>6. PICK c : c = a \o b
  OBVIOUS
<1>7. /\ IsSeq(c) /\ Len(c) = Len(a) + Len(b)
      /\ \A k \in 1 .. Len(a) : c[k] = a[k]
      /\ \A k \in 1 .. Len(b) : c[Len(a) + k] = b[k]
  <2>1. /\ IsSeq(a \o b) /\ Len(a \o b) = Len(a) + Len(b)
        /\ \A k \in 1 .. Len(a) : (a \o b)[k] = a[k]
        /\ \A k \in 1 .. Len(b) : (a \o b)[Len(a) + k] = b[k]
    <3>1. IsSeq(a) /\ IsSeq(b)
      BY <1>4, <1>5
    <3> QED
      BY <3>1, ConcatAny
  <2> QED
    BY <2>1, <1>6, Zenon
<1>8. Len(c) = Len(s) - 1
  BY <1>1, <1>4, <1>5, <1>7
<1>9. ASSUME NEW k \in 1 .. Len(s) - 1
      PROVE  c[k] = IF k < i THEN s[k] ELSE s[k + 1]
  <2>1. CASE k < i
    <3>1. k \in 1 .. i - 1 /\ k \in 1 .. Len(a)
      BY <1>1, <1>4, <2>1
    <3> QED
      BY <3>1, <2>1, <1>4, <1>7
  <2>2. CASE ~(k < i)
    <3>1. k - (i - 1) \in 1 .. Len(s) - i /\ k - (i - 1) \in 1 .. Len(b)
      BY <1>1, <1>5, <2>2
    <3>2. c[Len(a) + (k - (i - 1))] = b[k - (i - 1)] /\ b[k - (i - 1)] = s[i + (k - (i - 1))]
      BY <3>1, <1>5, <1>7
    <3>3. Len(a) + (k - (i - 1)) = k /\ i + (k - (i - 1)) = k + 1
      BY <1>1, <1>4
    <3> QED
      BY <3>2, <3>3, <2>2
  <2> QED
    BY <2>1, <2>2
<1>10. RemoveAt(s, i) = c
  BY <1>2, <1>3, <1>6 DEF RemoveAt
<1> QED
  BY <1>7, <1>8, <1>9, <1>10

\* A non-empty set of numbers has a least one.
LEMMA LeastNat ==
  ASSUME NEW T \in SUBSET Nat, T # {}
  PROVE  \E m \in T : \A n \in T : m <= n
<1>1. PICK R : R = OpToRel(<, Nat)
  OBVIOUS
<1>2. \E m \in T : \A n \in T : <<n, m>> \notin R
  BY <1>1, NatLessThanWellFounded, WFMin, Zenon
<1>3. \A m, n \in Nat : n < m => <<n, m>> \in R
  BY <1>1 DEF OpToRel
<1>4. PICK m \in T : \A n \in T : <<n, m>> \notin R
  BY <1>2
<1>5. \A n \in T : ~(n < m)
  BY <1>3, <1>4, Zenon
<1>6. \A n \in T : m <= n
  BY <1>5
<1>7. QED
  BY <1>6

\* Induction, for the members of a set.
LEMMA UpTo ==
  ASSUME NEW n \in Nat, NEW G, 0 \in G, \A m \in 1 .. n : m - 1 \in G => m \in G
  PROVE  \A m \in 0 .. n : m \in G
<1>1. PICK T : T = (0 .. n) \ G
  OBVIOUS
<1>2. SUFFICES ASSUME T # {} PROVE FALSE
  BY <1>1
<1>3. T \in SUBSET Nat
  BY <1>1
<1>4. PICK m \in T : \A k \in T : m <= k
  BY <1>2, <1>3, LeastNat
<1>5. m \in 1 .. n /\ m - 1 \in 0 .. n /\ ~(m <= m - 1)
  BY <1>1, <1>4
<1>6. m - 1 \in G
  BY <1>1, <1>4, <1>5
<1>7. QED
  BY <1>1, <1>4, <1>5, <1>6

IsKept(f, s, S, n) ==
  f = [i \in 0 .. n |-> IF i = 0 THEN <<>> ELSE IF s[i] \in S THEN Append(f[i - 1], s[i]) ELSE f[i - 1]]

\* The function exists, for every length.
LEMMA KeptExists ==
  ASSUME NEW s, NEW S, NEW n \in Nat
  PROVE  \E f : IsKept(f, s, S, n)
<1>1. PICK T : T = {m \in Nat : ~ \E f : IsKept(f, s, S, m)}
  OBVIOUS
<1>2. SUFFICES ASSUME T # {} PROVE FALSE
  BY <1>1
<1>3. PICK m \in T : \A k \in T : m <= k
  BY <1>1, <1>2, LeastNat
<1>4. CASE m = 0
  <2>1. IsKept([i \in 0 .. 0 |-> <<>>], s, S, 0)
    BY DEF IsKept
  <2>2. QED
    BY <1>1, <1>3, <1>4, <2>1
<1>5. CASE m # 0
  <2>1. m \in Nat /\ m - 1 \in Nat /\ m - 1 \notin T
    BY <1>1, <1>3, <1>5
  <2>2. PICK f : IsKept(f, s, S, m - 1)
    BY <1>1, <2>1
  <2>3. PICK last : last = IF s[m] \in S THEN Append(f[m - 1], s[m]) ELSE f[m - 1]
    OBVIOUS
  <2>4. PICK g : g = [i \in 0 .. m |-> IF i = m THEN last ELSE f[i]]
    OBVIOUS
  <2>5. g = [i \in 0 .. m |-> IF i = 0 THEN <<>> ELSE IF s[i] \in S THEN Append(g[i - 1], s[i]) ELSE g[i - 1]]
    <3>1. \A i \in 0 .. m - 1 : g[i] = f[i]
      BY <2>1, <2>4
    <3>2. f = [i \in 0 .. m - 1 |-> IF i = 0 THEN <<>>
                                   ELSE IF s[i] \in S THEN Append(f[i - 1], s[i]) ELSE f[i - 1]]
      BY <2>2 DEF IsKept
    <3>3. ASSUME NEW i \in 0 .. m
          PROVE  g[i] = IF i = 0 THEN <<>> ELSE IF s[i] \in S THEN Append(g[i - 1], s[i]) ELSE g[i - 1]
      <4>1. CASE i = m
        BY <2>1, <2>3, <2>4, <3>1, <4>1, <1>5
      <4>2. CASE i # m
        <5>1. i \in 0 .. m - 1 /\ (i # 0 => i - 1 \in 0 .. m - 1)
          BY <2>1, <4>2
        <5>2. f[i] = IF i = 0 THEN <<>> ELSE IF s[i] \in S THEN Append(f[i - 1], s[i]) ELSE f[i - 1]
          BY <3>2, <5>1
        <5>3. g[i] = f[i] /\ (i # 0 => g[i - 1] = f[i - 1])
          BY <3>1, <5>1
        <5>4. QED
          BY <5>2, <5>3
      <4>3. QED
        BY <4>1, <4>2
    <3>4. QED
      BY <2>4, <3>3
  <2>6. IsKept(g, s, S, m)
    BY <2>5 DEF IsKept
  <2>7. QED
    BY <1>1, <1>3, <2>6
<1>6. QED
  BY <1>4, <1>5

LEMMA AmongIs ==
  ASSUME NEW s, NEW S, Len(s) \in Nat
  PROVE  \E f : IsKept(f, s, S, Len(s)) /\ Among(s, S) = f[Len(s)]
<1>1. PICK f : f = CHOOSE g : g = [i \in 0 .. Len(s) |->
                      IF i = 0 THEN <<>> ELSE IF s[i] \in S THEN Append(g[i - 1], s[i]) ELSE g[i - 1]]
  OBVIOUS
<1>2. Among(s, S) = f[Len(s)]
  BY <1>1 DEF Among
<1>3. IsKept(f, s, S, Len(s))
  <2>1. \E g : g = [i \in 0 .. Len(s) |-> IF i = 0 THEN <<>> ELSE IF s[i] \in S THEN Append(g[i - 1], s[i]) ELSE g[i - 1]]
    <3>1. PICK g : IsKept(g, s, S, Len(s))
      BY KeptExists
    <3>2. QED
      BY <3>1, Zenon DEF IsKept
  <2>2. f = [i \in 0 .. Len(s) |-> IF i = 0 THEN <<>> ELSE IF s[i] \in S THEN Append(f[i - 1], s[i]) ELSE f[i - 1]]
    BY <1>1, <2>1, Zenon
  <2>3. QED
    BY <2>2, Zenon DEF IsKept
<1>4. QED
  BY <1>2, <1>3


\* The steps of the recursion.
Keeps(f, s, S, n) ==
  /\ f[0] = <<>>
  /\ \A m \in 1 .. n : f[m] = IF s[m] \in S THEN Append(f[m - 1], s[m]) ELSE f[m - 1]

LEMMA AmongSteps ==
  ASSUME NEW s, NEW S, NEW n \in Nat, Len(s) = n
  PROVE  \E f : Keeps(f, s, S, n) /\ Among(s, S) = f[n]
<1>1. PICK f : IsKept(f, s, S, n) /\ Among(s, S) = f[n]
  BY AmongIs
<1>2. \A i \in 0 .. n : f[i] = IF i = 0 THEN <<>> ELSE IF s[i] \in S THEN Append(f[i - 1], s[i]) ELSE f[i - 1]
  BY <1>1, Zenon DEF IsKept
<1>3. Keeps(f, s, S, n)
  BY <1>2 DEF Keeps
<1>4. QED
  BY <1>1, <1>3

Once(s) == \A i, j \in DOMAIN s : s[i] = s[j] => i = j

LEMMA AppendFacts ==
  ASSUME NEW U, NEW t \in Seq(U), NEW x \in U
  PROVE  /\ Append(t, x) \in Seq(U) /\ Range(Append(t, x)) = Range(t) \cup {x}
         /\ Once(t) /\ x \notin Range(t) => Once(Append(t, x))
<1>1. Append(t, x) \in Seq(U) /\ Len(Append(t, x)) = Len(t) + 1
  OBVIOUS
<1>2. DOMAIN t = 1 .. Len(t) /\ DOMAIN Append(t, x) = 1 .. Len(t) + 1 /\ Len(t) \in Nat
  OBVIOUS
<1>3. \A i \in DOMAIN Append(t, x) : Append(t, x)[i] = IF i = Len(t) + 1 THEN x ELSE t[i]
  OBVIOUS
<1>4. Range(Append(t, x)) = Range(t) \cup {x}
  BY <1>2, <1>3 DEF Range
<1>5. ASSUME Once(t), x \notin Range(t) PROVE Once(Append(t, x))
  BY <1>2, <1>3, <1>5 DEF Once, Range
<1>6. QED
  BY <1>1, <1>4, <1>5

\* The sequence of the elements that are in the set: none is lost or added, and
\* none is there twice that was not.
LEMMA AmongFacts ==
  ASSUME NEW U, NEW s \in Seq(U), NEW S
  PROVE  /\ Among(s, S) \in Seq(U) /\ Range(Among(s, S)) = Range(s) \cap S
         /\ Once(s) => Once(Among(s, S))
<1>1. PICK n \in Nat : Len(s) = n
  OBVIOUS
<1>2. PICK f : Keeps(f, s, S, n) /\ Among(s, S) = f[n]
  BY <1>1, AmongSteps
<1>3. PICK first : first = [m \in 0 .. n |-> {s[i] : i \in 1 .. m}]
  OBVIOUS
<1>4. PICK G : G = {m \in 0 .. n : /\ f[m] \in Seq(U) /\ Range(f[m]) = first[m] \cap S
                                   /\ Once(s) => Once(f[m])}
  OBVIOUS
<1>5. 0 \in G
  <2>1. Range(f[0]) = {} /\ first[0] = {} /\ Once(f[0])
    BY <1>2, <1>3 DEF Range, Once, Keeps
  <2>2. f[0] \in Seq(U)
    BY <1>2 DEF Keeps
  <2>3. QED
    BY <1>1, <1>4, <2>1, <2>2
<1>6. ASSUME NEW m \in 1 .. n, m - 1 \in G PROVE m \in G
  <2>1. f[m] = IF s[m] \in S THEN Append(f[m - 1], s[m]) ELSE f[m - 1]
    BY <1>2 DEF Keeps
  <2>2. f[m - 1] \in Seq(U) /\ Range(f[m - 1]) = first[m - 1] \cap S /\ (Once(s) => Once(f[m - 1]))
    BY <1>4, <1>6, Zenon
  <2>3. s[m] \in U
    BY <1>1
  <2>4. first[m] = first[m - 1] \cup {s[m]}
    BY <1>3
  <2>5. Once(s) => s[m] \notin first[m - 1]
    BY <1>1, <1>3 DEF Once
  <2>6. CASE s[m] \in S
    <3>1. f[m] \in Seq(U) /\ Range(f[m]) = Range(f[m - 1]) \cup {s[m]}
      BY <2>1, <2>2, <2>3, <2>6, AppendFacts
    <3>2. Once(s) => Once(f[m])
      BY <2>1, <2>2, <2>3, <2>5, <2>6, AppendFacts
    <3>3. Range(f[m]) = first[m] \cap S
      BY <2>2, <2>4, <2>6, <3>1
    <3>4. QED
      BY <1>4, <3>1, <3>2, <3>3
  <2>7. CASE s[m] \notin S
    BY <1>4, <2>1, <2>2, <2>4, <2>7
  <2>8. QED
    BY <2>6, <2>7
<1>7. n \in G
  <2>1. \A m \in 1 .. n : m - 1 \in G => m \in G
    BY <1>6, Zenon
  <2>2. \A m \in 0 .. n : m \in G
    BY <1>5, <2>1, UpTo
  <2>3. QED
    BY <2>2
<1>8. f[n] \in Seq(U) /\ Range(f[n]) = first[n] \cap S /\ (Once(s) => Once(f[n]))
  BY <1>4, <1>7, Zenon
<1>9. first[n] = Range(s)
  BY <1>1, <1>3 DEF Range
<1>10. QED
  BY <1>2, <1>8, <1>9

\* The numbers up to n that are in S, in order.
Chosen(n, S) == Among([m \in 1 .. n |-> m], S)

\* Two selections that agree on every element are equal at every length.
LEMMA KeepsAgree ==
  ASSUME NEW n \in Nat, NEW f, NEW g, NEW s, NEW t, NEW S, NEW T,
         Keeps(f, s, S, n), Keeps(g, t, T, n),
         \A m \in 1 .. n : s[m] = t[m] /\ (s[m] \in S <=> t[m] \in T)
  PROVE  \A m \in 0 .. n : f[m] = g[m]
<1>1. PICK G : G = {m \in 0 .. n : f[m] = g[m]}
  OBVIOUS
<1>2. 0 \in G
  BY <1>1 DEF Keeps
<1>3. ASSUME NEW m \in 1 .. n, m - 1 \in G PROVE m \in G
  <2>1. f[m - 1] = g[m - 1] /\ m \in 0 .. n
    BY <1>1, <1>3
  <2>2. f[m] = (IF s[m] \in S THEN Append(f[m - 1], s[m]) ELSE f[m - 1])
    BY DEF Keeps
  <2>3. g[m] = (IF t[m] \in T THEN Append(g[m - 1], t[m]) ELSE g[m - 1])
    BY DEF Keeps
  <2>4. s[m] = t[m] /\ (s[m] \in S <=> t[m] \in T)
    OBVIOUS
  <2>5. f[m] = g[m]
    BY <2>1, <2>2, <2>3, <2>4, Zenon
  <2>6. QED
    BY <1>1, <2>1, <2>5
<1>4. \A m \in 0 .. n : m \in G
  BY <1>2, <1>3, UpTo
<1>5. QED
  BY <1>1, <1>4

LEMMA NumbersUpTo ==
  ASSUME NEW n \in Nat
  PROVE  [m \in 1 .. n |-> m] \in Seq(Nat) /\ Len([m \in 1 .. n |-> m]) = n
OBVIOUS

\* What is chosen depends on the members up to n only, and grows at its end.
LEMMA ChosenFacts ==
  ASSUME NEW n \in Nat, NEW S, NEW T
  PROVE  /\ Chosen(0, S) = <<>>
         /\ (\A m \in 1 .. n : m \in S <=> m \in T) => Chosen(n, S) = Chosen(n, T)
         /\ Chosen(n + 1, S) = IF n + 1 \in S THEN Append(Chosen(n, S), n + 1) ELSE Chosen(n, S)
<1>0. n + 1 \in Nat /\ 0 \in Nat
  OBVIOUS
<1>1. Chosen(0, S) = <<>>
  <2>1. PICK f : Keeps(f, [m \in 1 .. 0 |-> m], S, 0) /\ Chosen(0, S) = f[0]
    BY <1>0, NumbersUpTo, AmongSteps DEF Chosen
  <2>2. QED
    BY <2>1 DEF Keeps
<1>2. PICK s : s = [m \in 1 .. n |-> m]
  OBVIOUS
<1>3. PICK t : t = [m \in 1 .. n + 1 |-> m]
  OBVIOUS
<1>4. Len(s) = n /\ Len(t) = n + 1
  BY <1>0, <1>2, <1>3, NumbersUpTo
<1>5. PICK f : Keeps(f, s, S, n) /\ Among(s, S) = f[n]
  BY <1>4, AmongSteps
<1>6. PICK g : Keeps(g, s, T, n) /\ Among(s, T) = g[n]
  BY <1>4, AmongSteps
<1>7. PICK h : Keeps(h, t, S, n + 1) /\ Among(t, S) = h[n + 1]
  BY <1>0, <1>4, AmongSteps
<1>8. Chosen(n, S) = f[n] /\ Chosen(n, T) = g[n] /\ Chosen(n + 1, S) = h[n + 1]
  BY <1>2, <1>3, <1>5, <1>6, <1>7, Zenon DEF Chosen
<1>9. ASSUME \A m \in 1 .. n : m \in S <=> m \in T
      PROVE  f[n] = g[n]
  <2>1. \A m \in 1 .. n : s[m] = s[m] /\ (s[m] \in S <=> s[m] \in T)
    BY <1>2, <1>9
  <2>2. \A m \in 0 .. n : f[m] = g[m]
    BY <1>5, <1>6, <2>1, KeepsAgree
  <2>3. QED
    BY <2>2
<1>10. h[n + 1] = IF n + 1 \in S THEN Append(f[n], n + 1) ELSE f[n]
  <2>1. Keeps(h, t, S, n)
    BY <1>7 DEF Keeps
  <2>2. \A m \in 1 .. n : s[m] = t[m] /\ (s[m] \in S <=> t[m] \in S)
    BY <1>2, <1>3
  <2>3. \A m \in 0 .. n : f[m] = h[m]
    BY <1>5, <2>1, <2>2, KeepsAgree
  <2>4. f[n] = h[n] /\ t[n + 1] = n + 1 /\ (n + 1) - 1 = n /\ n + 1 \in 1 .. n + 1
    BY <1>3, <2>3
  <2>5. h[n + 1] = IF t[n + 1] \in S THEN Append(h[(n + 1) - 1], t[n + 1]) ELSE h[(n + 1) - 1]
    BY <1>7, <2>4 DEF Keeps
  <2>6. QED
    BY <2>4, <2>5
<1>11. QED
  BY <1>1, <1>8, <1>9, <1>10
=============================================================================
