------------------------- MODULE LedgerAuditProofs --------------------------
(***************************************************************************)
(* Proofs about the Merkle tree (MerkleTree) and about the audit that uses *)
(* it (LedgerAudit), for every number of leaves.                           *)
(*                                                                         *)
(* The tree: the inclusion proof of a leaf is accepted, and no proof is    *)
(* accepted for another leaf at an index of the tree.  After each turn     *)
(* verify_proof's hash is the node of that layer above the claimed index   *)
(* if it started from the leaf that stands there, and differs from that    *)
(* node if it did not, whatever the siblings are.                          *)
(*                                                                         *)
(* The audit: no leaf of a chain occurs twice, so an entry out of its      *)
(* place does not link; and a root has one first and one last leaf, which  *)
(* settles how many leaves it was made of.                                 *)
(***************************************************************************)
EXTENDS LedgerAudit, SelectionProofs

\* next_layer returns half as many nodes, rounded up.
LEMMA NextLayerShape ==
  ASSUME NEW layer, IsSeq(layer)
  PROVE  /\ IsSeq(NextLayer(layer))
         /\ Len(NextLayer(layer)) = (Len(layer) + 1) \div 2
         /\ \A i \in 1 .. (Len(layer) + 1) \div 2 :
              NextLayer(layer)[i] =
                HashPair(layer[2 * i - 1],
                         layer[IF 2 * i <= Len(layer) THEN 2 * i ELSE 2 * i - 1])
<1> DEFINE n == (Len(layer) + 1) \div 2
<1>1. n \in Nat
  BY DEF IsSeq
<1>2. /\ NextLayer(layer) = [i \in 1 .. n |-> NextLayer(layer)[i]]
      /\ \A i \in 1 .. n :
           NextLayer(layer)[i] =
             HashPair(layer[2 * i - 1],
                      layer[IF 2 * i <= Len(layer) THEN 2 * i ELSE 2 * i - 1])
  BY DEF NextLayer
<1> QED
  BY <1>1, <1>2, SeqOfFunction

\* Hashing a node with its sibling, on the side its index tells, gives the node
\* above it.
LEMMA ParentOfNode ==
  ASSUME NEW layer, IsSeq(layer), NEW i \in 0 .. Len(layer) - 1
  PROVE  /\ i \div 2 \in 0 .. Len(NextLayer(layer)) - 1
         /\ NextLayer(layer)[i \div 2 + 1] =
              IF i % 2 = 0 THEN HashPair(layer[i + 1], Sibling(layer, i))
                           ELSE HashPair(Sibling(layer, i), layer[i + 1])
<1> DEFINE n == Len(layer)  q == i \div 2
<1>1. n \in Nat /\ i \in Nat /\ i < n
  BY DEF IsSeq
<1>2. q \in Nat /\ (i = 2 * q \/ i = 2 * q + 1)
  BY <1>1
<1>3. q + 1 \in 1 .. (n + 1) \div 2
  BY <1>1, <1>2
<1>4. NextLayer(layer)[q + 1] =
        HashPair(layer[2 * (q + 1) - 1],
                 layer[IF 2 * (q + 1) <= n THEN 2 * (q + 1) ELSE 2 * (q + 1) - 1])
  BY <1>3, NextLayerShape
<1>5. CASE i = 2 * q
  <2>1. i % 2 = 0 /\ 2 * (q + 1) - 1 = i + 1 /\ 2 * (q + 1) = i + 2
    BY <1>2, <1>5
  <2>2. Sibling(layer, i) = layer[IF i + 1 < n THEN i + 2 ELSE i + 1]
    BY <2>1, <1>1 DEF Sibling
  <2>3. i + 2 <= n <=> i + 1 < n
    BY <1>1
  <2> QED
    BY <1>3, <1>4, <2>1, <2>2, <2>3, NextLayerShape
<1>6. CASE i = 2 * q + 1
  <2>1. i % 2 = 1 /\ 2 * (q + 1) - 1 = i /\ 2 * (q + 1) = i + 1
    BY <1>2, <1>6
  <2>2. Sibling(layer, i) = layer[i]
    BY <2>1, <1>1 DEF Sibling
  <2>3. i + 1 <= n
    BY <1>1
  <2> QED
    BY <1>3, <1>4, <2>1, <2>2, <2>3, NextLayerShape
<1> QED
  BY <1>2, <1>5, <1>6

\* The node above position i has the node at i on the side that i tells.
LEMMA ParentHolds ==
  ASSUME NEW layer, IsSeq(layer), NEW i \in 0 .. Len(layer) - 1
  PROVE  /\ i \div 2 \in 0 .. Len(NextLayer(layer)) - 1
         /\ NextLayer(layer)[i \div 2 + 1][IF i % 2 = 0 THEN 1 ELSE 2] = layer[i + 1]
<1> DEFINE node == NextLayer(layer)[i \div 2 + 1]
<1>1. i \div 2 \in 0 .. Len(NextLayer(layer)) - 1
  BY ParentOfNode
<1>2. i % 2 = 0 => node = HashPair(layer[i + 1], Sibling(layer, i))
  BY ParentOfNode
<1>3. i % 2 # 0 => node = HashPair(Sibling(layer, i), layer[i + 1])
  BY ParentOfNode
<1> HIDE DEF node
<1>4. node[IF i % 2 = 0 THEN 1 ELSE 2] = layer[i + 1]
  BY <1>2, <1>3 DEF HashPair
<1> QED
  BY <1>1, <1>4 DEF node

-----------------------------------------------------------------------------
(* The inductive invariant.  PathOK says that path and proof are what the  *)
(* climb makes of the leaves; OnPath that an honest verification has       *)
(* reached the node of layer at on the path; OffPath that one of another   *)
(* leaf has missed the node above the index it claims.                     *)

Shape ==
  /\ pc \in {"climb", "verify", "accept", "reject"}
  /\ IsSeq(leaves) /\ Len(leaves) \in 1 .. MaxLeaves
  /\ index \in 0 .. Len(leaves) - 1
  /\ claim.index \in 0 .. MaxIndex /\ idx \in 0 .. MaxIndex
  /\ IsSeq(path) /\ IsSeq(proof) /\ Len(path) = Len(proof) + 1
  /\ at \in 0 .. Len(proof)
  /\ pc = "climb" => at = 0
  /\ pc \in {"accept", "reject"} => at = Len(proof)

PathOK ==
  /\ path[1] = [layer |-> leaves, idx |-> index]
  /\ \A k \in 1 .. Len(path) :
       IsSeq(path[k].layer) /\ path[k].idx \in 0 .. Len(path[k].layer) - 1
  /\ \A k \in 1 .. Len(proof) :
       /\ path[k + 1] = [layer |-> NextLayer(path[k].layer), idx |-> path[k].idx \div 2]
       /\ proof[k] = Sibling(path[k].layer, path[k].idx)
  /\ pc # "climb" => Len(Level.layer) = 1

OnPath ==
  Honest =>
    /\ hash = path[at + 1].layer[path[at + 1].idx + 1]
    /\ idx = path[at + 1].idx
    /\ pc # "reject"

OffPath ==
  claim.index < Len(leaves) /\ claim.leaf # leaves[claim.index + 1] =>
    /\ idx \in 0 .. Len(path[at + 1].layer) - 1
    /\ hash # path[at + 1].layer[idx + 1]
    /\ pc # "accept"

IInv == Shape /\ PathOK /\ OnPath /\ OffPath

LEMMA AskedInv ==
  ASSUME NEW ledger, IsSeq(ledger), Len(ledger) \in 1 .. MaxLeaves, Asked(ledger)
  PROVE  IInv
<1> USE MerkleAssumption
<1>1. IsSeq(leaves) /\ Len(leaves) \in 1 .. MaxLeaves
  BY DEF Asked
<1>2. IsSeq(path) /\ Len(path) = 1 /\ path[1] = [layer |-> leaves, idx |-> index]
  <2>1. path \in Seq({[layer |-> leaves, idx |-> index]})
    BY DEF Asked
  <2> QED
    BY <2>1, SeqIsSeq DEF Asked
<1>3. IsSeq(proof) /\ Len(proof) = 0
  BY DEF Asked, IsSeq
<1>4. Shape
  BY <1>1, <1>2, <1>3 DEF Asked, Shape
<1>5. PathOK
  <2>1. index \in 0 .. Len(leaves) - 1 /\ pc = "climb"
    BY DEF Asked
  <2>2. path[1].layer = leaves /\ path[1].idx = index
    BY <1>2
  <2>3. \A k \in 1 .. Len(path) : k = 1
    BY <1>2
  <2>4. \A k \in 1 .. Len(proof) : FALSE
    BY <1>3
  <2>5. QED
    BY <1>1, <1>2, <2>1, <2>2, <2>3, <2>4 DEF PathOK
<1>6. OnPath
  BY <1>2 DEF Asked, OnPath, Honest
<1>7. OffPath
  BY <1>1, <1>2 DEF Asked, OffPath, IsSeq
<1> QED
  BY <1>4, <1>5, <1>6, <1>7 DEF IInv

LEMMA InitInv == Init => IInv
<1> SUFFICES ASSUME NEW n \in 1 .. MaxLeaves, NEW ledger \in [1 .. n -> Leaf], Asked(ledger)
             PROVE  IInv
  BY DEF Init
<1>1. n \in Nat /\ ledger = [i \in 1 .. n |-> ledger[i]]
  BY MerkleAssumption
<1>2. IsSeq(ledger) /\ Len(ledger) = n
  BY <1>1, SeqOfFunction
<1> QED
  BY <1>2, AskedInv

LEMMA StepInv == IInv /\ [Next]_vars => IInv'
<1> SUFFICES ASSUME IInv, [Next]_vars PROVE IInv'
  OBVIOUS
<1> USE MerkleAssumption
<1>l. Len(path) \in Nat /\ Len(proof) \in Nat /\ Len(path) = Len(proof) + 1
  BY DEF IInv, Shape, IsSeq
<1>1. CASE Climb
  <2> DEFINE l == Level.layer  i == Level.idx  s == Sibling(l, i)
             above == [layer |-> NextLayer(l), idx |-> i \div 2]
  <2>1. /\ proof' = Append(proof, s)
        /\ path' = Append(path, above)
        /\ UNCHANGED <<leaves, index, claim, hash, idx, at, pc>>
        /\ pc = "climb" /\ at = 0
    BY <1>1 DEF Climb, IInv, Shape
  <2>2. IsSeq(l) /\ i \in 0 .. Len(l) - 1
    BY <1>l DEF IInv, PathOK, Level
  <2>3. /\ IsSeq(proof') /\ Len(proof') = Len(proof) + 1
        /\ proof'[Len(proof) + 1] = s
        /\ \A k \in 1 .. Len(proof) : proof'[k] = proof[k]
    <3>1. IsSeq(proof)
      BY DEF IInv, Shape
    <3> HIDE DEF s
    <3> QED
      BY <2>1, <3>1, AppendAny
  <2>4. /\ IsSeq(path') /\ Len(path') = Len(path) + 1
        /\ path'[Len(path) + 1] = above
        /\ \A k \in 1 .. Len(path) : path'[k] = path[k]
    <3>1. IsSeq(path)
      BY DEF IInv, Shape
    <3> HIDE DEF above
    <3> QED
      BY <2>1, <3>1, AppendAny
  <2>5. IsSeq(above.layer) /\ above.idx \in 0 .. Len(above.layer) - 1
    BY <2>2, ParentOfNode, NextLayerShape
  <2>6. Shape'
    <3>1. Len(path)' = Len(proof)' + 1 /\ at' \in 0 .. Len(proof)' /\ at' = 0
      BY <2>1, <2>3, <2>4, <1>l
    <3>2. IsSeq(leaves)' /\ IsSeq(path)' /\ IsSeq(proof)'
      BY <2>1, <2>3, <2>4 DEF IInv, Shape, IsSeq
    <3> QED
      BY <3>1, <3>2, <2>1 DEF IInv, Shape
  <2>7. PathOK'
    <3>1. path'[1] = [layer |-> leaves', idx |-> index']
      BY <2>1, <2>4, <1>l DEF IInv, PathOK
    <3>2. ASSUME NEW k \in 1 .. Len(path')
          PROVE  IsSeq(path'[k].layer) /\ path'[k].idx \in 0 .. Len(path'[k].layer) - 1
      <4>1. CASE k = Len(path) + 1
        <5> HIDE DEF above
        <5> QED
          BY <4>1, <2>4, <2>5
      <4>2. CASE k \in 1 .. Len(path)
        BY <4>2, <2>4 DEF IInv, PathOK
      <4> QED
        BY <4>1, <4>2, <2>4, <1>l
    <3>3. ASSUME NEW k \in 1 .. Len(proof')
          PROVE  /\ path'[k + 1] = [layer |-> NextLayer(path'[k].layer), idx |-> path'[k].idx \div 2]
                 /\ proof'[k] = Sibling(path'[k].layer, path'[k].idx)
      <4>1. CASE k = Len(proof) + 1
        <5>1. path'[k] = Level /\ path'[k + 1] = above /\ proof'[k] = s
          BY <4>1, <2>3, <2>4, <1>l DEF Level
        <5> QED
          BY <5>1
      <4>2. CASE k \in 1 .. Len(proof)
        <5>1. path'[k] = path[k] /\ path'[k + 1] = path[k + 1] /\ proof'[k] = proof[k]
          BY <4>2, <2>3, <2>4, <1>l
        <5> QED
          BY <5>1, <4>2 DEF IInv, PathOK
      <4> QED
        BY <4>1, <4>2, <2>3, <1>l
    <3> QED
      BY <3>1, <3>2, <3>3, <2>1 DEF PathOK
  <2>8. OnPath'
    <3>1. path'[at' + 1] = path[at + 1]
      BY <2>1, <2>4, <1>l
    <3>2. Honest' <=> Honest
      BY <2>1 DEF Honest
    <3> QED
      BY <3>1, <3>2, <2>1 DEF IInv, OnPath
  <2>9. OffPath'
    <3>1. path'[at' + 1] = path[at + 1]
      BY <2>1, <2>4, <1>l
    <3> QED
      BY <3>1, <2>1 DEF IInv, OffPath
  <2> QED
    BY <2>6, <2>7, <2>8, <2>9 DEF IInv
<1>2. CASE Proved
  <2>1. UNCHANGED <<leaves, index, claim, path, proof, hash, idx, at>> /\ pc' = "verify"
    BY <1>2 DEF Proved
  <2>2. Len(Level.layer) = 1
    <3>1. IsSeq(Level.layer) /\ Level.idx \in 0 .. Len(Level.layer) - 1
      BY <1>l DEF IInv, PathOK, Level
    <3>2. Len(Level.layer) <= 1
      BY <1>2 DEF Proved
    <3>3. Len(Level.layer) \in Nat
      BY <3>1 DEF IsSeq
    <3> DEFINE n == Len(Level.layer)  i == Level.idx
    <3>4. n \in Nat /\ n <= 1 /\ i \in 0 .. n - 1
      BY <3>1, <3>2, <3>3
    <3> HIDE DEF n, i
    <3>5. n = 1
      BY <3>4
    <3> QED
      BY <3>5 DEF n
  <2> QED
    BY <2>1, <2>2 DEF IInv, Shape, PathOK, OnPath, OffPath, Level, Honest, IsSeq
<1>3. CASE Turn
  <2>1. /\ UNCHANGED <<leaves, index, claim, path, proof, pc>>
        /\ at' = at + 1 /\ idx' = idx \div 2
        /\ at \in 0 .. Len(proof) - 1 /\ pc = "verify"
    BY <1>3, <1>l DEF Turn, IInv, Shape
  <2>2. Shape'
    BY <2>1, <1>l DEF IInv, Shape, IsSeq
  <2>3. PathOK'
    BY <2>1 DEF IInv, PathOK, Level, IsSeq
  <2>4. OnPath'
    <3> SUFFICES ASSUME Honest
                 PROVE  hash' = path[at + 2].layer[path[at + 2].idx + 1] /\ idx' = path[at + 2].idx
      BY <2>1, <1>l DEF OnPath, Honest
    <3> DEFINE k == at + 1  l == path[k].layer  i == path[k].idx
    <3>1. k \in 1 .. Len(proof) /\ k \in 1 .. Len(path)
      BY <2>1, <1>l
    <3>2. IsSeq(l) /\ i \in 0 .. Len(l) - 1
      BY <3>1 DEF IInv, PathOK
    <3>3. path[k + 1] = [layer |-> NextLayer(l), idx |-> i \div 2] /\ proof[k] = Sibling(l, i)
      BY <3>1 DEF IInv, PathOK
    <3>4. hash = l[i + 1] /\ idx = i
      BY DEF IInv, OnPath
    <3>5. hash' = IF i % 2 = 0 THEN HashPair(l[i + 1], Sibling(l, i))
                               ELSE HashPair(Sibling(l, i), l[i + 1])
      BY <1>3, <3>3, <3>4 DEF Turn
    <3>6. hash' = NextLayer(l)[i \div 2 + 1]
      BY <3>2, <3>5, ParentOfNode
    <3>7. at + 2 = k + 1
      BY <2>1
    <3> QED
      BY <3>3, <3>4, <3>6, <3>7, <2>1
  <2>5. OffPath'
    <3> SUFFICES ASSUME claim.index < Len(leaves), claim.leaf # leaves[claim.index + 1]
                 PROVE  /\ idx' \in 0 .. Len(path[at + 2].layer) - 1
                        /\ hash' # path[at + 2].layer[idx' + 1]
      BY <2>1, <1>l DEF OffPath
    <3> DEFINE k == at + 1  l == path[k].layer  side == IF idx % 2 = 0 THEN 1 ELSE 2
    <3>1. k \in 1 .. Len(proof) /\ k \in 1 .. Len(path)
      BY <2>1, <1>l
    <3>2. IsSeq(l) /\ idx \in 0 .. Len(l) - 1 /\ hash # l[idx + 1]
      BY <3>1 DEF IInv, PathOK, OffPath
    <3>3. path[k + 1] = [layer |-> NextLayer(l), idx |-> path[k].idx \div 2]
      BY <3>1 DEF IInv, PathOK
    <3>4. /\ idx \div 2 \in 0 .. Len(NextLayer(l)) - 1
          /\ NextLayer(l)[idx \div 2 + 1][side] = l[idx + 1]
      BY <3>2, ParentHolds
    <3>5. hash'[side] = hash
      BY <1>3 DEF Turn, HashPair
    <3>6. at + 2 = k + 1
      BY <2>1
    <3> QED
      BY <3>2, <3>3, <3>4, <3>5, <3>6, <2>1
  <2> QED
    BY <2>2, <2>3, <2>4, <2>5 DEF IInv
<1>4. CASE Answer
  <2>1. /\ UNCHANGED <<leaves, index, claim, path, proof, hash, idx, at>>
        /\ at = Len(proof) /\ pc = "verify"
        /\ pc' = IF hash = Root THEN "accept" ELSE "reject"
    BY <1>4 DEF Answer
  <2>2. Shape'
    BY <2>1 DEF IInv, Shape, IsSeq
  <2>3. PathOK'
    BY <2>1 DEF IInv, PathOK, Level, IsSeq
  <2>4. OnPath'
    <3>1. Level.idx = 0
      <4>1. Level.idx \in 0 .. Len(Level.layer) - 1 /\ Len(Level.layer) = 1
        BY <1>l, <2>1 DEF IInv, PathOK, Level
      <4> QED
        BY <4>1
    <3>2. path[at + 1] = Level
      BY <2>1, <1>l DEF Level
    <3>3. Honest => hash = Root
      BY <3>1, <3>2 DEF IInv, OnPath, Root
    <3> QED
      BY <3>3, <2>1 DEF IInv, OnPath, Honest
  <2>5. OffPath'
    <3> SUFFICES ASSUME claim.index < Len(leaves), claim.leaf # leaves[claim.index + 1]
                 PROVE  pc' # "accept"
      BY <2>1 DEF IInv, OffPath
    <3>1. path[at + 1] = Level /\ Len(Level.layer) = 1
      BY <2>1, <1>l DEF Level, IInv, PathOK
    <3>2. idx = 0 /\ hash # Root
      BY <3>1 DEF IInv, OffPath, Root
    <3> QED
      BY <3>2, <2>1
  <2> QED
    BY <2>2, <2>3, <2>4, <2>5 DEF IInv
<1>5. CASE UNCHANGED vars
  BY <1>5 DEF vars, IInv, Shape, PathOK, OnPath, OffPath, Level, Honest, IsSeq
<1> QED
  BY <1>1, <1>2, <1>3, <1>4, <1>5 DEF Next

LEMMA InvImplies == IInv => TypeOK /\ ProofVerifies /\ ProofsSound
<1> SUFFICES ASSUME IInv PROVE TypeOK /\ ProofVerifies /\ ProofsSound
  OBVIOUS
<1>1. IsSeq(path) /\ Len(path) = Len(proof) + 1 /\ DOMAIN path = 1 .. Len(path)
  BY DEF IInv, Shape, IsSeq
<1>2. ASSUME NEW k \in DOMAIN path PROVE path[k].idx < Len(path[k].layer)
  <2>1. k \in 1 .. Len(path)
    BY <1>1, <1>2
  <2>2. IsSeq(path[k].layer) /\ path[k].idx \in 0 .. Len(path[k].layer) - 1
    BY <2>1 DEF IInv, PathOK
  <2>3. Len(path[k].layer) \in Nat
    BY <2>2 DEF IsSeq
  <2> QED
    BY <2>2, <2>3
<1>3. TypeOK
  BY <1>1, <1>2 DEF TypeOK, IInv, Shape
<1> QED
  BY <1>3 DEF ProofVerifies, ProofsSound, IInv, OnPath, OffPath

\* The indices and lengths of the climb and of the verification stay in range:
\* idx never points past the layer it is used on.
THEOREM MerkleTypeCorrect == Spec => []TypeOK
<1> QED
  BY InitInv, StepInv, InvImplies, PTL DEF Spec

\* For every number of leaves and every index, verify_proof accepts the proof
\* that inclusion_proof makes for the leaf, against merkle_root's root.
THEOREM ProofAlwaysVerifies == Spec => []ProofVerifies
<1> QED
  BY InitInv, StepInv, InvImplies, PTL DEF Spec

\* Whichever leaf's proof it is, verify_proof accepts at an index of the tree
\* only the leaf that stands there.
THEOREM AcceptedAreSound == Spec => []ProofsSound
<1> QED
  BY InitInv, StepInv, InvImplies, PTL DEF Spec

-----------------------------------------------------------------------------
(* The chain *)

\* What entry k + 1 has to link to.
LinkOf(k) == IF k = 0 THEN Genesis ELSE written[k].leaf

\* The written entries link from the genesis hash on, and no leaf occurs twice.
Chained ==
  /\ IsSeq(written) /\ Len(written) \in 1 .. MaxLeaves
  /\ \A i \in 1 .. Len(written) :
       /\ written[i] = [payload |-> written[i].payload, sig |-> written[i].sig,
                        verdict |-> written[i].verdict, prev |-> written[i].prev,
                        leaf |-> written[i].leaf]
       /\ written[i].prev = LinkOf(i - 1)
       /\ written[i].leaf = LeafHash(written[i].payload, written[i].sig, written[i].prev)
Distinct == \A i, j \in 0 .. Len(written) : LinkOf(i) = LinkOf(j) => i = j

LEMMA HashFacts ==
  /\ \A p, s, l : LeafHash(p, s, l) # Genesis
  /\ \A p, s, l, a, b : LeafHash(p, s, l) # HashPair(a, b)
  /\ \A p, s, l, q, t, m : LeafHash(p, s, l) = LeafHash(q, t, m) => p = q /\ s = t /\ l = m
<1>1. \A p, s, l : LeafHash(p, s, l) # Genesis
  BY DEF LeafHash, Genesis
<1>2. \A p, s, l, a, b : LeafHash(p, s, l) # HashPair(a, b)
  BY DEF LeafHash, HashPair
<1>3. \A p, s, l, q, t, m : LeafHash(p, s, l) = LeafHash(q, t, m) => p = q /\ s = t /\ l = m
  BY DEF LeafHash
<1>4. QED
  BY <1>1, <1>2, <1>3

IsLink(f, a, n) ==
  f = [i \in 0 .. n |-> IF i = 0 THEN Genesis ELSE LeafHash(a[i].payload, a[i].sig, f[i - 1])]

\* The hashes of a chain exist, for every length.
LEMMA LinkExists ==
  ASSUME NEW a, NEW n \in Nat
  PROVE  \E f : IsLink(f, a, n)
<1>1. PICK G : G = {m \in 0 .. n : \E f : IsLink(f, a, m)}
  OBVIOUS
<1>2. 0 \in G
  <2>1. IsLink([i \in 0 .. 0 |-> Genesis], a, 0)
    BY DEF IsLink
  <2>2. QED
    BY <1>1, <2>1
<1>3. ASSUME NEW m \in 1 .. n, m - 1 \in G
      PROVE  m \in G
  <2>1. PICK f : IsLink(f, a, m - 1)
    BY <1>1, <1>3
  <2>2. PICK g : g = [i \in 0 .. m |-> IF i = m THEN LeafHash(a[m].payload, a[m].sig, f[m - 1]) ELSE f[i]]
    OBVIOUS
  <2>3. \A i \in 0 .. m - 1 : g[i] = f[i]
    BY <2>2
  <2>4. \A i \in 0 .. m - 1 : f[i] = IF i = 0 THEN Genesis ELSE LeafHash(a[i].payload, a[i].sig, f[i - 1])
    BY <2>1, Zenon DEF IsLink
  <2>5. ASSUME NEW i \in 0 .. m
        PROVE  g[i] = IF i = 0 THEN Genesis ELSE LeafHash(a[i].payload, a[i].sig, g[i - 1])
    <3>1. CASE i = m
      BY <2>2, <2>3, <3>1
    <3>2. CASE i # m
      BY <2>3, <2>4, <3>2
    <3>3. QED
      BY <3>1, <3>2
  <2>6. IsLink(g, a, m)
    BY <2>2, <2>5 DEF IsLink
  <2>7. QED
    BY <1>1, <2>6
<1>4. \A m \in 0 .. n : m \in G
  BY <1>2, <1>3, UpTo
<1>5. QED
  BY <1>1, <1>4

\* Append writes a chain, whatever is appended.
LEMMA ChainIsChained ==
  ASSUME NEW n \in 1 .. MaxLeaves, NEW a \in [1 .. n -> Unlinked], written = Chain(a)
  PROVE  Chained /\ Len(written) = n
<1>1. n \in Nat /\ Len(a) = n /\ DOMAIN a = 1 .. n
  <2>1. n \in Nat
    BY MerkleAssumption
  <2>2. a \in Seq(Unlinked)
    BY <2>1
  <2>3. QED
    BY <2>1, <2>2
<1>2. PICK f : /\ IsLink(f, a, n)
               /\ written = [i \in 1 .. n |-> Link(a[i], f[i - 1])]
  <2>1. PICK f : f = CHOOSE g : g = [i \in 0 .. Len(a) |->
          IF i = 0 THEN Genesis ELSE LeafHash(a[i].payload, a[i].sig, g[i - 1])]
    OBVIOUS
  <2>2. written = [i \in DOMAIN a |-> Link(a[i], f[i - 1])]
    BY <2>1 DEF Chain
  <2>3. \E g : g = [i \in 0 .. Len(a) |-> IF i = 0 THEN Genesis ELSE LeafHash(a[i].payload, a[i].sig, g[i - 1])]
    <3>1. PICK g : IsLink(g, a, Len(a))
      BY <1>1, LinkExists
    <3>2. QED
      BY <3>1, Zenon DEF IsLink
  <2>4. f = [i \in 0 .. Len(a) |-> IF i = 0 THEN Genesis ELSE LeafHash(a[i].payload, a[i].sig, f[i - 1])]
    BY <2>1, <2>3, Zenon
  <2>5. IsLink(f, a, n)
    BY <1>1, <2>4, Zenon DEF IsLink
  <2>6. QED
    BY <1>1, <2>2, <2>5
<1>3. IsSeq(written) /\ Len(written) = n
  <2>1. written = [i \in 1 .. n |-> written[i]]
    BY <1>2
  <2>2. QED
    BY <1>1, <2>1, SeqOfFunction
<1>4. \A i \in 0 .. n : f[i] = IF i = 0 THEN Genesis ELSE LeafHash(a[i].payload, a[i].sig, f[i - 1])
  BY <1>2, Zenon DEF IsLink
<1>5. \A i \in 1 .. n :
        written[i] = [payload |-> a[i].payload, sig |-> a[i].sig, verdict |-> a[i].verdict,
                      prev |-> f[i - 1], leaf |-> LeafHash(a[i].payload, a[i].sig, f[i - 1])]
  BY <1>2 DEF Link
<1>6. \A i \in 1 .. n : written[i].leaf = f[i]
  <2> TAKE i \in 1 .. n
  <2>1. i \in 0 .. n /\ i # 0
    BY <1>1
  <2>2. f[i] = LeafHash(a[i].payload, a[i].sig, f[i - 1])
    BY <1>4, <2>1
  <2>3. written[i].leaf = LeafHash(a[i].payload, a[i].sig, f[i - 1])
    <3>1. PICK h : h = f[i - 1]
      OBVIOUS
    <3>2. PICK l : l = LeafHash(a[i].payload, a[i].sig, h)
      OBVIOUS
    <3>3. written[i] = [payload |-> a[i].payload, sig |-> a[i].sig, verdict |-> a[i].verdict,
                        prev |-> h, leaf |-> l]
      BY <1>5, <3>1, <3>2
    <3>4. QED
      BY <3>1, <3>2, <3>3
  <2>4. QED
    BY <2>2, <2>3
<1>7. \A i \in 1 .. n : f[i - 1] = LinkOf(i - 1)
  <2> TAKE i \in 1 .. n
  <2>1. i - 1 \in 0 .. n /\ (i # 1 => i - 1 \in 1 .. n)
    BY <1>1
  <2>2. QED
    BY <1>1, <1>4, <1>6, <2>1 DEF LinkOf
<1>8. ASSUME NEW i \in 1 .. n
      PROVE  /\ written[i] = [payload |-> written[i].payload, sig |-> written[i].sig,
                              verdict |-> written[i].verdict, prev |-> written[i].prev,
                              leaf |-> written[i].leaf]
             /\ written[i].prev = LinkOf(i - 1)
             /\ written[i].leaf = LeafHash(written[i].payload, written[i].sig, written[i].prev)
  <2>1. PICK h : h = f[i - 1]
    OBVIOUS
  <2>2. PICK l : l = LeafHash(a[i].payload, a[i].sig, h)
    OBVIOUS
  <2>3. written[i] = [payload |-> a[i].payload, sig |-> a[i].sig, verdict |-> a[i].verdict,
                      prev |-> h, leaf |-> l]
    BY <1>5, <2>1, <2>2
  <2>4. h = LinkOf(i - 1)
    BY <1>7, <2>1
  <2>5. QED
    BY <2>2, <2>3, <2>4
<1>9. QED
  BY <1>3, <1>8 DEF Chained

LEMMA LinksDiffer ==
  ASSUME Chained
  PROVE  Distinct
<1>1. PICK n \in Nat : n = Len(written)
  BY DEF Chained, IsSeq
<1>2. \A i \in 1 .. n : \E p, s : LinkOf(i) = LeafHash(p, s, LinkOf(i - 1))
  <2> TAKE i \in 1 .. n
  <2>1. LinkOf(i) = LeafHash(written[i].payload, written[i].sig, LinkOf(i - 1))
    <3>1. i # 0 /\ i \in 1 .. Len(written)
      BY <1>1
    <3>2. /\ written[i].prev = LinkOf(i - 1)
          /\ written[i].leaf = LeafHash(written[i].payload, written[i].sig, written[i].prev)
      BY <3>1, Zenon DEF Chained
    <3>3. LinkOf(i) = written[i].leaf
      BY <3>1 DEF LinkOf
    <3>4. QED
      BY <3>2, <3>3, Zenon
  <2>2. QED
    BY <2>1
<1>3. PICK G : G = {i \in 0 .. n : \A j \in 0 .. n : LinkOf(i) = LinkOf(j) => i = j}
  OBVIOUS
<1>4. 0 \in G
  <2>1. ASSUME NEW j \in 0 .. n, LinkOf(0) = LinkOf(j), j # 0
        PROVE  FALSE
    BY <1>1, <1>2, <2>1, HashFacts DEF LinkOf
  <2>2. QED
    BY <1>1, <1>3, <2>1
<1>5. ASSUME NEW i \in 1 .. n, i - 1 \in G
      PROVE  i \in G
  <2>1. ASSUME NEW j \in 0 .. n, LinkOf(i) = LinkOf(j)
        PROVE  i = j
    <3>1. PICK p, s : LinkOf(i) = LeafHash(p, s, LinkOf(i - 1))
      BY <1>2
    <3>2. j # 0
      BY <2>1, <3>1, HashFacts DEF LinkOf
    <3>3. j \in 1 .. n /\ j - 1 \in 0 .. n
      BY <1>1, <3>2
    <3>4. PICK q, t : LinkOf(j) = LeafHash(q, t, LinkOf(j - 1))
      BY <1>2, <3>3
    <3>5. LinkOf(i - 1) = LinkOf(j - 1)
      <4>1. LeafHash(p, s, LinkOf(i - 1)) = LeafHash(q, t, LinkOf(j - 1))
        BY <2>1, <3>1, <3>4, Zenon
      <4>2. PICK x, y : x = LinkOf(i - 1) /\ y = LinkOf(j - 1)
        OBVIOUS
      <4>3. LeafHash(p, s, x) = LeafHash(q, t, y)
        BY <4>1, <4>2, Zenon
      <4>4. x = y
        BY <4>3 DEF LeafHash
      <4>5. QED
        BY <4>2, <4>4
    <3>6. i - 1 = j - 1
      BY <1>3, <1>5, <3>3, <3>5
    <3>7. QED
      BY <1>1, <3>3, <3>6
  <2>2. QED
    BY <1>1, <1>3, <2>1
<1>6. \A i \in 0 .. n : i \in G
  BY <1>1, <1>4, <1>5, UpTo
<1>7. QED
  BY <1>1, <1>3, <1>6 DEF Distinct

-----------------------------------------------------------------------------
(* The verdict.  Whatever one change does to a file, each of its entries   *)
(* still has the leaf of a written one, or all that this leaf is made of;  *)
(* so the only entry that links to written entry i and hashes to its own   *)
(* leaf is the next one.                                                   *)

Near(e, w) ==
  \/ e.leaf = w.leaf
  \/ e.payload = w.payload /\ e.sig = w.sig /\ e.prev = w.prev

EachNear(f) == \A i \in 1 .. Len(f) : \E j \in 1 .. Len(written) : Near(f[i], written[j])
FileOK == IsSeq(file) /\ Len(file) \in 1 .. MaxLeaves /\ EachNear(file)

WalkOK ==
  /\ answer \in {"none", "ok", "bad"}
  /\ passed \in 0 .. Len(file) /\ prev = LinkOf(passed)
  /\ \A i \in 1 .. passed : Same(i)
  /\ answer = "ok" => passed = Len(file)
  /\ answer = "bad" => passed < Len(file) /\ firstBad = passed /\ ~Same(passed + 1)

AuditInv == Chained /\ FileOK /\ WalkOK /\ leaves = Leaves(file) /\ IInv

LEMMA SameIs ==
  ASSUME Chained, IsSeq(file), NEW i
  PROVE  Same(i) <=> /\ i \in 1 .. Len(file) /\ i \in 1 .. Len(written)
                     /\ file[i].payload = written[i].payload /\ file[i].sig = written[i].sig
                     /\ file[i].prev = written[i].prev /\ file[i].leaf = written[i].leaf
<1>1. DOMAIN file = 1 .. Len(file) /\ DOMAIN written = 1 .. Len(written)
  BY DEF Chained, IsSeq
<1>2. QED
  BY <1>1 DEF Same, Hashed

\* The entry that links and hashes right is the one that was written next.
LEMMA PassedIsSame ==
  ASSUME Chained, FileOK, NEW k \in 0 .. Len(file) - 1,
         k > 0 => Same(k), VerifyEntry(file[k + 1], LinkOf(k))
  PROVE  Same(k + 1)
<1>1. Len(file) \in Nat /\ Len(written) \in Nat /\ k \in Nat /\ k + 1 \in 1 .. Len(file)
  BY DEF FileOK, Chained, IsSeq
<1>2. k \in 0 .. Len(written)
  BY <1>1, SameIs DEF FileOK
<1>3. PICK j \in 1 .. Len(written) : Near(file[k + 1], written[j])
  BY <1>1 DEF FileOK, EachNear
<1>4. PICK e, w : e = file[k + 1] /\ w = written[j]
  OBVIOUS
<1>5. e.prev = LinkOf(k) /\ e.leaf = LeafHash(e.payload, e.sig, e.prev)
  BY <1>4 DEF VerifyEntry
<1>6. w.prev = LinkOf(j - 1) /\ w.leaf = LeafHash(w.payload, w.sig, w.prev)
  BY <1>3, <1>4 DEF Chained
<1>7. Near(e, w)
  BY <1>3, <1>4, Zenon
<1>8. e.payload = w.payload /\ e.sig = w.sig /\ e.prev = w.prev /\ e.leaf = w.leaf
  <2>1. PICK l, m : l = e.leaf /\ m = w.leaf
    OBVIOUS
  <2>2. l = LeafHash(e.payload, e.sig, e.prev) /\ m = LeafHash(w.payload, w.sig, w.prev)
    BY <1>5, <1>6, <2>1
  <2>3. CASE l = m
    <3>1. e.payload = w.payload /\ e.sig = w.sig /\ e.prev = w.prev
      BY <2>2, <2>3 DEF LeafHash
    <3>2. QED
      BY <2>1, <2>3, <3>1
  <2>4. CASE e.payload = w.payload /\ e.sig = w.sig /\ e.prev = w.prev
    BY <2>1, <2>2, <2>4
  <2>5. QED
    BY <1>7, <2>1, <2>3, <2>4 DEF Near
<1>9. j = k + 1
  <2>1. LinkOf(k) = LinkOf(j - 1)
    BY <1>5, <1>6, <1>8, Zenon
  <2>2. j - 1 \in 0 .. Len(written)
    BY <1>1, <1>3
  <2>3. k = j - 1
    BY <1>2, <2>1, <2>2, LinksDiffer DEF Distinct
  <2>4. QED
    BY <1>1, <1>3, <2>3
<1>10. QED
  BY <1>1, <1>3, <1>4, <1>8, <1>9, SameIs DEF FileOK

\* An entry that is as it was written, and after what was written, passes.
LEMMA FailedIsOther ==
  ASSUME Chained, FileOK, NEW k \in 0 .. Len(file) - 1, ~VerifyEntry(file[k + 1], LinkOf(k))
  PROVE  ~Same(k + 1)
<1>1. SUFFICES ASSUME Same(k + 1) PROVE FALSE
  OBVIOUS
<1>2. Len(file) \in Nat /\ (k + 1) - 1 = k
  BY DEF FileOK, IsSeq
<1>3. /\ k + 1 \in 1 .. Len(written)
      /\ file[k + 1].payload = written[k + 1].payload /\ file[k + 1].sig = written[k + 1].sig
      /\ file[k + 1].prev = written[k + 1].prev /\ file[k + 1].leaf = written[k + 1].leaf
  BY <1>1, SameIs DEF FileOK
<1>4. /\ written[k + 1].prev = LinkOf(k)
      /\ written[k + 1].leaf = LeafHash(written[k + 1].payload, written[k + 1].sig, written[k + 1].prev)
  BY <1>2, <1>3 DEF Chained
<1>5. QED
  BY <1>3, <1>4 DEF VerifyEntry

\* One change leaves every entry near a written one.
LEMMA ChangesAreNear ==
  ASSUME Chained, NEW i \in DOMAIN written, NEW f \in Changes(written, i)
  PROVE  IsSeq(f) /\ EachNear(f)
<1>1. PICK n \in Nat : n = Len(written)
  BY DEF Chained, IsSeq
<1>2. i \in 1 .. n /\ DOMAIN written = 1 .. n /\ written = [k \in 1 .. n |-> written[k]]
  BY <1>1 DEF Chained, IsSeq
<1>3. \A k \in 1 .. n : written[k] = [payload |-> written[k].payload, sig |-> written[k].sig,
                                      verdict |-> written[k].verdict, prev |-> written[k].prev,
                                      leaf |-> written[k].leaf]
  BY <1>1 DEF Chained
<1>4. ASSUME NEW g, DOMAIN g = 1 .. n, g = [k \in 1 .. n |-> g[k]],
             \A k \in 1 .. n : \E j \in 1 .. n : Near(g[k], written[j])
      PROVE  IsSeq(g) /\ EachNear(g)
  <2>1. IsSeq(g) /\ Len(g) = n
    BY <1>4, SeqOfFunction
  <2>2. QED
    BY <1>1, <1>4, <2>1 DEF EachNear
<1>5. ASSUME NEW e, Near(e, written[i])
      PROVE  /\ IsSeq([written EXCEPT ![i] = e]) /\ EachNear([written EXCEPT ![i] = e])
  <2>1. PICK g : g = [written EXCEPT ![i] = e]
    OBVIOUS
  <2>2. g = [k \in 1 .. n |-> IF k = i THEN e ELSE written[k]]
    BY <1>2, <2>1
  <2>3. \A k \in 1 .. n : Near(g[k], written[k])
    BY <1>5, <2>2 DEF Near
  <2>4. IsSeq(g) /\ EachNear(g)
    BY <1>4, <2>2, <2>3
  <2>5. QED
    BY <2>1, <2>4
<1>6. PICK S : S = {written[k] : k \in 1 .. n}
  OBVIOUS
<1>7. ASSUME NEW g \in Seq(S)
      PROVE  IsSeq(g) /\ EachNear(g)
  <2>1. IsSeq(g)
    BY SeqIsSeq
  <2>2. \A k \in 1 .. Len(g) : g[k] \in S
    BY <1>7
  <2>3. \A k \in 1 .. Len(g) : \E j \in 1 .. n : g[k] = written[j]
    BY <1>6, <2>2
  <2>4. QED
    BY <1>1, <2>1, <2>3 DEF EachNear, Near
<1>8. written \in Seq(S) /\ written[i] \in S
  BY <1>1, <1>2, <1>6, SeqOfFunction
<1>9. CASE \/ \E p \in Payload : f = [written EXCEPT ![i].payload = p]
           \/ \E s \in Sig : f = [written EXCEPT ![i].sig = s]
           \/ \E v \in Verdict : f = [written EXCEPT ![i].verdict = v]
           \/ \E j \in DOMAIN written : f = [written EXCEPT ![i].leaf = written[j].leaf]
           \/ \E j \in DOMAIN written : f = [written EXCEPT ![i].prev = written[j].prev]
  <2>1. PICK w : /\ w = written[i]
                 /\ w = [payload |-> w.payload, sig |-> w.sig, verdict |-> w.verdict,
                         prev |-> w.prev, leaf |-> w.leaf]
    BY <1>2, <1>3
  <2>2. \E e : Near(e, w) /\ f = [written EXCEPT ![i] = e]
    <3>1. ASSUME NEW x
          PROVE  /\ Near([w EXCEPT !.payload = x], w) /\ Near([w EXCEPT !.sig = x], w)
                 /\ Near([w EXCEPT !.verdict = x], w) /\ Near([w EXCEPT !.leaf = x], w)
                 /\ Near([w EXCEPT !.prev = x], w)
      BY <2>1 DEF Near
    <3>2. QED
      BY <1>9, <2>1, <3>1
  <2>3. QED
    BY <1>5, <2>1, <2>2
<1>10. CASE \E j \in DOMAIN written : f = [written EXCEPT ![i] = written[j], ![j] = written[i]]
  <2>1. f \in [1 .. n -> S]
    BY <1>2, <1>6, <1>10
  <2>2. f \in Seq(S)
    BY <1>1, <2>1
  <2>3. QED
    BY <1>7, <2>2
<1>11. CASE f = RemoveAt(written, i) \/ f = InsertAt(written, i, written[i])
  <2>1. /\ SubSeq(written, 1, i - 1) \in Seq(S) /\ SubSeq(written, i + 1, n) \in Seq(S)
        /\ SubSeq(written, i, n) \in Seq(S) /\ <<written[i]>> \in Seq(S)
    BY <1>1, <1>2, <1>8
  <2>2. RemoveAt(written, i) \in Seq(S)
    BY <1>1, <2>1 DEF RemoveAt
  <2>3. InsertAt(written, i, written[i]) \in Seq(S)
    BY <1>1, <2>1 DEF InsertAt
  <2>4. QED
    BY <1>7, <1>11, <2>2, <2>3
<1>12. QED
  BY <1>9, <1>10, <1>11 DEF Changes

-----------------------------------------------------------------------------
(* The root.  In the layers of a tree the first component of the first     *)
(* node is the first node below, and the second component of the last node *)
(* the last node below; so a root determines the first and the last leaf,  *)
(* and at which depth the leaves are.                                      *)

\* Layers 0 to h of a tree.
Tower(P, h) ==
  /\ \A k \in 0 .. h : IsSeq(P[k]) /\ Len(P[k]) >= 1
  /\ \A k \in 1 .. h : P[k] = NextLayer(P[k - 1])
Rooted(P, h) == Tower(P, h) /\ Len(P[h]) = 1

LEMMA PairFacts ==
  ASSUME NEW a, NEW b, NEW c, NEW d, HashPair(a, b) = HashPair(c, d)
  PROVE  a = c /\ b = d
BY DEF HashPair

LEMMA EndsOfNext ==
  ASSUME NEW l, IsSeq(l), Len(l) >= 1
  PROVE  /\ IsSeq(NextLayer(l)) /\ Len(NextLayer(l)) >= 1
         /\ Len(l) > 1 => Len(NextLayer(l)) < Len(l)
         /\ \E b : NextLayer(l)[1] = HashPair(l[1], b)
         /\ \E a : NextLayer(l)[Len(NextLayer(l))] = HashPair(a, l[Len(l)])
<1>1. PICK n \in Nat : n = Len(l) /\ n >= 1
  BY DEF IsSeq
<1>2. PICK q \in Nat : q = (n + 1) \div 2 /\ q >= 1 /\ (n > 1 => q < n) /\ (n = 2 * q \/ n = 2 * q - 1)
  BY <1>1
<1>3. /\ IsSeq(NextLayer(l)) /\ Len(NextLayer(l)) = q
      /\ \A i \in 1 .. q :
           NextLayer(l)[i] = HashPair(l[2 * i - 1], l[IF 2 * i <= n THEN 2 * i ELSE 2 * i - 1])
  BY <1>1, <1>2, NextLayerShape
<1>4. \E b : NextLayer(l)[1] = HashPair(l[1], b)
  <2>1. 1 \in 1 .. q /\ 2 * 1 - 1 = 1
    BY <1>2
  <2>2. NextLayer(l)[1] = HashPair(l[2 * 1 - 1], l[IF 2 * 1 <= n THEN 2 * 1 ELSE 2 * 1 - 1])
    BY <1>3, <2>1
  <2>3. QED
    BY <2>1, <2>2
<1>5. \E a : NextLayer(l)[q] = HashPair(a, l[n])
  <2>1. q \in 1 .. q /\ (IF 2 * q <= n THEN 2 * q ELSE 2 * q - 1) = n
    BY <1>1, <1>2
  <2>2. NextLayer(l)[q] = HashPair(l[2 * q - 1], l[IF 2 * q <= n THEN 2 * q ELSE 2 * q - 1])
    BY <1>3, <2>1
  <2>3. QED
    BY <2>1, <2>2
<1>6. QED
  BY <1>1, <1>2, <1>3, <1>4, <1>5

\* Two trees with one root agree in the ends of their layers, from above.
LEMMA EndsAgree ==
  ASSUME NEW P, NEW Q, NEW h \in Nat, NEW g \in Nat, Rooted(P, h), Rooted(Q, g),
         P[h][1] = Q[g][1], h <= g
  PROVE  \A d \in 0 .. h : /\ P[h - d][1] = Q[g - d][1]
                           /\ P[h - d][Len(P[h - d])] = Q[g - d][Len(Q[g - d])]
<1>1. PICK G : G = {d \in 0 .. h : /\ P[h - d][1] = Q[g - d][1]
                                   /\ P[h - d][Len(P[h - d])] = Q[g - d][Len(Q[g - d])]}
  OBVIOUS
<1>2. 0 \in G
  BY <1>1 DEF Rooted
<1>3. ASSUME NEW d \in 1 .. h, d - 1 \in G
      PROVE  d \in G
  <2>1. PICK p, q : p = P[h - d] /\ q = Q[g - d]
    OBVIOUS
  <2>2. /\ h - d \in 0 .. h /\ h - (d - 1) \in 1 .. h /\ (h - (d - 1)) - 1 = h - d
        /\ g - d \in 0 .. g /\ g - (d - 1) \in 1 .. g /\ (g - (d - 1)) - 1 = g - d
    OBVIOUS
  <2>3. /\ IsSeq(p) /\ Len(p) >= 1 /\ P[h - (d - 1)] = NextLayer(p)
        /\ IsSeq(q) /\ Len(q) >= 1 /\ Q[g - (d - 1)] = NextLayer(q)
    BY <2>1, <2>2 DEF Rooted, Tower
  <2>4. /\ NextLayer(p)[1] = NextLayer(q)[1]
        /\ NextLayer(p)[Len(NextLayer(p))] = NextLayer(q)[Len(NextLayer(q))]
    BY <1>1, <1>3, <2>3
  <2>5. PICK b : NextLayer(p)[1] = HashPair(p[1], b)
    BY <2>3, EndsOfNext
  <2>6. PICK c : NextLayer(q)[1] = HashPair(q[1], c)
    BY <2>3, EndsOfNext
  <2>7. p[1] = q[1]
    <3>1. HashPair(p[1], b) = HashPair(q[1], c)
      BY <2>4, <2>5, <2>6, Zenon
    <3>2. QED
      BY <3>1, PairFacts, Zenon
  <2>8. PICK a : NextLayer(p)[Len(NextLayer(p))] = HashPair(a, p[Len(p)])
    BY <2>3, EndsOfNext
  <2>9. PICK e : NextLayer(q)[Len(NextLayer(q))] = HashPair(e, q[Len(q)])
    BY <2>3, EndsOfNext
  <2>10. p[Len(p)] = q[Len(q)]
    <3>1. HashPair(a, p[Len(p)]) = HashPair(e, q[Len(q)])
      BY <2>4, <2>8, <2>9, Zenon
    <3>2. PICK x, y : x = p[Len(p)] /\ y = q[Len(q)]
      OBVIOUS
    <3>3. HashPair(a, x) = HashPair(e, y)
      BY <3>1, <3>2, Zenon
    <3>4. x = y
      BY <3>3, PairFacts
    <3>5. QED
      BY <3>2, <3>4
  <2>11. QED
    BY <1>1, <2>1, <2>7, <2>10
<1>4. \A d \in 0 .. h : d \in G
  BY <1>2, <1>3, UpTo
<1>5. QED
  BY <1>1, <1>4

\* If their first leaves are leaves of chains, the last leaves are one leaf.
LEMMA LastLeavesAgree ==
  ASSUME NEW P, NEW Q, NEW h \in Nat, NEW g \in Nat, Rooted(P, h), Rooted(Q, g),
         P[h][1] = Q[g][1], h <= g, \E p, s, l : P[0][1] = LeafHash(p, s, l)
  PROVE  h = g /\ P[0][Len(P[0])] = Q[0][Len(Q[0])]
<1>1. h \in 0 .. h /\ h - h = 0
  OBVIOUS
<1>2. P[0][1] = Q[g - h][1] /\ P[0][Len(P[0])] = Q[g - h][Len(Q[g - h])]
  <2>1. \A d \in 0 .. h : /\ P[h - d][1] = Q[g - d][1]
                          /\ P[h - d][Len(P[h - d])] = Q[g - d][Len(Q[g - d])]
    BY EndsAgree
  <2>2. /\ P[h - h][1] = Q[g - h][1]
        /\ P[h - h][Len(P[h - h])] = Q[g - h][Len(Q[g - h])]
    BY <1>1, <2>1, Zenon
  <2>3. QED
    BY <1>1, <2>2
<1>3. h = g
  <2>1. SUFFICES ASSUME h < g PROVE FALSE
    OBVIOUS
  <2>2. g - h \in 1 .. g /\ (g - h) - 1 \in 0 .. g
    BY <2>1
  <2>3. PICK q : q = Q[(g - h) - 1]
    OBVIOUS
  <2>4. IsSeq(q) /\ Len(q) >= 1 /\ Q[g - h] = NextLayer(q)
    BY <2>2, <2>3 DEF Rooted, Tower
  <2>5. PICK b : NextLayer(q)[1] = HashPair(q[1], b)
    BY <2>4, EndsOfNext
  <2>6. PICK p, s, l : P[0][1] = LeafHash(p, s, l)
    OBVIOUS
  <2>7. LeafHash(p, s, l) = HashPair(q[1], b)
    BY <1>2, <2>4, <2>5, <2>6
  <2>8. QED
    BY <2>7, HashFacts
<1>4. QED
  BY <1>2, <1>3

IsClimb(f, s, n) ==
  f = [k \in 0 .. n |->
         IF k = 0 THEN s
         ELSE IF Len(f[k - 1]) > 1 THEN NextLayer(f[k - 1]) ELSE f[k - 1]]

LEMMA ClimbExists ==
  ASSUME NEW s, NEW n \in Nat
  PROVE  \E f : IsClimb(f, s, n)
<1>1. PICK G : G = {m \in 0 .. n : \E f : IsClimb(f, s, m)}
  OBVIOUS
<1>2. 0 \in G
  <2>1. IsClimb([k \in 0 .. 0 |-> s], s, 0)
    BY DEF IsClimb
  <2>2. QED
    BY <1>1, <2>1
<1>3. ASSUME NEW m \in 1 .. n, m - 1 \in G
      PROVE  m \in G
  <2>1. PICK f : IsClimb(f, s, m - 1)
    BY <1>1, <1>3
  <2>2. PICK top : top = IF Len(f[m - 1]) > 1 THEN NextLayer(f[m - 1]) ELSE f[m - 1]
    OBVIOUS
  <2>3. PICK g : g = [k \in 0 .. m |-> IF k = m THEN top ELSE f[k]]
    OBVIOUS
  <2>4. \A k \in 0 .. m - 1 : g[k] = f[k]
    BY <2>3
  <2>5. \A k \in 0 .. m - 1 : f[k] = IF k = 0 THEN s
                                    ELSE IF Len(f[k - 1]) > 1 THEN NextLayer(f[k - 1]) ELSE f[k - 1]
    BY <2>1, Zenon DEF IsClimb
  <2>6. ASSUME NEW k \in 0 .. m
        PROVE  g[k] = IF k = 0 THEN s
                      ELSE IF Len(g[k - 1]) > 1 THEN NextLayer(g[k - 1]) ELSE g[k - 1]
    <3>1. CASE k = m
      <4>1. g[k] = top /\ g[k - 1] = f[m - 1] /\ k # 0
        BY <2>3, <2>4, <3>1
      <4>2. QED
        BY <2>2, <4>1
    <3>2. CASE k # m
      <4>1. k \in 0 .. m - 1 /\ (k # 0 => k - 1 \in 0 .. m - 1)
        BY <3>2
      <4>2. g[k] = f[k] /\ (k # 0 => g[k - 1] = f[k - 1])
        BY <2>4, <4>1
      <4>3. QED
        BY <2>5, <4>1, <4>2
    <3>3. QED
      BY <3>1, <3>2
  <2>7. IsClimb(g, s, m)
    BY <2>3, <2>6 DEF IsClimb
  <2>8. QED
    BY <1>1, <2>7
<1>4. \A m \in 0 .. n : m \in G
  BY <1>2, <1>3, UpTo
<1>5. QED
  BY <1>1, <1>4

\* merkle_root's loop ends, within as many turns as there are leaves.
LEMMA RootIsRooted ==
  ASSUME NEW s, IsSeq(s), Len(s) >= 1
  PROVE  \E P : \E h \in Nat : P[0] = s /\ Rooted(P, h) /\ RootOf(s) = P[h][1]
<1>1. PICK n \in Nat : n = Len(s) /\ n >= 1
  BY DEF IsSeq
<1>2. PICK f : IsClimb(f, s, n) /\ RootOf(s) = f[n][1]
  <2>1. PICK f : f = CHOOSE e : e = [k \in 0 .. Len(s) |->
                       IF k = 0 THEN s
                       ELSE IF Len(e[k - 1]) > 1 THEN NextLayer(e[k - 1]) ELSE e[k - 1]]
    OBVIOUS
  <2>2. RootOf(s) = f[Len(s)][1]
    BY <2>1 DEF RootOf
  <2>3. \E e : e = [k \in 0 .. Len(s) |->
                      IF k = 0 THEN s
                      ELSE IF Len(e[k - 1]) > 1 THEN NextLayer(e[k - 1]) ELSE e[k - 1]]
    <3>1. PICK e : IsClimb(e, s, Len(s))
      BY <1>1, ClimbExists
    <3>2. QED
      BY <3>1, Zenon DEF IsClimb
  <2>4. f = [k \in 0 .. Len(s) |->
               IF k = 0 THEN s
               ELSE IF Len(f[k - 1]) > 1 THEN NextLayer(f[k - 1]) ELSE f[k - 1]]
    BY <2>1, <2>3, Zenon
  <2>5. QED
    BY <1>1, <2>2, <2>4, Zenon DEF IsClimb
<1>3. \A k \in 0 .. n : f[k] = IF k = 0 THEN s
                               ELSE IF Len(f[k - 1]) > 1 THEN NextLayer(f[k - 1]) ELSE f[k - 1]
  BY <1>2, Zenon DEF IsClimb
<1>4. PICK G : G = {m \in 0 .. n :
                      /\ IsSeq(f[m]) /\ Len(f[m]) >= 1 /\ (Len(f[m]) <= 1 \/ Len(f[m]) + m <= n)
                      /\ \E h \in 0 .. m : Tower(f, h) /\ f[h] = f[m] /\ (h < m => Len(f[m]) <= 1)}
  OBVIOUS
<1>5. 0 \in G
  <2>1. f[0] = s
    BY <1>3
  <2>2. Tower(f, 0)
    BY <1>1, <2>1 DEF Tower
  <2>3. QED
    BY <1>1, <1>4, <2>1, <2>2
<1>6. ASSUME NEW m \in 1 .. n, m - 1 \in G
      PROVE  m \in G
  <2>1. PICK l, t : l = f[m - 1] /\ t = f[m]
    OBVIOUS
  <2>2. /\ IsSeq(l) /\ Len(l) \in Nat /\ Len(l) >= 1 /\ (Len(l) <= 1 \/ Len(l) + (m - 1) <= n)
        /\ t = IF Len(l) > 1 THEN NextLayer(l) ELSE l
    BY <1>3, <1>4, <1>6, <2>1 DEF IsSeq
  <2>3. PICK h \in 0 .. m - 1 : Tower(f, h) /\ f[h] = l /\ (h < m - 1 => Len(l) <= 1)
    BY <1>4, <1>6, <2>1
  <2>4. CASE Len(l) > 1
    <3>1. h = m - 1 /\ t = NextLayer(l)
      BY <2>2, <2>3, <2>4
    <3>2. IsSeq(t) /\ Len(t) >= 1 /\ Len(t) < Len(l)
      BY <2>2, <2>4, <3>1, EndsOfNext
    <3>3. Tower(f, m)
      <4>1. ASSUME NEW k \in 0 .. m
            PROVE  IsSeq(f[k]) /\ Len(f[k]) >= 1 /\ (k # 0 => f[k] = NextLayer(f[k - 1]))
        <5>1. CASE k = m
          BY <2>1, <3>1, <3>2, <5>1
        <5>2. CASE k # m
          <6>1. k \in 0 .. h /\ (k # 0 => k \in 1 .. h)
            BY <3>1, <5>2
          <6>2. QED
            BY <2>3, <6>1 DEF Tower
        <5>3. QED
          BY <5>1, <5>2
      <4>2. QED
        BY <4>1 DEF Tower
    <3>4. Len(t) \in Nat
      BY <3>2 DEF IsSeq
    <3>5. Len(t) <= 1 \/ Len(t) + m <= n
      BY <2>2, <2>4, <3>2, <3>4
    <3>6. QED
      BY <1>4, <2>1, <3>2, <3>3, <3>5
  <2>5. CASE ~(Len(l) > 1)
    <3>1. t = l /\ Len(l) <= 1
      BY <2>2, <2>5
    <3>2. h \in 0 .. m
      OBVIOUS
    <3>3. /\ IsSeq(f[m]) /\ Len(f[m]) >= 1 /\ Len(f[m]) <= 1
          /\ Tower(f, h) /\ f[h] = f[m]
      BY <2>1, <2>2, <2>3, <3>1
    <3>4. QED
      BY <1>4, <3>2, <3>3
  <2>6. QED
    BY <2>4, <2>5
<1>7. \A m \in 0 .. n : m \in G
  BY <1>5, <1>6, UpTo
<1>8. n \in G
  BY <1>7
<1>9. Len(f[n]) = 1
  <2>1. Len(f[n]) \in Nat
    BY <1>4, <1>8 DEF IsSeq
  <2>2. PICK k \in Nat : k = Len(f[n])
    BY <2>1
  <2>3. k >= 1 /\ (k <= 1 \/ k + n <= n)
    BY <1>4, <1>8, <2>2
  <2>4. k = 1
    BY <2>3
  <2>5. QED
    BY <2>2, <2>4
<1>10. PICK h \in 0 .. n : Tower(f, h) /\ f[h] = f[n]
  BY <1>4, <1>8
<1>11. h \in Nat /\ f[0] = s /\ Rooted(f, h) /\ RootOf(s) = f[h][1]
  BY <1>1, <1>2, <1>3, <1>9, <1>10 DEF Rooted
<1>12. QED
  BY <1>11

-----------------------------------------------------------------------------
(* The audit *)

LEMMA AuditInitInv == AuditInit => AuditInv
<1> SUFFICES ASSUME AuditInit PROVE AuditInv
  OBVIOUS
<1>1. Chained
  <2>1. PICK n \in 1 .. MaxLeaves : \E a \in [1 .. n -> Unlinked] : written = Chain(a)
    BY DEF AuditInit
  <2>2. QED
    BY <2>1, ChainIsChained
<1>2. FileOK
  <2>1. CASE file = written
    <3>1. IsSeq(file) /\ Len(file) \in 1 .. MaxLeaves
      BY <1>1, <2>1 DEF Chained
    <3>2. EachNear(file)
      BY <2>1 DEF EachNear, Near
    <3>3. QED
      BY <3>1, <3>2 DEF FileOK
  <2>2. CASE file # written
    <3>1. file \in {written} \cup UNION {Changes(written, i) : i \in DOMAIN written}
      BY DEF AuditInit
    <3>2. PICK i \in DOMAIN written : file \in Changes(written, i)
      BY <2>2, <3>1
    <3>3. IsSeq(file) /\ EachNear(file)
      BY <1>1, <3>2, ChangesAreNear
    <3>4. Len(file) \in 1 .. MaxLeaves
      BY DEF AuditInit
    <3>5. QED
      BY <3>3, <3>4 DEF FileOK
  <2>3. QED
    BY <2>1, <2>2
<1>3. WalkOK
  <2>1. passed = 0 /\ prev = Genesis /\ answer = "none" /\ Len(file) \in Nat
    BY <1>2 DEF AuditInit, FileOK, IsSeq
  <2>2. QED
    BY <2>1 DEF WalkOK, LinkOf
<1>4. Asked(Leaves(file)) /\ leaves = Leaves(file)
  BY DEF AuditInit, Asked
<1>5. IInv
  <2>1. IsSeq(Leaves(file)) /\ Len(Leaves(file)) = Len(file)
    <3>1. PICK n \in Nat : n = Len(file) /\ DOMAIN file = 1 .. n
      BY <1>2 DEF FileOK, IsSeq
    <3>2. Leaves(file) = [i \in 1 .. n |-> Leaves(file)[i]]
      BY <3>1 DEF Leaves
    <3>3. QED
      BY <3>1, <3>2, SeqOfFunction
  <2>2. Len(Leaves(file)) \in 1 .. MaxLeaves
    BY <1>2, <2>1 DEF FileOK
  <2>3. QED
    BY <1>4, <2>1, <2>2, AskedInv
<1>6. QED
  BY <1>1, <1>2, <1>3, <1>4, <1>5 DEF AuditInv

\* The file stands still, and the tree takes the steps of MerkleTree.
LEMMA AuditKeeps ==
  ASSUME AuditInv, UNCHANGED <<written, file>>, WalkOK', [Next]_vars
  PROVE  AuditInv'
<1>1. IInv'
  BY StepInv DEF AuditInv
<1>2. leaves' = leaves
  BY DEF Next, Climb, Proved, Turn, Answer, vars
<1>3. Chained' /\ FileOK' /\ (leaves = Leaves(file))'
  BY <1>2 DEF AuditInv, Chained, LinkOf, FileOK, EachNear, IsSeq, Near, Leaves
<1>4. QED
  BY <1>1, <1>3 DEF AuditInv

LEMMA AuditStepInv == AuditInv /\ [AuditNext]_auditVars => AuditInv'
<1> SUFFICES ASSUME AuditInv, [AuditNext]_auditVars PROVE AuditInv'
  OBVIOUS
<1>n. PICK n \in Nat : n = Len(file) /\ passed \in 0 .. n
  BY DEF AuditInv, FileOK, WalkOK, IsSeq
<1>w. Chained /\ FileOK /\ WalkOK
  BY DEF AuditInv
<1>1. CASE Pass
  <2>1. /\ UNCHANGED <<written, file, answer, firstBad, vars>> /\ answer = "none"
        /\ passed \in 0 .. n - 1 /\ passed' = passed + 1
        /\ prev' = file[passed + 1].leaf /\ VerifyEntry(file[passed + 1], prev)
    BY <1>1, <1>n DEF Pass
  <2>2. prev = LinkOf(passed) /\ \A i \in 1 .. passed : Same(i)
    BY <1>w DEF WalkOK
  <2>3. passed > 0 => Same(passed)
    BY <1>n, <2>2
  <2>4. Same(passed + 1)
    BY <1>w, <1>n, <2>1, <2>2, <2>3, PassedIsSame
  <2>5. prev' = LinkOf(passed + 1)
    <3>1. file[passed + 1].leaf = written[passed + 1].leaf
      BY <1>w, <2>4, SameIs DEF FileOK
    <3>2. QED
      BY <1>n, <2>1, <3>1 DEF LinkOf
  <2>6. \A i \in 1 .. passed + 1 : Same(i)
    BY <1>n, <2>2, <2>4
  <2>7. \A i : Same(i)' <=> Same(i)
    BY <2>1 DEF Same
  <2>8. LinkOf(passed)' = LinkOf(passed + 1)
    BY <2>1 DEF LinkOf
  <2>9. WalkOK'
    BY <1>n, <2>1, <2>5, <2>6, <2>7, <2>8 DEF WalkOK
  <2>10. QED
    BY <2>1, <2>9, AuditKeeps
<1>2. CASE Fail
  <2>1. /\ UNCHANGED <<written, file, passed, prev, vars>>
        /\ answer' = "bad" /\ firstBad' = passed
        /\ passed \in 0 .. n - 1 /\ ~VerifyEntry(file[passed + 1], prev)
    BY <1>2, <1>n DEF Fail
  <2>2. ~Same(passed + 1)
    BY <1>w, <1>n, <2>1, FailedIsOther DEF WalkOK
  <2>3. WalkOK'
    BY <1>w, <1>n, <2>1, <2>2 DEF WalkOK, LinkOf, Same
  <2>4. QED
    BY <2>1, <2>3, AuditKeeps
<1>3. CASE Succeed
  <2>1. /\ UNCHANGED <<written, file, passed, prev, firstBad, vars>>
        /\ answer' = "ok" /\ passed = Len(file)
    BY <1>3 DEF Succeed
  <2>2. WalkOK'
    BY <1>w, <2>1 DEF WalkOK, LinkOf, Same
  <2>3. QED
    BY <2>1, <2>2, AuditKeeps
<1>4. CASE UNCHANGED verifyVars /\ [Next]_vars
  <2>1. WalkOK'
    BY <1>w, <1>4 DEF WalkOK, LinkOf, Same, verifyVars
  <2>2. QED
    BY <1>4, <2>1, AuditKeeps DEF verifyVars
<1>5. CASE UNCHANGED auditVars
  BY <1>4, <1>5 DEF auditVars
<1>6. QED
  BY <1>1, <1>2, <1>3, <1>4, <1>5 DEF AuditNext, Verified, Next

LEMMA VerdictRight == AuditInv => VerdictIsRight
<1> SUFFICES ASSUME AuditInv PROVE VerdictIsRight
  OBVIOUS
<1>1. Len(file) \in Nat /\ DOMAIN file = 1 .. Len(file) /\ passed \in 0 .. Len(file)
  BY DEF AuditInv, FileOK, WalkOK, IsSeq
<1>2. answer = "ok" => Undamaged
  BY <1>1 DEF AuditInv, WalkOK, Undamaged
<1>3. answer = "bad" => firstBad < Len(file) /\ ~Same(firstBad + 1) /\ \A i \in 1 .. firstBad : Same(i)
  BY DEF AuditInv, WalkOK
<1>4. QED
  BY <1>2, <1>3 DEF VerdictIsRight

\* The layers of the climb, once it is over, are those of a tree with that root.
LEMMA PathIsRooted ==
  ASSUME IInv, pc # "climb"
  PROVE  \E P : \E h \in Nat : P[0] = leaves /\ Rooted(P, h) /\ Root = P[h][1]
<1>1. PICK h \in Nat : h = Len(proof) /\ Len(path) = h + 1
  BY DEF IInv, Shape, IsSeq
<1>2. PICK P : P = [k \in 0 .. h |-> path[k + 1].layer]
  OBVIOUS
<1>3. ASSUME NEW k \in 0 .. h
      PROVE  IsSeq(P[k]) /\ Len(P[k]) >= 1
  <2>1. k + 1 \in 1 .. Len(path) /\ P[k] = path[k + 1].layer
    BY <1>1, <1>2
  <2>2. IsSeq(P[k]) /\ path[k + 1].idx \in 0 .. Len(P[k]) - 1
    BY <2>1 DEF IInv, PathOK
  <2>3. Len(P[k]) \in Nat
    BY <2>2 DEF IsSeq
  <2>4. QED
    BY <2>2, <2>3
<1>4. ASSUME NEW k \in 1 .. h
      PROVE  P[k] = NextLayer(P[k - 1])
  <2>1. k \in 1 .. Len(proof) /\ P[k] = path[k + 1].layer /\ P[k - 1] = path[k].layer
    BY <1>1, <1>2
  <2>2. path[k + 1] = [layer |-> NextLayer(path[k].layer), idx |-> path[k].idx \div 2]
    BY <2>1 DEF IInv, PathOK
  <2>3. QED
    BY <2>1, <2>2
<1>5. P[0] = leaves
  BY <1>1, <1>2 DEF IInv, PathOK
<1>6. P[h] = Level.layer /\ Len(Level.layer) = 1
  BY <1>1, <1>2 DEF Level, IInv, PathOK
<1>7. Rooted(P, h) /\ Root = P[h][1]
  BY <1>3, <1>4, <1>6 DEF Rooted, Tower, Root
<1>8. QED
  BY <1>5, <1>7

LEMMA RootPins == AuditInv => RootAndChainPinTheLedger
<1> SUFFICES ASSUME AuditInv, answer = "ok", pc # "climb", Root = RootOf(Leaves(written))
             PROVE  Len(file) = Len(written) /\ Undamaged
  BY DEF RootAndChainPinTheLedger
<1>1. PICK m, n \in Nat : m = Len(file) /\ n = Len(written) /\ m >= 1 /\ n >= 1
  BY DEF AuditInv, FileOK, Chained, IsSeq
<1>2. Undamaged /\ \A i \in 1 .. m : Same(i)
  BY <1>1, VerdictRight DEF VerdictIsRight, AuditInv, WalkOK
<1>3. DOMAIN file = 1 .. m /\ DOMAIN written = 1 .. n
  BY <1>1 DEF AuditInv, FileOK, Chained, IsSeq
<1>4. \A i \in 1 .. m : i \in 1 .. n /\ file[i].leaf = written[i].leaf
  BY <1>1, <1>2, SameIs DEF AuditInv, FileOK
<1>5. /\ leaves = [i \in 1 .. m |-> file[i].leaf] /\ IsSeq(leaves) /\ Len(leaves) = m
      /\ Leaves(written) = [i \in 1 .. n |-> written[i].leaf]
      /\ IsSeq(Leaves(written)) /\ Len(Leaves(written)) = n
  <2>1. leaves = [i \in 1 .. m |-> file[i].leaf] /\ Leaves(written) = [i \in 1 .. n |-> written[i].leaf]
    BY <1>3 DEF AuditInv, Leaves
  <2>2. leaves = [i \in 1 .. m |-> leaves[i]] /\ Leaves(written) = [i \in 1 .. n |-> Leaves(written)[i]]
    BY <2>1
  <2>3. QED
    BY <2>1, <2>2, SeqOfFunction
<1>p. PICK P : \E h \in Nat : P[0] = leaves /\ Rooted(P, h) /\ Root = P[h][1]
  BY PathIsRooted DEF AuditInv
<1>6. PICK h \in Nat : P[0] = leaves /\ Rooted(P, h) /\ Root = P[h][1]
  BY <1>p
<1>q. PICK Q : \E g \in Nat : /\ Q[0] = Leaves(written) /\ Rooted(Q, g)
                              /\ RootOf(Leaves(written)) = Q[g][1]
  BY <1>1, <1>5, RootIsRooted
<1>7. PICK g \in Nat : /\ Q[0] = Leaves(written) /\ Rooted(Q, g)
                       /\ RootOf(Leaves(written)) = Q[g][1]
  BY <1>q
<1>8. /\ \E p, s, l : P[0][1] = LeafHash(p, s, l)
      /\ \E p, s, l : Q[0][1] = LeafHash(p, s, l)
  <2>1. 1 \in 1 .. m /\ 1 \in 1 .. n
    BY <1>1
  <2>2. P[0][1] = written[1].leaf /\ Q[0][1] = written[1].leaf
    BY <1>4, <1>5, <1>6, <1>7, <2>1
  <2>3. written[1].leaf = LeafHash(written[1].payload, written[1].sig, written[1].prev)
    BY <1>1, <2>1 DEF AuditInv, Chained
  <2>4. QED
    BY <2>2, <2>3
<1>9. P[0][Len(P[0])] = Q[0][Len(Q[0])]
  <2>1. P[h][1] = Q[g][1] /\ Q[g][1] = P[h][1]
    BY <1>6, <1>7
  <2>2. CASE h <= g
    BY <1>6, <1>7, <1>8, <2>1, <2>2, LastLeavesAgree
  <2>3. CASE g <= h
    BY <1>6, <1>7, <1>8, <2>1, <2>3, LastLeavesAgree
  <2>4. QED
    BY <2>2, <2>3
<1>10. LinkOf(m) = LinkOf(n)
  <2>1. m \in 1 .. m /\ n \in 1 .. n /\ m # 0 /\ n # 0
    BY <1>1
  <2>2. P[0][Len(P[0])] = written[m].leaf
    BY <1>4, <1>5, <1>6, <2>1
  <2>3. Q[0][Len(Q[0])] = written[n].leaf
    BY <1>5, <1>7, <2>1
  <2>4. QED
    BY <1>9, <2>1, <2>2, <2>3 DEF LinkOf
<1>11. m \in 0 .. n /\ n \in 0 .. n
  BY <1>1, <1>4
<1>12. m = n
  BY <1>1, <1>10, <1>11, LinksDiffer DEF AuditInv, Distinct
<1>13. QED
  BY <1>1, <1>2, <1>12

\* For every ledger and every change of one entry, the verify endpoint answers
\* ok only if what remains is as it was appended and else names the first entry
\* that is not; and with the root that was given out nothing is missing.
THEOREM AuditAlwaysRight == AuditSpec => []AuditIsRight
<1>1. AuditInv => AuditIsRight
  BY VerdictRight, RootPins DEF AuditIsRight
<1>2. QED
  BY <1>1, AuditInitInv, AuditStepInv, PTL DEF AuditSpec

\* The tree over whatever file the audit has passed, a chain cut short included,
\* accepts the proof of each of its leaves and no other leaf at an index it has.
THEOREM AuditedProofsHold == AuditSpec => [](ProofVerifies /\ ProofsSound)
<1>1. AuditInv => ProofVerifies /\ ProofsSound
  BY InvImplies DEF AuditInv
<1>2. QED
  BY <1>1, AuditInitInv, AuditStepInv, PTL DEF AuditSpec
=============================================================================
