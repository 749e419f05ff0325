----------------------------- MODULE MerkleTree -----------------------------
(***************************************************************************)
(* The Merkle tree of the ledger crate (ledger/src/merkle.rs): the root    *)
(* over the leaves, the inclusion proof of one leaf and its verification.  *)
(* merkle_root and inclusion_proof climb through the same layers, so one   *)
(* loop computes both; a step is one turn of a loop.  The hash is taken to *)
(* be injective: a pair's hash is the pair.                                *)
(***************************************************************************)
EXTENDS Naturals, Sequences

CONSTANTS
  Leaf,       \* leaf hashes
  MaxLeaves,  \* bound: leaves of the tree
  MaxIndex    \* bound: indices a verifier may be given

ASSUME MerkleAssumption == MaxLeaves \in Nat /\ MaxIndex \in Nat

VARIABLES
  leaves, index,   \* the arguments of inclusion_proof; indices start at 0
  claim,           \* what verify_proof is asked about: [leaf, index]
  path,            \* the layers climbed through and idx in each, the code's
                   \* layer and idx being those of the last
  proof,           \* siblings, low layer first
  hash, idx, at,   \* verify_proof: hash and idx after at turns
  pc               \* "climb", "verify", or the answer, "accept" or "reject"
vars == <<leaves, index, claim, path, proof, hash, idx, at, pc>>

-----------------------------------------------------------------------------

HashPair_Unordered(left, right) == <<"pair", {left, right}>>
HashPair(left, right) == <<left, right>>

NextLayer(layer) ==
  [i \in 1 .. (Len(layer) + 1) \div 2 |->
     HashPair(layer[2 * i - 1], layer[IF 2 * i <= Len(layer) THEN 2 * i ELSE 2 * i - 1])]

\* The node next to position i; it is its own sibling at an odd tail.
Sibling_Right(layer, i) == layer[IF i + 1 < Len(layer) THEN i + 2 ELSE i + 1]
Sibling(layer, i) ==
  LET s == IF i % 2 = 0 THEN i + 1 ELSE i - 1
  IN  layer[IF s < Len(layer) THEN s + 1 ELSE i + 1]

Level == path[Len(path)]
Root == Level.layer[1]

\* A proof for a leaf of this ledger is made, then checked for some claim.
Asked(ledger) ==
  /\ leaves = ledger
  /\ index \in 0 .. Len(leaves) - 1
  /\ claim \in [leaf : Leaf, index : 0 .. MaxIndex]
  /\ path = <<[layer |-> leaves, idx |-> index]>>
  /\ proof = <<>>
  /\ hash = claim.leaf /\ idx = claim.index /\ at = 0
  /\ pc = "climb"

Init == \E n \in 1 .. MaxLeaves : \E ledger \in [1 .. n -> Leaf] : Asked(ledger)

\* one turn of inclusion_proof's loop, and of merkle_root's
Climb ==
  /\ pc = "climb" /\ Len(Level.layer) > 1
  /\ proof' = Append(proof, Sibling(Level.layer, Level.idx))
  /\ path' = Append(path, [layer |-> NextLayer(Level.layer), idx |-> Level.idx \div 2])
  /\ UNCHANGED <<leaves, index, claim, hash, idx, at, pc>>

Proved ==
  /\ pc = "climb" /\ Len(Level.layer) <= 1
  /\ pc' = "verify"
  /\ UNCHANGED <<leaves, index, claim, path, proof, hash, idx, at>>

\* one turn of verify_proof's loop
Turn ==
  /\ pc = "verify" /\ at < Len(proof)
  /\ hash' = IF idx % 2 = 0 THEN HashPair(hash, proof[at + 1]) ELSE HashPair(proof[at + 1], hash)
  /\ idx' = idx \div 2
  /\ at' = at + 1
  /\ UNCHANGED <<leaves, index, claim, path, proof, pc>>

Answer ==
  /\ pc = "verify" /\ at = Len(proof)
  /\ pc' = IF hash = Root THEN "accept" ELSE "reject"
  /\ UNCHANGED <<leaves, index, claim, path, proof, hash, idx, at>>

Next == Climb \/ Proved \/ Turn \/ Answer
Spec == Init /\ [][Next]_vars

-----------------------------------------------------------------------------
(* Properties *)

Honest == claim = [leaf |-> leaves[index + 1], index |-> index]

TypeOK ==
  /\ Len(leaves) \in 1 .. MaxLeaves /\ index \in 0 .. Len(leaves) - 1
  /\ pc \in {"climb", "verify", "accept", "reject"}
  /\ at \in 0 .. Len(proof) /\ Len(path) = Len(proof) + 1 /\ idx \in 0 .. MaxIndex
  /\ \A k \in DOMAIN path : path[k].idx < Len(path[k].layer)

\* The proof inclusion_proof returns for a leaf is accepted by verify_proof at
\* the leaf's index, for every number of leaves.
ProofVerifies == Honest => pc # "reject"

\* At any index of the tree an accepted leaf is the one that stands there.
ProofsSound ==
  pc = "accept" /\ claim.index < Len(leaves) => claim.leaf = leaves[claim.index + 1]

\* faq.md: an inclusion proof shows that the leaf was committed at a given
\* sequence; the tree has a leaf at any index a proof is accepted for.
ProofPinsSequence == pc = "accept" => claim.index < Len(leaves)
=============================================================================
