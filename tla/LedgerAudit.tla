---------------------------- MODULE LedgerAudit -----------------------------
(***************************************************************************)
(* An audit of the ledger: GET /v1/ledger/verify walks the entries of the  *)
(* file (control-plane/internal/api/ledger.go) and answers ok with the     *)
(* Merkle root of their leaves; an inclusion proof is made and checked     *)
(* against that root (MerkleTree).                                         *)
(*                                                                         *)
(* One change may have reached the file since it was written.  The chain   *)
(* is what Append writes (LedgerStore); ListLedger reads it back.  Of the  *)
(* fields that are not hashed the model keeps the verdict.                 *)
(***************************************************************************)
EXTENDS MerkleTree, SequencesExt

CONSTANTS
  Payload,    \* payload hashes
  Sig,        \* signatures
  Verdict     \* verdicts

VARIABLES
  written,   \* the chain as it was appended
  file,      \* what ListLedger returns
  passed,    \* entries verifyEntry has passed
  prev,      \* the leaf the next entry must link to
  answer,    \* "none" yet, "ok" or "bad"
  firstBad   \* first_bad_at of the response, when it is bad
verifyVars == <<written, file, passed, prev, answer, firstBad>>
auditVars == <<verifyVars, vars>>

Genesis == <<>>   \* the zero hash
LeafHash(payload, sig, link) == <<payload, sig, link>>

Unlinked == [payload : Payload, sig : Sig, verdict : Verdict]
Link(data, link) ==
  [payload |-> data.payload, sig |-> data.sig, verdict |-> data.verdict,
   prev |-> link, leaf |-> LeafHash(data.payload, data.sig, link)]

\* The file after these appends: an entry links to the leaf of the one before.
Chain(appended) ==
  LET link[i \in 0 .. Len(appended)] ==
        IF i = 0 THEN Genesis ELSE LeafHash(appended[i].payload, appended[i].sig, link[i - 1])
  IN  [i \in DOMAIN appended |-> Link(appended[i], link[i - 1])]
Leaves(entries) == [i \in DOMAIN entries |-> entries[i].leaf]

\* The files that differ from this one by one change at entry i.
Changes(f, i) ==
  {[f EXCEPT ![i].payload = p] : p \in Payload}
  \cup {[f EXCEPT ![i].sig = s] : s \in Sig}
  \cup {[f EXCEPT ![i].verdict = v] : v \in Verdict}
  \cup {[f EXCEPT ![i].leaf = f[j].leaf] : j \in DOMAIN f}
  \cup {[f EXCEPT ![i].prev = f[j].prev] : j \in DOMAIN f}
  \cup {[f EXCEPT ![i] = f[j], ![j] = f[i]] : j \in DOMAIN f}
  \cup {RemoveAt(f, i), InsertAt(f, i, f[i])}

Hashed(e) == [payload |-> e.payload, sig |-> e.sig, prev |-> e.prev, leaf |-> e.leaf]
Same(i) ==
  i \in DOMAIN file /\ i \in DOMAIN written /\ Hashed(file[i]) = Hashed(written[i])
Undamaged == \A i \in DOMAIN file : Same(i)

\* The root of an empty ledger is the zero hash, and there is no proof in it.
\* A damaged ledger gets no root, so one claim will do for it.
AuditInit ==
  /\ \E n \in 1 .. MaxLeaves : \E a \in [1 .. n -> Unlinked] : written = Chain(a)
  /\ file \in {written} \cup UNION {Changes(written, i) : i \in DOMAIN written}
  /\ Len(file) \in 1 .. MaxLeaves
  /\ passed = 0 /\ prev = Genesis /\ answer = "none" /\ firstBad = 0
  /\ Asked(Leaves(file))
  /\ Undamaged \/ (index = 0 /\ Honest)

-----------------------------------------------------------------------------
\* ledgerVerifyHandler, an entry a step.

VerifyEntry(e, link) == e.prev = link /\ e.leaf = LeafHash(e.payload, e.sig, link)

Pass ==
  /\ answer = "none" /\ passed < Len(file) /\ VerifyEntry(file[passed + 1], prev)
  /\ passed' = passed + 1
  /\ prev' = file[passed + 1].leaf
  /\ UNCHANGED <<written, file, answer, firstBad, vars>>

Fail_LastGood ==
  /\ answer = "none" /\ passed < Len(file) /\ ~VerifyEntry(file[passed + 1], prev)
  /\ answer' = "bad" /\ firstBad' = IF passed = 0 THEN 0 ELSE passed - 1
  /\ UNCHANGED <<written, file, passed, prev, vars>>

\* first_bad_at counts entries from 0
Fail ==
  /\ answer = "none" /\ passed < Len(file) /\ ~VerifyEntry(file[passed + 1], prev)
  /\ answer' = "bad" /\ firstBad' = passed
  /\ UNCHANGED <<written, file, passed, prev, vars>>

Succeed ==
  /\ answer = "none" /\ passed = Len(file)
  /\ answer' = "ok"
  /\ UNCHANGED <<written, file, passed, prev, firstBad, vars>>

\* Only a ledger that verifies gets a root.
Verified == answer = "ok" /\ UNCHANGED verifyVars

AuditNext ==
  \/ Pass \/ Fail \/ Succeed
  \/ Verified /\ Climb
  \/ Verified /\ Proved
  \/ Verified /\ Turn
  \/ Verified /\ Answer

AuditSpec == AuditInit /\ [][AuditNext]_auditVars

-----------------------------------------------------------------------------
\* Properties

\* The verdict on a file is right: ok means that the hashed fields of its
\* entries are a prefix of those that were appended, and first_bad_at names the
\* first entry that is not as it was appended, whatever was changed, removed,
\* repeated or exchanged.
VerdictIsRight ==
  /\ answer = "ok" => Undamaged
  /\ answer = "bad" => firstBad < Len(file) /\ ~Same(firstBad + 1) /\ \A i \in 1 .. firstBad : Same(i)

\* The root of a list of leaves, by pairing them until one node is left.
RootOf(ledger) ==
  LET layer[turn \in 0 .. Len(ledger)] ==
        IF turn = 0 THEN ledger
        ELSE LET below == layer[turn - 1] IN IF Len(below) > 1 THEN NextLayer(below) ELSE below
  IN  layer[Len(ledger)][1]

\* Chain and root make up for each other: the chain does not show that the end
\* of the file is missing, and the root alone does not tell an odd last leaf
\* from its repetition.  A file that verifies, with the root that was given out
\* when the ledger was written, holds exactly what was appended.
RootAndChainPinTheLedger ==
  answer = "ok" /\ pc # "climb" /\ Root = RootOf(Leaves(written)) =>
    Len(file) = Len(written) /\ Undamaged

AuditIsRight == VerdictIsRight /\ RootAndChainPinTheLedger

\* ledger.go: "Every field must round-trip deterministically; any tamper breaks here."
AnyChangeIsFound == answer = "ok" => \A i \in DOMAIN file : file[i] = written[i]
=============================================================================
