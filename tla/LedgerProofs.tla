---------------------------- MODULE LedgerProofs ----------------------------
(***************************************************************************)
(* Proofs about LedgerStore, for every set of payloads and every bound,    *)
(* and about LedgerTail, for any number of connections and entries and     *)
(* channels and networks of any size.                                      *)
(*                                                                         *)
(* Two inductive invariants for the store.  SyncedInv holds under every    *)
(* combination of failures and gives what failures can never do.           *)
(* HonestInv holds when the disk reports its errors by dying only (a       *)
(* process crash or a power loss at any step) and no entry is too long to  *)
(* be read back; it gives the integrity of the chain, the durability of    *)
(* what was acknowledged and the refinement of DurableLog.  Of the tail    *)
(* the proofs need the daemon's part and not the client's.                 *)
(***************************************************************************)
EXTENDS LedgerStore, LedgerTail, SequenceTheorems, FiniteSetTheorems, TLAPS

-----------------------------------------------------------------------------
(* The store *)

\* Appending one element.
LEMMA AppendFacts ==
  ASSUME NEW S, NEW s \in Seq(S), NEW e \in S
  PROVE  /\ Append(s, e) \in Seq(S)
         /\ Len(Append(s, e)) = Len(s) + 1
         /\ DOMAIN Append(s, e) = 1 .. Len(s) + 1
         /\ Append(s, e)[Len(s) + 1] = e
         /\ \A i \in 1 .. Len(s) : Append(s, e)[i] = s[i]
  OBVIOUS

\* Cutting a sequence to a prefix.
LEMMA PrefixFacts ==
  ASSUME NEW S, NEW s \in Seq(S), NEW n \in 0 .. Len(s)
  PROVE  /\ SubSeq(s, 1, n) \in Seq(S)
         /\ Len(SubSeq(s, 1, n)) = n
         /\ DOMAIN SubSeq(s, 1, n) = 1 .. n
         /\ \A i \in 1 .. n : SubSeq(s, 1, n)[i] = s[i]
<1>1. \A i \in 1 .. n : s[i] \in S
  OBVIOUS
<1>2. SubSeq(s, 1, n) \in Seq(S) /\ Len(SubSeq(s, 1, n)) = n
  BY <1>1, SubSeqProperties
<1>3. \A i \in 1 .. n : SubSeq(s, 1, n)[i] = s[i]
  BY <1>1, SubSeqProperties
<1>4. QED
  BY <1>2, <1>3

-----------------------------------------------------------------------------
(* Type correctness *)

LEMMA NewEntryType ==
  ASSUME TypeOK, NEW p \in Payload
  PROVE  NewEntry(p) \in Entry
BY DEF TypeOK, NewEntry, Entry, LeafHash

\* What one whole-line write does to the file.
LEMMA WriteLineType ==
  ASSUME TypeOK, NEW e \in Entry, WriteLine(e)
  PROVE  file' \in Seq(Entry) /\ tail' \in TailKinds
<1>1. CASE tail = "clean" /\ e.payload \notin Oversized /\ file' = Append(file, e) /\ UNCHANGED tail
  BY <1>1, AppendFacts DEF TypeOK
<1>2. CASE tail = "clean" /\ e.payload \in Oversized /\ tail' = "torn" /\ UNCHANGED file
  BY <1>2 DEF TypeOK, TailKinds
<1>3. CASE tail = "open" /\ file' = SubSeq(file, 1, Len(file) - 1) /\ tail' = "torn"
  BY <1>3 DEF TypeOK, TailKinds
<1>4. CASE tail = "torn" /\ UNCHANGED <<file, tail>>
  BY <1>4 DEF TypeOK
<1>5. QED
  BY <1>1, <1>2, <1>3, <1>4 DEF WriteLine

\* The state of LedgerStore is always well formed: the types of the fields of
\* Memory and of the lines of ledger.jsonl, for any payloads and failures.
THEOREM LedgerTypeCorrect == Spec => []TypeOK
<1>1. Init => TypeOK
  BY DEF Init, TypeOK, TailKinds, Genesis
<1>2. TypeOK /\ [Next]_vars => TypeOK'
  <2> SUFFICES ASSUME TypeOK, [Next]_vars PROVE TypeOK'
    OBVIOUS
  <2>1. ASSUME NEW p \in Payload, AppendWrite(p) PROVE TypeOK'
    <3>1. file' \in Seq(Entry) /\ tail' \in TailKinds
      BY <2>1, NewEntryType, WriteLineType DEF AppendWrite
    <3>2. inFlight' \in Seq(Entry) /\ Len(inFlight') <= 1
      BY <2>1, NewEntryType DEF AppendWrite
    <3>3. QED
      BY <2>1, <3>1, <3>2 DEF AppendWrite, TypeOK
  <2>2. CASE AppendSync
    <3>1. inFlight[1] \in Entry
      BY <2>2 DEF AppendSync, TypeOK
    <3>2. inFlight[1].leaf \in Seq(Payload)
      BY <3>1 DEF Entry
    <3>3. acked' \in Seq(Entry)
      BY <2>2, <3>1, AppendFacts DEF AppendSync, TypeOK
    <3>4. QED
      BY <2>2, <3>2, <3>3 DEF AppendSync, TypeOK
  <2>3. ASSUME NEW p \in Payload, AppendShortWrite(p) PROVE TypeOK'
    <3>1. file' \in Seq(Entry) /\ tail' \in TailKinds
      <4>1. CASE tail = "clean" /\ tail' = "torn" /\ UNCHANGED file
        BY <4>1 DEF TypeOK, TailKinds
      <4>2. CASE tail = "clean" /\ p \notin Oversized /\ tail' = "open" /\ file' = Append(file, NewEntry(p))
        BY <4>2, NewEntryType, AppendFacts DEF TypeOK, TailKinds
      <4>3. CASE tail # "clean" /\ WriteLine(NewEntry(p))
        BY <4>3, NewEntryType, WriteLineType
      <4>4. QED
        BY <2>3, <4>1, <4>2, <4>3 DEF AppendShortWrite
    <3>2. QED
      BY <2>3, <3>1 DEF AppendShortWrite, TypeOK
  <2>4. CASE AppendSyncFails
    BY <2>4 DEF AppendSyncFails, TypeOK
  <2>5. CASE Close
    BY <2>5 DEF Close, Stopped, TypeOK, Genesis
  <2>6. CASE Crash
    BY <2>6 DEF Crash, Stopped, TypeOK, Genesis
  <2>7. CASE CrashInWrite
    BY <2>7 DEF CrashInWrite, Stopped, TypeOK, TailKinds, Genesis
  <2>8. ASSUME NEW n \in synced .. Len(file), PowerLoss(n) PROVE TypeOK'
    <3>1. file' \in Seq(Entry)
      BY <2>8, PrefixFacts DEF PowerLoss, TypeOK
    <3>2. QED
      BY <2>8, <3>1 DEF PowerLoss, Stopped, TypeOK, TailKinds, Genesis
  <2>9. CASE PowerLossAtNewline
    BY <2>9 DEF PowerLossAtNewline, Stopped, TypeOK, TailKinds, Genesis
  <2>10. CASE Restart
    <3>1. nextSeq' \in Nat /\ lastLeaf' \in Seq(Payload)
      <4>1. CASE tail = "torn"
        BY <2>10, <4>1 DEF Restart, TypeOK
      <4>2. CASE tail # "torn" /\ file = <<>>
        BY <2>10, <4>2 DEF Restart, TypeOK, Genesis
      <4>3. CASE tail # "torn" /\ file # <<>>
        <5>1. file[Len(file)] \in Entry
          BY <4>3 DEF TypeOK
        <5>2. QED
          BY <2>10, <4>3, <5>1 DEF Restart, TypeOK, Entry
      <4>4. QED
        BY <4>1, <4>2, <4>3
    <3>2. QED
      BY <2>10, <3>1 DEF Restart, TypeOK
  <2>11. CASE UNCHANGED vars
    BY <2>11 DEF vars, TypeOK
  <2>12. QED
    BY <2>1, <2>2, <2>3, <2>4, <2>5, <2>6, <2>7, <2>8, <2>9, <2>10, <2>11 DEF Next
<1>3. QED
  BY <1>1, <1>2, PTL DEF Spec

-----------------------------------------------------------------------------
(* What holds under every combination of failures *)

\* The durable part of the file is within it, an unterminated line is never
\* part of it, and an append in progress never leaves one behind.
SyncedInv ==
  /\ synced <= Len(file)
  /\ tail = "open" => synced < Len(file)
  /\ inFlight # <<>> => tail # "open"

\* SyncedInv is inductive, relative to the type invariant.
LEMMA SyncedInvHolds == Spec => []SyncedInv
<1>1. Init => SyncedInv
  BY DEF Init, SyncedInv
<1>2. TypeOK /\ SyncedInv /\ [Next]_vars => SyncedInv'
  <2> SUFFICES ASSUME TypeOK, SyncedInv, [Next]_vars PROVE SyncedInv'
    OBVIOUS
  <2> USE DEF SyncedInv
  <2>0. ASSUME NEW p \in Payload, WriteLine(NewEntry(p))
        PROVE  synced <= Len(file') /\ tail' # "open"
    <3>1. CASE tail = "clean" /\ file' = Append(file, NewEntry(p)) /\ UNCHANGED tail
      BY <3>1, NewEntryType, AppendFacts DEF TypeOK
    <3>2. CASE UNCHANGED file /\ tail' = "torn"
      BY <3>2
    <3>3. CASE tail = "open" /\ file' = SubSeq(file, 1, Len(file) - 1) /\ tail' = "torn"
      <4>1. Len(file) - 1 \in 0 .. Len(file)
        BY <3>3 DEF TypeOK
      <4>2. QED
        BY <3>3, <4>1, PrefixFacts DEF TypeOK
    <3>4. CASE tail = "torn" /\ UNCHANGED <<file, tail>>
      BY <3>4
    <3>5. QED
      BY <2>0, <3>1, <3>2, <3>3, <3>4 DEF WriteLine
  <2>1. ASSUME NEW p \in Payload, AppendWrite(p) PROVE SyncedInv'
    BY <2>0, <2>1 DEF AppendWrite
  <2>2. CASE AppendSync
    BY <2>2 DEF AppendSync, TypeOK
  <2>3. ASSUME NEW p \in Payload, AppendShortWrite(p) PROVE SyncedInv'
    <3>1. CASE tail' = "torn" /\ UNCHANGED file
      BY <2>3, <3>1 DEF AppendShortWrite, Idle
    <3>2. CASE tail' = "open" /\ file' = Append(file, NewEntry(p))
      BY <2>3, <3>2, NewEntryType, AppendFacts DEF AppendShortWrite, Idle, TypeOK
    <3>3. CASE WriteLine(NewEntry(p))
      BY <2>0, <2>3, <3>3 DEF AppendShortWrite, Idle
    <3>4. QED
      BY <2>3, <3>1, <3>2, <3>3 DEF AppendShortWrite
  <2>4. CASE AppendSyncFails
    BY <2>4 DEF AppendSyncFails
  <2>5. CASE Close
    BY <2>5 DEF Close, Stopped
  <2>6. CASE Crash
    BY <2>6 DEF Crash, Stopped
  <2>7. CASE CrashInWrite
    <3>1. CASE tail = "open"
      <4>1. Len(file) - 1 \in 0 .. Len(file)
        BY <3>1 DEF TypeOK
      <4>2. QED
        BY <2>7, <3>1, <4>1, PrefixFacts DEF CrashInWrite, Stopped, TypeOK
    <3>2. CASE tail # "open"
      BY <2>7, <3>2 DEF CrashInWrite, Stopped
    <3>3. QED
      BY <3>1, <3>2
  <2>8. ASSUME NEW n \in synced .. Len(file), PowerLoss(n) PROVE SyncedInv'
    <3>1. n \in 0 .. Len(file) /\ Len(file') = n
      BY <2>8, PrefixFacts DEF PowerLoss, TypeOK
    <3>2. QED
      BY <2>8, <3>1 DEF PowerLoss, Stopped, TypeOK
  <2>9. CASE PowerLossAtNewline
    BY <2>9 DEF PowerLossAtNewline, Stopped
  <2>10. CASE Restart
    BY <2>10 DEF Restart
  <2>11. CASE UNCHANGED vars
    BY <2>11 DEF vars
  <2>12. QED
    BY <2>1, <2>2, <2>3, <2>4, <2>5, <2>6, <2>7, <2>8, <2>9, <2>10, <2>11 DEF Next
<1>3. QED
  BY <1>1, <1>2, LedgerTypeCorrect, PTL DEF Spec

\* No failure and no later append rewrites or removes an entry that reached
\* stable storage: a partial line can swallow only the unsynced entry in front
\* of it (Memory.AppendLedger, whatever Write and Sync return).
THEOREM SyncedHistoryStable == Spec => SyncedNeverRewritten
<1>1. TypeOK /\ SyncedInv /\ [Next]_vars
        => [\A i \in 1 .. synced : i \in DOMAIN file' /\ file'[i] = file[i]]_vars
  <2> SUFFICES ASSUME TypeOK, SyncedInv, Next, NEW i \in 1 .. synced
               PROVE  i \in DOMAIN file' /\ file'[i] = file[i]
    OBVIOUS
  <2> USE DEF SyncedInv
  <2>0. i \in 1 .. Len(file) /\ (tail = "open" => i \in 1 .. Len(file) - 1)
    BY DEF TypeOK
  <2>1. CASE UNCHANGED file
    BY <2>0, <2>1 DEF TypeOK
  <2>2. ASSUME NEW p \in Payload, file' = Append(file, NewEntry(p))
        PROVE  i \in DOMAIN file' /\ file'[i] = file[i]
    BY <2>0, <2>2, NewEntryType, AppendFacts DEF TypeOK
  <2>3. CASE tail = "open" /\ file' = SubSeq(file, 1, Len(file) - 1)
    <3>1. Len(file) - 1 \in 0 .. Len(file)
      BY <2>0, <2>3 DEF TypeOK
    <3>2. QED
      BY <2>0, <2>3, <3>1, PrefixFacts DEF TypeOK
  <2>4. ASSUME NEW n \in synced .. Len(file), PowerLoss(n)
        PROVE  i \in DOMAIN file' /\ file'[i] = file[i]
    <3>1. n \in 0 .. Len(file) /\ i \in 1 .. n
      BY <2>0, <2>4 DEF TypeOK
    <3>2. QED
      BY <2>4, <3>1, PrefixFacts DEF PowerLoss, TypeOK
  <2>5. \/ UNCHANGED file
        \/ \E p \in Payload : file' = Append(file, NewEntry(p))
        \/ tail = "open" /\ file' = SubSeq(file, 1, Len(file) - 1)
        \/ \E n \in synced .. Len(file) : PowerLoss(n)
    BY DEF Next, AppendWrite, AppendSync, AppendShortWrite, AppendSyncFails, Close,
           Crash, CrashInWrite, PowerLossAtNewline, Restart, WriteLine
  <2>6. QED
    BY <2>1, <2>2, <2>3, <2>4, <2>5
<1>2. QED
  BY <1>1, LedgerTypeCorrect, SyncedInvHolds, PTL DEF Spec, SyncedNeverRewritten

\* A daemon never starts over a ledger in which some line does not parse
\* (resumeFromFile treats a malformed line as fatal), whatever the failures.
THEOREM NeverResumesOverDamage == Spec => RestartRefusesDamage
<1>1. [Next]_vars => [(daemon # "running" /\ daemon' = "running") => tail # "torn"]_vars
  BY DEF Next, AppendWrite, AppendSync, AppendShortWrite, AppendSyncFails, Close, Crash,
         CrashInWrite, PowerLoss, PowerLossAtNewline, Restart, Stopped, vars, Idle
<1>2. QED
  BY <1>1, PTL DEF Spec, RestartRefusesDamage
-----------------------------------------------------------------------------
(* What holds when the disk fails by dying only *)

\* The environment of the honest theorems: a failing disk is one that takes
\* the process or the machine down, and every line is short enough to be read.
DiesOnly == Fault \subseteq {"crash", "power_loss"} /\ Oversized = {}

\* Every acknowledged entry lies in the durable part of the file, at the
\* position its sequence number names, and the numbers increase.
AckedInv ==
  /\ \A k \in DOMAIN acked :
       /\ acked[k].seq + 1 \in 1 .. synced
       /\ file[acked[k].seq + 1] = acked[k]
  /\ \A j, k \in DOMAIN acked : j < k => acked[j].seq < acked[k].seq

\* A serving daemon has a clean file, and its chain state is that of the
\* file's last line, or of the line before it while an append is in flight.
TipInv ==
  /\ tail # "open"
  /\ daemon # "running" => inFlight = <<>>
  /\ daemon = "running" => tail = "clean"
  /\ (daemon = "running" /\ inFlight = <<>>) =>
       nextSeq = Len(file) /\ lastLeaf = PrevLeaf(Len(file) + 1)
  /\ inFlight # <<>> =>
       /\ file # <<>> /\ file[Len(file)] = inFlight[1]
       /\ nextSeq = Len(file) - 1
       /\ synced < Len(file)

HonestInv == ChainIntact /\ AckedInv /\ TipInv

\* The new entry continues the chain of a clean, idle file.
LEMMA ExtendChain ==
  ASSUME TypeOK, ChainIntact, AckedInv, TipInv, NEW p \in Payload, Idle,
         file' = Append(file, NewEntry(p)), UNCHANGED <<acked, synced>>, SyncedInv
  PROVE  ChainIntact' /\ AckedInv'
<1> DEFINE e == NewEntry(p)
<1>1. e \in Entry /\ e.seq = Len(file) /\ VerifyEntry(e, PrevLeaf(Len(file) + 1))
  BY NewEntryType DEF NewEntry, VerifyEntry, TipInv, Idle
<1>2. /\ DOMAIN file' = 1 .. Len(file) + 1
      /\ DOMAIN file = 1 .. Len(file)
      /\ file'[Len(file) + 1] = e
      /\ \A i \in 1 .. Len(file) : file'[i] = file[i]
  BY <1>1, AppendFacts DEF TypeOK
<1>3. Len(file) \in Nat
  BY DEF TypeOK
<1>4. \A i \in 1 .. Len(file) + 1 : PrevLeaf(i)' = PrevLeaf(i)
  BY <1>2, <1>3 DEF PrevLeaf
<1>5. ASSUME NEW i \in DOMAIN file'
      PROVE  VerifyEntry(file'[i], PrevLeaf(i)') /\ file'[i].seq = i - 1
  <2>1. CASE i = Len(file) + 1
    BY <1>1, <1>2, <1>3, <1>4, <2>1
  <2>2. CASE i \in 1 .. Len(file)
    BY <1>2, <1>3, <1>4, <2>2 DEF ChainIntact, Verifies
  <2>3. QED
    BY <1>2, <1>3, <2>1, <2>2
<1>6. ChainIntact'
  BY <1>5 DEF ChainIntact, Verifies, VerifyEntry
<1>7. AckedInv'
  BY <1>2, <1>3 DEF AckedInv, SyncedInv, TypeOK
<1>8. QED
  BY <1>6, <1>7

\* Cutting the file behind its durable part keeps the chain and every
\* acknowledged entry.
LEMMA CutChain ==
  ASSUME TypeOK, ChainIntact, AckedInv, NEW n \in synced .. Len(file),
         file' = SubSeq(file, 1, n), UNCHANGED <<acked, synced>>
  PROVE  ChainIntact' /\ AckedInv'
<1>1. n \in 0 .. Len(file)
  BY DEF TypeOK
<1>2. DOMAIN file' = 1 .. n /\ \A i \in 1 .. n : file'[i] = file[i] /\ i \in DOMAIN file
  BY <1>1, PrefixFacts DEF TypeOK
<1>3. \A i \in 1 .. n : PrevLeaf(i)' = PrevLeaf(i)
  BY <1>1, <1>2 DEF PrevLeaf
<1>4. ChainIntact'
  BY <1>2, <1>3 DEF ChainIntact, Verifies, VerifyEntry
<1>5. AckedInv'
  BY <1>1, <1>2 DEF AckedInv, TypeOK
<1>6. QED
  BY <1>4, <1>5

\* The actions that touch neither the file nor the acknowledgements keep both
\* parts of the invariant that speak of nothing else.
LEMMA SameFile ==
  ASSUME ChainIntact, AckedInv, UNCHANGED <<file, acked, synced>>
  PROVE  ChainIntact' /\ AckedInv'
BY DEF ChainIntact, AckedInv, Verifies, VerifyEntry, PrevLeaf

\* What AppendSync adds to the acknowledgements is the file's last entry.
LEMMA AckLast ==
  ASSUME TypeOK, SyncedInv, HonestInv, AppendSync
  PROVE  AckedInv' /\ inFlight[1].seq = Len(file) - 1 /\ inFlight[1] = file[Len(file)]
<1> DEFINE e == inFlight[1]
<1>1. Len(file) \in Nat \ {0} /\ e = file[Len(file)] /\ synced < Len(file) /\ e \in Entry
  BY DEF AppendSync, HonestInv, TipInv, TypeOK
<1>2. e.seq = Len(file) - 1
  BY <1>1 DEF HonestInv, ChainIntact
<1>3. /\ DOMAIN acked' = 1 .. Len(acked) + 1 /\ DOMAIN acked = 1 .. Len(acked)
      /\ acked'[Len(acked) + 1] = e
      /\ \A k \in 1 .. Len(acked) : acked'[k] = acked[k]
  BY <1>1, AppendFacts DEF AppendSync, TypeOK
<1>4. Len(acked) \in Nat /\ synced \in Nat /\ file' = file /\ synced' = Len(file)
  BY DEF TypeOK, AppendSync
<1>5. \A k \in 1 .. Len(acked) : acked[k].seq \in Nat /\ acked[k].seq + 1 \in 1 .. synced
                              /\ file[acked[k].seq + 1] = acked[k]
  <2>1. \A k \in 1 .. Len(acked) : acked[k] \in Entry
    BY <1>3 DEF TypeOK
  <2>2. \A k \in 1 .. Len(acked) : acked[k].seq \in Nat
    BY <2>1 DEF Entry
  <2>3. QED
    BY <1>3, <2>2 DEF HonestInv, AckedInv
<1>6. \A k \in DOMAIN acked' : acked'[k].seq + 1 \in 1 .. synced' /\ file'[acked'[k].seq + 1] = acked'[k]
  <2> SUFFICES ASSUME NEW k \in DOMAIN acked'
               PROVE  acked'[k].seq + 1 \in 1 .. synced' /\ file'[acked'[k].seq + 1] = acked'[k]
    OBVIOUS
  <2>1. CASE k = Len(acked) + 1
    BY <1>1, <1>2, <1>3, <1>4, <2>1
  <2>2. CASE k \in 1 .. Len(acked)
    BY <1>1, <1>3, <1>4, <1>5, <2>2
  <2>3. QED
    BY <1>3, <1>4, <2>1, <2>2
<1>7. \A j, k \in DOMAIN acked' : j < k => acked'[j].seq < acked'[k].seq
  <2> SUFFICES ASSUME NEW j \in DOMAIN acked', NEW k \in DOMAIN acked', j < k
               PROVE  acked'[j].seq < acked'[k].seq
    OBVIOUS
  <2>1. j \in 1 .. Len(acked)
    BY <1>3, <1>4
  <2>2. CASE k = Len(acked) + 1
    BY <1>1, <1>2, <1>3, <1>4, <1>5, <2>1, <2>2
  <2>3. CASE k \in 1 .. Len(acked)
    BY <1>3, <2>1, <2>3 DEF HonestInv, AckedInv
  <2>4. QED
    BY <1>3, <1>4, <2>2, <2>3
<1>8. QED
  BY <1>1, <1>2, <1>6, <1>7 DEF AckedInv

\* HonestInv is inductive, relative to TypeOK and SyncedInv.
LEMMA HonestInvHolds ==
  ASSUME DiesOnly
  PROVE  Spec => []HonestInv
<1>1. Init => HonestInv
  BY DEF Init, HonestInv, ChainIntact, Verifies, AckedInv, TipInv, PrevLeaf
<1>2. TypeOK /\ SyncedInv /\ HonestInv /\ [Next]_vars => HonestInv'
  <2> SUFFICES ASSUME TypeOK, SyncedInv, HonestInv, [Next]_vars PROVE HonestInv'
    OBVIOUS
  <2> USE DEF HonestInv
  <2>1. ASSUME NEW p \in Payload, AppendWrite(p) PROVE HonestInv'
    <3>1. Idle /\ file' = Append(file, NewEntry(p)) /\ tail' = "clean" /\ UNCHANGED <<acked, synced>>
      BY <2>1 DEF AppendWrite, WriteLine, DiesOnly, TipInv, Idle
    <3>2. /\ file' # <<>> /\ Len(file') = Len(file) + 1
          /\ file'[Len(file')] = NewEntry(p) /\ Len(file) \in Nat
      BY <3>1, NewEntryType, AppendFacts DEF TypeOK
    <3>3. nextSeq' = Len(file') - 1 /\ synced' < Len(file')
      BY <2>1, <3>1, <3>2 DEF AppendWrite, TipInv, Idle, SyncedInv, TypeOK
    <3>4. TipInv'
      BY <2>1, <3>1, <3>2, <3>3 DEF AppendWrite, TipInv, Idle
    <3>5. QED
      BY <3>1, <3>4, ExtendChain
  <2>2. CASE AppendSync
    <3>1. AckedInv' /\ inFlight[1] = file[Len(file)]
      BY <2>2, AckLast
    <3>2. ChainIntact'
      BY <2>2 DEF AppendSync, ChainIntact, Verifies, VerifyEntry, PrevLeaf
    <3>3. TipInv'
      <4>1. nextSeq' = Len(file') /\ Len(file) \in Nat \ {0}
        BY <2>2 DEF AppendSync, TipInv, TypeOK
      <4>2. lastLeaf' = PrevLeaf(Len(file) + 1)'
        BY <2>2, <3>1, <4>1 DEF AppendSync, PrevLeaf
      <4>3. QED
        BY <2>2, <4>1, <4>2 DEF AppendSync, TipInv
    <3>4. QED
      BY <3>1, <3>2, <3>3
  <2>3. ASSUME NEW p \in Payload, AppendShortWrite(p) PROVE HonestInv'
    BY <2>3 DEF AppendShortWrite, DiesOnly
  <2>4. CASE AppendSyncFails
    BY <2>4 DEF AppendSyncFails, DiesOnly
  <2>5. CASE Close
    BY <2>5, SameFile DEF Close, Stopped, TipInv
  <2>6. CASE Crash
    BY <2>6, SameFile DEF Crash, Stopped, TipInv
  <2>7. CASE CrashInWrite
    BY <2>7, SameFile DEF CrashInWrite, Stopped, TipInv
  <2>8. ASSUME NEW n \in synced .. Len(file), PowerLoss(n) PROVE HonestInv'
    <3>1. ChainIntact' /\ AckedInv'
      BY <2>8, CutChain DEF PowerLoss
    <3>2. TipInv'
      BY <2>8 DEF PowerLoss, Stopped, TipInv
    <3>3. QED
      BY <3>1, <3>2
  <2>9. CASE PowerLossAtNewline
    BY <2>9 DEF PowerLossAtNewline, DiesOnly
  <2>10. CASE Restart
    <3>1. ChainIntact' /\ AckedInv'
      BY <2>10, SameFile DEF Restart
    <3>2. TipInv'
      <4>1. CASE tail = "torn"
        BY <2>10, <4>1 DEF Restart, TipInv
      <4>2. CASE tail # "torn" /\ file = <<>>
        <5>1. nextSeq' = Len(file') /\ lastLeaf' = PrevLeaf(Len(file) + 1)'
          BY <2>10, <4>2 DEF Restart, PrevLeaf
        <5>2. QED
          BY <2>10, <4>2, <5>1 DEF Restart, TipInv, TailKinds, TypeOK
      <4>3. CASE tail # "torn" /\ file # <<>>
        <5>1. Len(file) \in Nat \ {0} /\ file[Len(file)].seq = Len(file) - 1
          BY <4>3 DEF TypeOK, ChainIntact
        <5>2. nextSeq' = Len(file') /\ lastLeaf' = PrevLeaf(Len(file) + 1)'
          BY <2>10, <4>3, <5>1 DEF Restart, PrevLeaf
        <5>3. QED
          BY <2>10, <4>3, <5>2 DEF Restart, TipInv, TailKinds, TypeOK
      <4>4. QED
        BY <4>1, <4>2, <4>3
    <3>3. QED
      BY <3>1, <3>2
  <2>11. CASE UNCHANGED vars
    BY <2>11, SameFile DEF vars, TipInv, PrevLeaf
  <2>12. QED
    BY <2>1, <2>2, <2>3, <2>4, <2>5, <2>6, <2>7, <2>8, <2>9, <2>10, <2>11 DEF Next
<1>3. QED
  BY <1>1, <1>2, LedgerTypeCorrect, SyncedInvHolds, PTL DEF Spec

\* When the disk fails by dying only, every restart of the daemon continues
\* the hash chain where the durable file ends (AppendLedger, resumeFromFile):
\* the verify endpoint accepts the whole file, and no number is used twice.
THEOREM ChainNeverBroken ==
  ASSUME DiesOnly
  PROVE  Spec => []ChainIntact
<1>1. HonestInv => ChainIntact
  BY DEF HonestInv
<1>2. QED
  BY <1>1, HonestInvHolds, PTL

\* ... and what AppendLedger acknowledged stays in the file, at its position.
THEOREM AckedEntriesDurable ==
  ASSUME DiesOnly
  PROVE  Spec => []AckedDurable
<1>1. TypeOK /\ SyncedInv /\ HonestInv => AckedDurable
  BY DEF HonestInv, AckedInv, AckedDurable, SyncedInv, TypeOK
<1>2. QED
  BY <1>1, HonestInvHolds, LedgerTypeCorrect, SyncedInvHolds, PTL

\* ... and is listed by every serving daemon, in acknowledgement order.
THEOREM AckedEntriesListed ==
  ASSUME DiesOnly
  PROVE  Spec => []AckedListed
<1>1. TypeOK /\ SyncedInv /\ HonestInv => AckedListed
  BY DEF HonestInv, AckedInv, TipInv, AckedListed, ListLedger, SyncedInv, TypeOK
<1>2. QED
  BY <1>1, HonestInvHolds, LedgerTypeCorrect, SyncedInvHolds, PTL

-----------------------------------------------------------------------------
(* Refinement of DurableLog *)

\* The reader's view of a file, as the refinement maps it.
View(f) == [i \in DOMAIN f |-> f[i].payload]

LEMMA ViewFacts ==
  ASSUME NEW f \in Seq(Entry)
  PROVE  /\ View(f) \in Seq(Payload)
         /\ Len(View(f)) = Len(f)
         /\ \A i \in 1 .. Len(f) : View(f)[i] = f[i].payload
         /\ View(f) = <<>> <=> f = <<>>
<1>1. \A i \in 1 .. Len(f) : f[i].payload \in Payload
  <2>1. \A i \in 1 .. Len(f) : f[i] \in Entry
    OBVIOUS
  <2>2. QED
    BY <2>1 DEF Entry
<1>2. View(f) = [i \in 1 .. Len(f) |-> f[i].payload] /\ Len(f) \in Nat
  BY DEF View
<1>3. View(f) \in Seq(Payload) /\ Len(View(f)) = Len(f)
  BY <1>1, <1>2, IsASeq
<1>4. QED
  BY <1>2, <1>3

\* Two sequences of payloads of the same length and with the same elements.
LEMMA SameView ==
  ASSUME NEW a \in Seq(Payload), NEW b \in Seq(Payload), Len(a) = Len(b),
         \A i \in 1 .. Len(a) : a[i] = b[i]
  PROVE  a = b
BY SeqEqual

LEMMA ViewAppend ==
  ASSUME NEW f \in Seq(Entry), NEW e \in Entry
  PROVE  View(Append(f, e)) = Append(View(f), e.payload)
<1>1. Append(f, e) \in Seq(Entry) /\ e.payload \in Payload
  BY AppendFacts DEF Entry
<1>2. /\ View(f) \in Seq(Payload) /\ Len(View(f)) = Len(f)
      /\ View(Append(f, e)) \in Seq(Payload)
      /\ Len(View(Append(f, e))) = Len(f) + 1
  BY <1>1, ViewFacts, AppendFacts
<1>3. Append(View(f), e.payload) \in Seq(Payload) /\ Len(Append(View(f), e.payload)) = Len(f) + 1
  BY <1>1, <1>2, AppendFacts
<1>4. Len(f) \in Nat /\ \A i \in 1 .. Len(f) + 1 : View(Append(f, e))[i] = Append(f, e)[i].payload
  <2>1. Len(Append(f, e)) = Len(f) + 1 /\ Len(f) \in Nat
    BY AppendFacts
  <2>2. \A i \in 1 .. Len(Append(f, e)) : View(Append(f, e))[i] = Append(f, e)[i].payload
    BY <1>1, ViewFacts
  <2>3. QED
    BY <2>1, <2>2
<1>5. ASSUME NEW i \in 1 .. Len(f) + 1
      PROVE  View(Append(f, e))[i] = Append(View(f), e.payload)[i]
  <2>1. CASE i = Len(f) + 1
    <3>1. View(Append(f, e))[i] = e.payload
      BY <1>4, <2>1, AppendFacts
    <3>2. Append(View(f), e.payload)[i] = e.payload
      BY <1>1, <1>2, <2>1, AppendFacts
    <3>3. QED
      BY <3>1, <3>2
  <2>2. CASE i \in 1 .. Len(f)
    <3>1. View(Append(f, e))[i] = f[i].payload
      BY <1>4, <1>5, <2>2, AppendFacts
    <3>2. Append(View(f), e.payload)[i] = f[i].payload
      BY <1>1, <1>2, <2>2, ViewFacts, AppendFacts
    <3>3. QED
      BY <3>1, <3>2
  <2>3. i = Len(f) + 1 \/ i \in 1 .. Len(f)
    <3>1. Len(f) \in Nat
      OBVIOUS
    <3>2. QED
      BY <3>1
  <2>4. QED
    BY <2>1, <2>2, <2>3
<1>6. QED
  BY <1>2, <1>3, <1>5, SameView

LEMMA ViewCut ==
  ASSUME NEW f \in Seq(Entry), NEW n \in 0 .. Len(f)
  PROVE  View(SubSeq(f, 1, n)) = SubSeq(View(f), 1, n)
<1>1. SubSeq(f, 1, n) \in Seq(Entry) /\ Len(SubSeq(f, 1, n)) = n
  BY PrefixFacts
<1>2. /\ View(f) \in Seq(Payload) /\ Len(View(f)) = Len(f)
      /\ View(SubSeq(f, 1, n)) \in Seq(Payload) /\ Len(View(SubSeq(f, 1, n))) = n
  BY <1>1, ViewFacts
<1>3. SubSeq(View(f), 1, n) \in Seq(Payload) /\ Len(SubSeq(View(f), 1, n)) = n
  BY <1>2, PrefixFacts
<1>4. \A i \in 1 .. n : View(SubSeq(f, 1, n))[i] = SubSeq(View(f), 1, n)[i]
  <2> SUFFICES ASSUME NEW i \in 1 .. n
               PROVE  View(SubSeq(f, 1, n))[i] = SubSeq(View(f), 1, n)[i]
    OBVIOUS
  <2>1. View(SubSeq(f, 1, n))[i] = f[i].payload
    BY <1>1, ViewFacts, PrefixFacts
  <2>2. SubSeq(View(f), 1, n)[i] = f[i].payload
    BY <1>2, ViewFacts, PrefixFacts
  <2>3. QED
    BY <2>1, <2>2
<1>5. QED
  BY <1>2, <1>3, <1>4, SameView

\* The positions acknowledged, as the refinement maps them.
Positions(a) == {Position(a[k]) : k \in DOMAIN a}

LEMMA PositionsAppend ==
  ASSUME NEW a \in Seq(Entry), NEW e \in Entry
  PROVE  Positions(Append(a, e)) = Positions(a) \cup {Position(e)}
<1>1. /\ DOMAIN Append(a, e) = (1 .. Len(a)) \cup {Len(a) + 1}
      /\ DOMAIN a = 1 .. Len(a)
      /\ Append(a, e)[Len(a) + 1] = e
      /\ \A i \in 1 .. Len(a) : Append(a, e)[i] = a[i]
  BY AppendFacts
<1>2. QED
  BY <1>1 DEF Positions

\* Every step of the ledger is a step of the durable log or leaves it alone:
\* a line written is a Write, a successful Sync is the Commit of the newest
\* record, a power loss is a Lose, and everything else is a stutter.
THEOREM LedgerImplementsDurableLog ==
  ASSUME DiesOnly
  PROVE  Spec => ImplementsDurableLog
<1> DEFINE logVars == <<View(file), synced, Positions(acked)>>
<1>1. Init => Log!Init
  <2> SUFFICES ASSUME Init PROVE Log!Init
    OBVIOUS
  <2>1. View(file) = <<>> /\ synced = 0
    <3>1. file \in Seq(Entry) /\ file = <<>> /\ synced = 0
      BY DEF Init
    <3>2. QED
      BY <3>1, ViewFacts
  <2>2. Positions(acked) = {}
    BY DEF Init, Positions
  <2>3. QED
    BY <2>1, <2>2 DEF Log!Init, View, Positions
<1>2. TypeOK /\ SyncedInv /\ HonestInv /\ [Next]_vars => [Log!Next]_(Log!vars)
  <2> SUFFICES ASSUME TypeOK, SyncedInv, HonestInv, [Next]_vars
               PROVE  Log!Next \/ UNCHANGED logVars
    BY DEF Log!vars, View, Positions
  <2>1. ASSUME NEW p \in Payload, AppendWrite(p) PROVE Log!Next
    <3>1. file' = Append(file, NewEntry(p)) /\ UNCHANGED <<acked, synced>>
      BY <2>1 DEF AppendWrite, WriteLine, Idle, DiesOnly, HonestInv, TipInv
    <3>2. View(file)' = Append(View(file), p)
      <4>1. NewEntry(p).payload = p
        BY DEF NewEntry
      <4>2. View(file)' = View(file')
        BY DEF View
      <4>3. QED
        BY <3>1, <4>1, <4>2, NewEntryType, ViewAppend DEF TypeOK
    <3>3. UNCHANGED <<synced, Positions(acked)>>
      BY <3>1 DEF Positions
    <3>4. Log!Write(p)
      BY <3>2, <3>3 DEF Log!Write, View, Positions
    <3>5. QED
      BY <3>4 DEF Log!Next, View, Positions
  <2>2. CASE AppendSync
    <3>1. /\ inFlight[1] \in Entry /\ Position(inFlight[1]) = Len(file)
          /\ Len(file) \in Nat \ {0} /\ synced < Len(file)
      BY <2>2, AckLast DEF AppendSync, HonestInv, TipInv, TypeOK, Position
    <3>2. View(file)' = View(file) /\ View(file) # <<>> /\ Len(View(file)) = Len(file)
      BY <2>2, <3>1, ViewFacts DEF AppendSync, TypeOK
    <3>3. Positions(acked)' = Positions(acked) \cup {Len(file)}
      <4>1. Positions(acked)' = Positions(Append(acked, inFlight[1]))
        BY <2>2 DEF AppendSync, Positions
      <4>2. QED
        BY <3>1, <4>1, PositionsAppend DEF TypeOK
    <3>4. Len(file) \notin Positions(acked)
      BY <3>1 DEF HonestInv, AckedInv, Position, Positions, TypeOK
    <3>5. Log!Commit
      BY <2>2, <3>2, <3>3, <3>4 DEF Log!Commit, AppendSync, View, Positions
    <3>6. QED
      BY <3>5 DEF Log!Next
  <2>3. ASSUME NEW n \in synced .. Len(file), PowerLoss(n) PROVE Log!Next
    <3>1. n \in 0 .. Len(file) /\ file' = SubSeq(file, 1, n) /\ UNCHANGED <<acked, synced>>
      BY <2>3 DEF PowerLoss, TypeOK
    <3>2. View(file)' = SubSeq(View(file), 1, n) /\ Len(View(file)) = Len(file)
      <4>1. View(file)' = View(file')
        BY DEF View
      <4>2. QED
        BY <3>1, <4>1, ViewCut, ViewFacts DEF TypeOK
    <3>3. Log!Lose(n)
      BY <2>3, <3>1, <3>2 DEF Log!Lose, View, Positions
    <3>4. QED
      BY <2>3, <3>2, <3>3 DEF Log!Next, View, Positions
  <2>4. ASSUME UNCHANGED <<file, synced, acked>> PROVE UNCHANGED logVars
    BY <2>4 DEF View, Positions
  <2>5. \/ \E p \in Payload : AppendWrite(p)
        \/ AppendSync
        \/ \E n \in synced .. Len(file) : PowerLoss(n)
        \/ UNCHANGED <<file, synced, acked>>
    BY DEF Next, AppendShortWrite, AppendSyncFails, Close, Crash, CrashInWrite, DiesOnly,
           PowerLossAtNewline, Restart, vars, HonestInv, TipInv
  <2>6. QED
    BY <2>1, <2>2, <2>3, <2>4, <2>5
<1>3. QED
  BY <1>1, <1>2, LedgerTypeCorrect, SyncedInvHolds, HonestInvHolds, PTL
  DEF Spec, ImplementsDurableLog, Log!Spec

-----------------------------------------------------------------------------
(* The tail *)

\* The types of what the daemon keeps.
Types ==
  /\ ledger \in Nat
  /\ pending \subseteq 1 .. ledger
  /\ fanout \in [entry : 0 .. ledger, todo : SUBSET Conn]
  /\ subscribers \subseteq Conn /\ cur \in Nat
  /\ phase \in [Conn -> {"unused", "open", "subscribed", "serving", "closing", "done"}]
  /\ chan \in [Conn -> Seq(1 .. ledger)]
  /\ replay \in [Conn -> Seq(1 .. ledger)]
  /\ out \in [Conn -> Seq(1 .. ledger)]
  /\ dropped \in [Conn -> SUBSET (1 .. ledger)]

\* A handler is registered from its subscription to its cancel, and has
\* nothing before.
PhaseInv ==
  \A c \in Conn :
    /\ c \in subscribers <=> phase[c] \in {"subscribed", "serving", "closing"}
    /\ c > cur => phase[c] = "unused"
    /\ phase[c] \in {"unused", "open"} => chan[c] = << >>
    /\ phase[c] \in {"unused", "open", "subscribed"} => out[c] = << >> /\ replay[c] = << >>

\* Whom a broadcast has yet to reach is registered, as long as it holds subMu.
LockInv ==
  /\ fanout.todo \subseteq subscribers /\ (fanout.todo # {} => fanout.entry # 0)
  /\ fanout.entry \notin pending /\ ~panicked

\* The entries that are still to be broadcast to c.
Owed(c) == pending \cup (IF c \in fanout.todo THEN {fanout.entry} ELSE {})

\* The handler of c wrote n replayed entries, 1 to n, and then live ones; an
\* entry was broadcast to it once at most.
Copies(c, n) ==
  /\ n \in 0 .. Len(out[c])
  /\ \A i \in 1 .. n : out[c][i] = i
  /\ \A i \in 1 .. Len(replay[c]) : n = Len(out[c]) /\ replay[c][i] = n + i
  /\ \A i, j \in (n + 1) .. Len(out[c]) : out[c][i] = out[c][j] => i = j
  /\ \A i, j \in 1 .. Len(chan[c]) : chan[c][i] = chan[c][j] => i = j
  /\ \A i \in (n + 1) .. Len(out[c]), j \in 1 .. Len(chan[c]) : out[c][i] # chan[c][j]
  /\ \A i \in (n + 1) .. Len(out[c]) : out[c][i] \notin Owed(c)
  /\ \A i \in 1 .. Len(chan[c]) : chan[c][i] \notin Owed(c)

CopiesInv == \A c \in Conn : \E n \in Nat : Copies(c, n)

\* NoGap, by indices.
Delivered(c, e) ==
  \/ \E i \in 1 .. Len(out[c]) : out[c][i] = e
  \/ \E i \in 1 .. Len(replay[c]) : replay[c][i] = e
  \/ \E i \in 1 .. Len(chan[c]) : chan[c][i] = e
  \/ e \in dropped[c] \cup Owed(c)

GapInv == \A c \in Conn : phase[c] = "serving" => \A e \in 1 .. ledger : Delivered(c, e)

IInv == Types /\ PhaseInv /\ LockInv /\ CopiesInv /\ GapInv

-----------------------------------------------------------------------------
(* Sequences of entries. *)

LEMMA Longer ==
  ASSUME NEW n \in Nat, NEW S \in SUBSET Nat, S = 1 .. n
  PROVE  Seq(S) \subseteq Seq(1 .. (n + 1)) /\ 1 .. n \subseteq 1 .. (n + 1)
<1>1. 1 .. n \subseteq 1 .. (n + 1)
  OBVIOUS
<1>2. QED
  BY <1>1, SeqMonotonic

\* The head of s moves to the end of t: u and o are left.
LEMMA HeadMoves ==
  ASSUME NEW S, NEW s \in Seq(S), NEW t \in Seq(S), s # << >>,
         NEW u, u = Tail(s), NEW o, o = Append(t, Head(s))
  PROVE  /\ u \in Seq(S) /\ Len(s) \in Nat \ {0} /\ Len(u) = Len(s) - 1
         /\ \A i \in 1 .. Len(u) : u[i] = s[i + 1]
         /\ o \in Seq(S) /\ Len(t) \in Nat /\ Len(o) = Len(t) + 1
         /\ \A i \in 1 .. Len(t) : o[i] = t[i]
         /\ o[Len(t) + 1] = s[1]
<1>1. /\ Head(s) \in S /\ u \in Seq(S) /\ Len(u) = Len(s) - 1
      /\ \A i \in 1 .. Len(u) : u[i] = s[i + 1]
  BY HeadTailProperties
<1>2. Len(s) \in Nat \ {0} /\ Len(t) \in Nat
  BY EmptySeq, LenProperties
<1>3. Head(s) = s[1]
  BY <1>2
<1>4. /\ o \in Seq(S) /\ Len(o) = Len(t) + 1 /\ \A i \in 1 .. Len(t) : o[i] = t[i]
      /\ o[Len(t) + 1] = Head(s)
  BY <1>1, AppendProperties
<1>5. QED
  BY <1>1, <1>2, <1>3, <1>4

-----------------------------------------------------------------------------
LEMMA InitEstablishes == TailInit => IInv
<1> SUFFICES ASSUME TailInit PROVE IInv
  OBVIOUS
<1>1. \A S : << >> \in Seq(S) /\ Len(<< >>) = 0
  BY EmptySeq
<1>2. Types
  BY <1>1 DEF TailInit, Types, NoFanout
<1>3. PhaseInv /\ LockInv /\ GapInv
  BY DEF TailInit, PhaseInv, LockInv, GapInv, NoFanout
<1>4. \A c \in Conn : Copies(c, 0)
  BY <1>1 DEF TailInit, Copies
<1>5. QED
  BY <1>2, <1>3, <1>4 DEF IInv, CopiesInv

-----------------------------------------------------------------------------
(* Connections that a step leaves alone. *)

Same(c) == out'[c] = out[c] /\ replay'[c] = replay[c] /\ chan'[c] = chan[c]

LEMMA ElementsInLedger ==
  ASSUME Types, NEW c \in Conn
  PROVE  /\ out[c] \in Seq(1 .. ledger) /\ replay[c] \in Seq(1 .. ledger) /\ chan[c] \in Seq(1 .. ledger)
         /\ Len(out[c]) \in Nat /\ Len(replay[c]) \in Nat /\ Len(chan[c]) \in Nat
         /\ \A i \in 1 .. Len(out[c]) : out[c][i] \in 1 .. ledger
         /\ \A i \in 1 .. Len(chan[c]) : chan[c][i] \in 1 .. ledger
<1>1. out[c] \in Seq(1 .. ledger) /\ replay[c] \in Seq(1 .. ledger) /\ chan[c] \in Seq(1 .. ledger)
  BY DEF Types
<1>2. QED
  BY <1>1, LenProperties, ElementOfSeq

\* Nothing of what arrived is owed again.
LEMMA CopiesKeep ==
  ASSUME Types, NEW c \in Conn, NEW n \in Nat, Copies(c, n), Same(c),
         \A e \in 1 .. ledger : e \in Owed(c)' => e \in Owed(c)
  PROVE  Copies(c, n)'
<1>1. Len(out[c]) \in Nat /\ Len(chan[c]) \in Nat
      /\ (\A i \in 1 .. Len(out[c]) : out[c][i] \in 1 .. ledger)
      /\ (\A i \in 1 .. Len(chan[c]) : chan[c][i] \in 1 .. ledger)
  BY ElementsInLedger
<1>2. \A i \in (n + 1) .. Len(out[c]) : i \in 1 .. Len(out[c])
  BY <1>1
<1>3. \A i \in (n + 1) .. Len(out[c]) : out[c][i] \notin Owed(c)'
  BY <1>1, <1>2 DEF Copies
<1>4. \A i \in 1 .. Len(chan[c]) : chan[c][i] \notin Owed(c)'
  BY <1>1 DEF Copies
<1>5. QED
  BY <1>3, <1>4 DEF Copies, Same

LEMMA DeliveredKeeps ==
  ASSUME NEW c \in Conn, NEW e, Delivered(c, e), Same(c),
         e \in dropped[c] \cup Owed(c) => e \in dropped'[c] \cup Owed(c)'
  PROVE  Delivered(c, e)'
BY DEF Delivered, Same

\* Enough for a step of the client or of a handler that moves no entry.
LEMMA NothingMoves ==
  ASSUME IInv, UNCHANGED <<ledger, pending, fanout, chan, panicked, dropped, replay, out>>
  PROVE  CopiesInv' /\ (GapInv' <=> \A c \in Conn : phase'[c] = "serving" => \A e \in 1 .. ledger : Delivered(c, e))
<1>1. \A c \in Conn : Same(c) /\ Owed(c)' = Owed(c)
  BY DEF Same, Owed
<1>2. \A c \in Conn, n \in Nat : Copies(c, n)' <=> Copies(c, n)
  BY <1>1 DEF Copies, Same
<1>3. \A c \in Conn : \A e : Delivered(c, e)' <=> Delivered(c, e)
  BY <1>1 DEF Delivered, Same
<1>4. QED
  BY <1>2, <1>3 DEF IInv, CopiesInv, GapInv

-----------------------------------------------------------------------------
(* Memory. *)

LEMMA AppendKeeps ==
  ASSUME IInv, AppendLedger
  PROVE  IInv'
<1>1. /\ ledger \in Nat /\ ledger' = ledger + 1 /\ pending' = pending \cup {ledger + 1}
      /\ UNCHANGED <<fanout, subscribers, chan, panicked, dropped, phase, replay, out, cur>>
  BY DEF AppendLedger, handlerVars, clientVars, IInv, Types
<1>2. Seq(1 .. ledger) \subseteq Seq(1 .. ledger') /\ 1 .. ledger \subseteq 1 .. ledger'
  BY <1>1, Longer
<1>3. Types'
  <2>1. pending' \subseteq 1 .. ledger' /\ fanout' \in [entry : 0 .. ledger', todo : SUBSET Conn]
    BY <1>1, <1>2 DEF IInv, Types
  <2>2. dropped' \in [Conn -> SUBSET (1 .. ledger')]
    BY <1>1, <1>2 DEF IInv, Types
  <2>3. /\ chan' \in [Conn -> Seq(1 .. ledger')] /\ replay' \in [Conn -> Seq(1 .. ledger')]
        /\ out' \in [Conn -> Seq(1 .. ledger')]
    BY <1>1, <1>2 DEF IInv, Types
  <2>4. QED
    BY <1>1, <2>1, <2>2, <2>3 DEF IInv, Types
<1>4. PhaseInv' /\ LockInv'
  <2>1. fanout.entry # ledger + 1
    BY <1>1 DEF IInv, Types
  <2>2. QED
    BY <1>1, <2>1 DEF IInv, PhaseInv, LockInv
<1>5. \A c \in Conn : Same(c) /\ Owed(c)' = Owed(c) \cup {ledger + 1}
  BY <1>1 DEF Same, Owed
<1>6. CopiesInv'
  BY <1>1, <1>5, CopiesKeep DEF IInv, CopiesInv
<1>7. GapInv'
  <2>1. ASSUME NEW c \in Conn, phase[c] = "serving", NEW e \in 1 .. ledger'
        PROVE  Delivered(c, e)'
    <3>1. CASE e = ledger + 1
      BY <1>5, <3>1 DEF Delivered
    <3>2. CASE e \in 1 .. ledger
      BY <1>1, <1>5, <2>1, <3>2, DeliveredKeeps DEF IInv, GapInv
    <3>3. QED
      BY <1>1, <3>1, <3>2
  <2>2. QED
    BY <1>1, <2>1 DEF GapInv
<1>8. QED
  BY <1>3, <1>4, <1>6, <1>7 DEF IInv

LEMMA StartKeeps ==
  ASSUME IInv, NEW e \in pending, BroadcastStart(e)
  PROVE  IInv'
<1>1. /\ fanout = NoFanout /\ pending' = pending \ {e} /\ fanout' = [entry |-> e, todo |-> subscribers]
      /\ UNCHANGED <<ledger, subscribers, chan, panicked, dropped, phase, replay, out, cur>>
  BY DEF BroadcastStart, SubMuFree, handlerVars, clientVars
<1>2. fanout.todo = {} /\ fanout'.entry = e /\ fanout'.todo = subscribers /\ e \in 1 .. ledger
  BY <1>1 DEF NoFanout, IInv, Types
<1>3. Types'
  BY <1>1, <1>2 DEF IInv, Types
<1>4. PhaseInv' /\ LockInv'
  BY <1>1, <1>2 DEF IInv, PhaseInv, LockInv
<1>5. \A c \in Conn : /\ Same(c) /\ Owed(c) = pending
                      /\ Owed(c)' = (pending \ {e}) \cup (IF c \in subscribers THEN {e} ELSE {})
  BY <1>1, <1>2 DEF Same, Owed
<1>6. CopiesInv'
  BY <1>5, CopiesKeep DEF IInv, CopiesInv
<1>7. GapInv'
  <2>1. ASSUME NEW c \in Conn, phase[c] = "serving", NEW x \in 1 .. ledger
        PROVE  Delivered(c, x)'
    <3>1. c \in subscribers
      BY <2>1 DEF IInv, PhaseInv
    <3>2. Owed(c)' = Owed(c)
      BY <1>5, <3>1
    <3>3. QED
      BY <1>1, <1>5, <2>1, <3>2, DeliveredKeeps DEF IInv, GapInv
  <2>2. QED
    BY <1>1, <2>1 DEF GapInv
<1>8. QED
  BY <1>3, <1>4, <1>6, <1>7 DEF IInv

LEMMA EndKeeps ==
  ASSUME IInv, BroadcastEnd
  PROVE  IInv'
<1>1. /\ fanout.todo = {} /\ fanout' = NoFanout
      /\ UNCHANGED <<ledger, pending, subscribers, chan, panicked, dropped, phase, replay, out, cur>>
  BY DEF BroadcastEnd, handlerVars, clientVars
<1>2. fanout'.todo = {} /\ fanout'.entry = 0 /\ 0 \notin pending
  BY <1>1 DEF NoFanout, IInv, Types
<1>3. Types'
  BY <1>1 DEF IInv, Types, NoFanout
<1>4. PhaseInv' /\ LockInv'
  BY <1>1, <1>2 DEF IInv, PhaseInv, LockInv
<1>5. \A c \in Conn : Same(c) /\ Owed(c)' = Owed(c)
  BY <1>1, <1>2 DEF Same, Owed
<1>6. CopiesInv' /\ GapInv'
  BY <1>1, <1>5, CopiesKeep, DeliveredKeeps DEF IInv, CopiesInv, GapInv
<1>7. QED
  BY <1>3, <1>4, <1>6 DEF IInv

LEMMA SendKeeps ==
  ASSUME IInv, NEW c \in Conn, BroadcastSend(c)
  PROVE  IInv'
<1> DEFINE e == fanout.entry
<1>1. c \in fanout.todo /\ c \in subscribers
  BY DEF BroadcastSend, IInv, LockInv
<1>2. /\ fanout' = [fanout EXCEPT !.todo = @ \ {c}]
      /\ UNCHANGED <<ledger, pending, subscribers, panicked, phase, replay, out, cur>>
  BY <1>1 DEF BroadcastSend, handlerVars, clientVars
<1>3. /\ fanout'.entry = e /\ fanout'.todo = fanout.todo \ {c} /\ e \notin pending
      /\ fanout' \in [entry : 0 .. ledger, todo : SUBSET Conn]
  BY <1>2 DEF IInv, Types, LockInv
<1>4. PhaseInv' /\ LockInv'
  <2>1. \/ UNCHANGED chan
        \/ chan' = [chan EXCEPT ![c] = Append(@, fanout.entry)]
    BY <1>1 DEF BroadcastSend
  <2>2. phase[c] \notin {"unused", "open"}
    BY <1>1 DEF IInv, PhaseInv
  <2>3. \A d \in Conn : phase'[d] \in {"unused", "open"} => chan'[d] = chan[d]
    BY <1>2, <2>1, <2>2 DEF IInv, Types
  <2>4. QED
    BY <1>2, <1>3, <2>3 DEF IInv, PhaseInv, LockInv
<1>5. Owed(c) = pending \cup {e} /\ Owed(c)' = pending
  BY <1>1, <1>2, <1>3 DEF Owed
<1>6. \A d \in Conn \ {c} : Owed(d)' = Owed(d)
  BY <1>2, <1>3 DEF Owed
<1>7. CASE ~(Len(chan[c]) < Buffer)
  <2>1. dropped' = [dropped EXCEPT ![c] = @ \cup {e}] /\ UNCHANGED chan
    BY <1>1, <1>7 DEF BroadcastSend
  <2>2. \A d \in Conn : Same(d)
    BY <1>2, <2>1 DEF Same
  <2>3. CopiesInv'
    BY <1>5, <1>6, <2>2, CopiesKeep DEF IInv, CopiesInv
  <2>4. GapInv'
    <3>1. ASSUME NEW d \in Conn, phase[d] = "serving", NEW x \in 1 .. ledger
          PROVE  Delivered(d, x)'
      <4>1. x \in dropped[d] \cup Owed(d) => x \in dropped'[d] \cup Owed(d)'
        BY <1>5, <1>6, <2>1 DEF IInv, Types
      <4>2. QED
        BY <2>2, <3>1, <4>1, DeliveredKeeps DEF IInv, GapInv
    <3>2. QED
      BY <1>2, <3>1 DEF GapInv
  <2>5. Types'
    <3>1. e \in 1 .. ledger
      BY <1>1 DEF IInv, Types, LockInv
    <3>2. QED
      BY <1>2, <1>3, <2>1, <3>1 DEF IInv, Types
  <2>6. QED
    BY <1>4, <2>3, <2>4, <2>5 DEF IInv
<1>8. CASE Len(chan[c]) < Buffer
  <2>1. chan' = [chan EXCEPT ![c] = Append(@, e)] /\ UNCHANGED dropped
    BY <1>1, <1>8 DEF BroadcastSend
  <2>2. chan'[c] = Append(chan[c], e) /\ \A d \in Conn \ {c} : chan'[d] = chan[d]
    BY <2>1 DEF IInv, Types
  <2>3. /\ chan[c] \in Seq(1 .. ledger) /\ e \in 1 .. ledger /\ Len(chan[c]) \in Nat
        /\ Len(out[c]) \in Nat /\ \A i \in 1 .. Len(out[c]) : out[c][i] \in 1 .. ledger
    BY <1>1, ElementsInLedger DEF IInv, Types, LockInv
  <2>4. /\ chan'[c] \in Seq(1 .. ledger) /\ Len(chan'[c]) = Len(chan[c]) + 1
        /\ \A i \in 1 .. Len(chan[c]) : chan'[c][i] = chan[c][i]
        /\ chan'[c][Len(chan[c]) + 1] = e
    BY <2>2, <2>3, AppendProperties
  <2>5. Types'
    BY <1>2, <1>3, <2>1, <2>2, <2>4 DEF IInv, Types
  <2>6. CopiesInv'
    <3>1. ASSUME NEW d \in Conn \ {c}
          PROVE  \E n \in Nat : Copies(d, n)'
      <4>1. Same(d) /\ Owed(d)' = Owed(d)
        BY <1>2, <1>6, <2>2 DEF Same
      <4>2. QED
        BY <4>1, CopiesKeep DEF IInv, CopiesInv
    <3>2. \E n \in Nat : Copies(c, n)'
      <4>1. PICK n \in Nat : Copies(c, n)
        BY DEF IInv, CopiesInv
      <4>2. /\ \A i \in 1 .. Len(chan[c]) : chan[c][i] # e /\ chan[c][i] \notin pending
            /\ \A i \in (n + 1) .. Len(out[c]) : out[c][i] # e /\ out[c][i] \notin pending
        BY <1>5, <4>1 DEF Copies
      <4>3. \A i \in 1 .. Len(chan'[c]) : i \in 1 .. Len(chan[c]) \/ (i = Len(chan[c]) + 1 /\ chan'[c][i] = e)
        BY <2>3, <2>4
      <4>4. \A i, j \in 1 .. Len(chan'[c]) : chan'[c][i] = chan'[c][j] => i = j
        BY <2>4, <4>1, <4>2, <4>3 DEF Copies
      <4>5. \A i \in (n + 1) .. Len(out[c]), j \in 1 .. Len(chan'[c]) : out[c][i] # chan'[c][j]
        BY <2>4, <4>1, <4>2, <4>3 DEF Copies
      <4>6. \A i \in 1 .. Len(chan'[c]) : chan'[c][i] \notin Owed(c)'
        BY <1>3, <1>5, <2>4, <4>2, <4>3
      <4>7. \A i \in (n + 1) .. Len(out[c]) : out[c][i] \notin Owed(c)'
        BY <1>5, <4>2
      <4>8. Copies(c, n)'
        BY <1>2, <4>1, <4>4, <4>5, <4>6, <4>7 DEF Copies
      <4>9. QED
        BY <4>8
    <3>3. QED
      BY <3>1, <3>2 DEF CopiesInv
  <2>7. GapInv'
    <3>1. ASSUME NEW d \in Conn \ {c}, phase[d] = "serving", NEW x \in 1 .. ledger
          PROVE  Delivered(d, x)'
      BY <1>2, <1>6, <2>1, <2>2, <3>1, DeliveredKeeps DEF IInv, GapInv, Same
    <3>2. ASSUME phase[c] = "serving", NEW x \in 1 .. ledger
          PROVE  Delivered(c, x)'
      <4>1. Delivered(c, x)
        BY <3>2 DEF IInv, GapInv
      <4>2. CASE x = e
        <5>1. Len(chan[c]) + 1 \in 1 .. Len(chan'[c])
          BY <2>3, <2>4
        <5>2. QED
          BY <2>4, <4>2, <5>1 DEF Delivered
      <4>3. CASE \E i \in 1 .. Len(chan[c]) : chan[c][i] = x
        <5>1. PICK i \in 1 .. Len(chan[c]) : chan[c][i] = x
          BY <4>3
        <5>2. i \in 1 .. Len(chan'[c]) /\ chan'[c][i] = x
          BY <2>3, <2>4, <5>1
        <5>3. QED
          BY <5>2 DEF Delivered
      <4>4. CASE x # e /\ ~ \E i \in 1 .. Len(chan[c]) : chan[c][i] = x
        BY <1>2, <1>5, <2>1, <4>1, <4>4 DEF Delivered
      <4>5. QED
        BY <4>2, <4>3, <4>4
    <3>3. QED
      BY <1>2, <3>1, <3>2 DEF GapInv
  <2>8. QED
    BY <1>4, <2>5, <2>6, <2>7 DEF IInv
<1>9. QED
  BY <1>7, <1>8

-----------------------------------------------------------------------------
(* The handlers. *)

LEMMA SubscribeKeeps ==
  ASSUME IInv, NEW c \in Conn, Subscribe(c)
  PROVE  IInv'
<1>1. /\ phase[c] = "open" /\ fanout = NoFanout /\ subscribers' = subscribers \cup {c}
      /\ phase' = [phase EXCEPT ![c] = "subscribed"]
      /\ UNCHANGED <<ledger, pending, fanout, chan, panicked, dropped, replay, out, cur>>
  BY DEF Subscribe, SubMuFree, clientVars
<1>2. phase'[c] = "subscribed" /\ \A d \in Conn \ {c} : phase'[d] = phase[d]
  BY <1>1 DEF IInv, Types
<1>3. Types' /\ LockInv'
  BY <1>1 DEF IInv, Types, LockInv
<1>4. PhaseInv'
  BY <1>1, <1>2 DEF IInv, PhaseInv
<1>5. CopiesInv' /\ GapInv'
  BY <1>1, <1>2, NothingMoves DEF IInv, GapInv
<1>6. QED
  BY <1>3, <1>4, <1>5 DEF IInv

\* A handler that gives up or is done keeps what it had.
LEMMA LeaveKeeps ==
  ASSUME IInv, NEW c \in Conn, ReplayFails(c) \/ NoticeGone(c) \/ Cancel(c)
  PROVE  IInv'
<1>1. /\ phase' = [phase EXCEPT ![c] = IF phase[c] = "closing" THEN "done" ELSE "closing"]
      /\ phase[c] \in {"subscribed", "serving", "closing"}
      /\ subscribers' = IF phase[c] = "closing" THEN subscribers \ {c} ELSE subscribers
      /\ phase[c] = "closing" => fanout = NoFanout
      /\ UNCHANGED <<ledger, pending, fanout, chan, panicked, dropped, replay, out, cur>>
  BY DEF ReplayFails, NoticeGone, Cancel, SubMuFree, serverVars, clientVars
<1>2. /\ phase'[c] = IF phase[c] = "closing" THEN "done" ELSE "closing"
      /\ \A d \in Conn \ {c} : phase'[d] = phase[d]
  BY <1>1 DEF IInv, Types
<1>3. Types'
  BY <1>1 DEF IInv, Types
<1>4. LockInv'
  BY <1>1 DEF IInv, LockInv, NoFanout
<1>5. PhaseInv'
  BY <1>1, <1>2 DEF IInv, PhaseInv
<1>6. CopiesInv' /\ GapInv'
  BY <1>1, <1>2, NothingMoves DEF IInv, GapInv
<1>7. QED
  BY <1>3, <1>4, <1>5, <1>6 DEF IInv

LEMMA ReplayKeeps ==
  ASSUME IInv, NEW c \in Conn, Replay(c)
  PROVE  IInv'
<1> DEFINE all == [i \in 1 .. ledger |-> i]
<1>1. /\ phase[c] = "subscribed" /\ phase' = [phase EXCEPT ![c] = "serving"]
      /\ replay' = [replay EXCEPT ![c] = all]
      /\ UNCHANGED <<ledger, pending, fanout, subscribers, chan, panicked, dropped, out, cur>>
  BY DEF Replay, serverVars, clientVars
<1>2. ledger \in Nat /\ all \in Seq(1 .. ledger) /\ Len(all) = ledger
  BY IsASeq DEF IInv, Types
<1>3. /\ phase'[c] = "serving" /\ replay'[c] = all
      /\ \A d \in Conn \ {c} : phase'[d] = phase[d] /\ replay'[d] = replay[d]
  BY <1>1 DEF IInv, Types
<1>4. Types' /\ LockInv'
  BY <1>1, <1>2 DEF IInv, Types, LockInv
<1>5. PhaseInv'
  BY <1>1, <1>3 DEF IInv, PhaseInv
<1>6. \A d \in Conn : Owed(d)' = Owed(d)
  BY <1>1 DEF Owed
<1>7. \A d \in Conn \ {c} : Same(d)
  BY <1>1, <1>3 DEF Same
<1>8. CopiesInv'
  <2>1. out[c] = << >> /\ Len(out[c]) = 0
    BY <1>1, EmptySeq DEF IInv, PhaseInv
  <2>2. PICK n \in Nat : Copies(c, n)
    BY DEF IInv, CopiesInv
  <2>3. n = 0
    BY <2>1, <2>2 DEF Copies
  <2>4. Copies(c, 0)'
    BY <1>1, <1>2, <1>3, <1>6, <2>1, <2>2, <2>3 DEF Copies
  <2>5. \A d \in Conn \ {c} : \E m \in Nat : Copies(d, m)'
    BY <1>6, <1>7, CopiesKeep DEF IInv, CopiesInv
  <2>6. QED
    BY <2>4, <2>5 DEF CopiesInv
<1>9. GapInv'
  <2>1. \A e \in 1 .. ledger : Delivered(c, e)'
    BY <1>2, <1>3 DEF Delivered
  <2>2. \A d \in Conn \ {c} : phase[d] = "serving" => \A e \in 1 .. ledger : Delivered(d, e)'
    BY <1>1, <1>6, <1>7, DeliveredKeeps DEF IInv, GapInv
  <2>3. QED
    BY <1>1, <1>3, <2>1, <2>2 DEF GapInv
<1>10. QED
  BY <1>4, <1>5, <1>8, <1>9 DEF IInv

LEMMA WriteReplayedKeeps ==
  ASSUME IInv, NEW c \in Conn, WriteReplayed(c)
  PROVE  IInv'
<1>1. /\ phase[c] = "serving" /\ replay[c] # << >>
      /\ out' = [out EXCEPT ![c] = Append(@, Head(replay[c]))]
      /\ replay' = [replay EXCEPT ![c] = Tail(@)]
      /\ UNCHANGED <<ledger, pending, fanout, subscribers, chan, panicked, dropped, phase, cur>>
  BY DEF WriteReplayed, serverVars, clientVars
<1>2. /\ out'[c] = Append(out[c], Head(replay[c])) /\ replay'[c] = Tail(replay[c])
      /\ \A d \in Conn \ {c} : out'[d] = out[d] /\ replay'[d] = replay[d]
  BY <1>1 DEF IInv, Types
<1>3. replay[c] \in Seq(1 .. ledger) /\ out[c] \in Seq(1 .. ledger) /\ Len(chan[c]) \in Nat
  BY ElementsInLedger DEF IInv
<1>4. /\ replay'[c] \in Seq(1 .. ledger) /\ Len(replay[c]) \in Nat \ {0} /\ Len(replay'[c]) = Len(replay[c]) - 1
      /\ \A i \in 1 .. Len(replay'[c]) : replay'[c][i] = replay[c][i + 1]
      /\ out'[c] \in Seq(1 .. ledger) /\ Len(out[c]) \in Nat /\ Len(out'[c]) = Len(out[c]) + 1
      /\ \A i \in 1 .. Len(out[c]) : out'[c][i] = out[c][i]
      /\ out'[c][Len(out[c]) + 1] = replay[c][1]
  <2> DEFINE S == 1 .. ledger
             s == replay[c]
             t == out[c]
             u == replay'[c]
             o == out'[c]
  <2>1. s # << >> /\ s \in Seq(S) /\ t \in Seq(S)
    BY <1>1, <1>3, Zenon
  <2>2. u = Tail(s) /\ o = Append(t, Head(s))
    BY <1>2, Zenon
  <2> HIDE DEF S, s, t, u, o
  <2>3. /\ u \in Seq(S) /\ Len(s) \in Nat \ {0} /\ Len(u) = Len(s) - 1
        /\ \A i \in 1 .. Len(u) : u[i] = s[i + 1]
        /\ o \in Seq(S) /\ Len(t) \in Nat /\ Len(o) = Len(t) + 1
        /\ \A i \in 1 .. Len(t) : o[i] = t[i]
        /\ o[Len(t) + 1] = s[1]
    BY <2>1, <2>2, HeadMoves
  <2>4. QED
    BY <2>3 DEF S, s, t, u, o
<1>5. Types' /\ LockInv'
  BY <1>1, <1>2, <1>4 DEF IInv, Types, LockInv
<1>6. PhaseInv'
  BY <1>1, <1>2 DEF IInv, PhaseInv
<1>7. \A d \in Conn : Owed(d)' = Owed(d)
  BY <1>1 DEF Owed
<1>8. \A d \in Conn \ {c} : Same(d)
  BY <1>1, <1>2 DEF Same
<1>9. CopiesInv'
  <2>1. PICK n \in Nat : Copies(c, n)
    BY DEF IInv, CopiesInv
  <2>2. n = Len(out[c]) /\ replay[c][1] = n + 1
    BY <1>4, <2>1 DEF Copies
  <2>3. \A i \in 1 .. (n + 1) : out'[c][i] = i
    <3>1. \A i \in 1 .. (n + 1) : i \in 1 .. Len(out[c]) \/ i = Len(out[c]) + 1
      BY <2>2
    <3>2. \A i \in 1 .. Len(out[c]) : out[c][i] = i
      BY <2>1, <2>2 DEF Copies
    <3>3. QED
      BY <1>4, <2>2, <3>1, <3>2
  <2>4. \A i \in 1 .. Len(replay'[c]) : n + 1 = Len(out'[c]) /\ replay'[c][i] = (n + 1) + i
    <3>1. \A i \in 1 .. Len(replay'[c]) : i \in Nat /\ i + 1 \in 1 .. Len(replay[c])
      BY <1>4
    <3>2. QED
      BY <1>4, <2>1, <2>2, <3>1 DEF Copies
  <2>5. /\ \A i, j \in 1 .. Len(chan[c]) : chan[c][i] = chan[c][j] => i = j
        /\ \A i \in 1 .. Len(chan[c]) : chan[c][i] \notin Owed(c)
    BY <2>1 DEF Copies
  <2>6. n + 1 \in 0 .. Len(out'[c]) /\ \A i \in ((n + 1) + 1) .. Len(out'[c]) : FALSE
    BY <1>4, <2>2
  <2>7. Copies(c, n + 1)'
    BY <1>1, <1>7, <2>3, <2>4, <2>5, <2>6 DEF Copies
  <2>8. \A d \in Conn \ {c} : \E m \in Nat : Copies(d, m)'
    BY <1>7, <1>8, CopiesKeep DEF IInv, CopiesInv
  <2>9. QED
    BY <2>7, <2>8 DEF CopiesInv
<1>10. GapInv'
  <2>1. ASSUME NEW e \in 1 .. ledger PROVE Delivered(c, e)'
    <3>1. Delivered(c, e)
      BY <1>1 DEF IInv, GapInv
    <3>2. CASE \E i \in 1 .. Len(out[c]) : out[c][i] = e
      <4>1. PICK i \in 1 .. Len(out[c]) : out[c][i] = e
        BY <3>2
      <4>2. i \in 1 .. Len(out'[c]) /\ out'[c][i] = e
        BY <1>4, <4>1
      <4>3. QED
        BY <4>2 DEF Delivered
    <3>3. CASE \E i \in 1 .. Len(replay[c]) : replay[c][i] = e
      <4>1. PICK i \in 1 .. Len(replay[c]) : replay[c][i] = e
        BY <3>3
      <4>2. CASE i = 1
        BY <1>4, <4>1, <4>2 DEF Delivered
      <4>3. CASE i # 1
        <5>1. i - 1 \in 1 .. Len(replay'[c]) /\ replay'[c][i - 1] = e
          BY <1>4, <4>1, <4>3
        <5>2. QED
          BY <5>1 DEF Delivered
      <4>4. QED
        BY <4>2, <4>3
    <3>4. CASE (\E i \in 1 .. Len(chan[c]) : chan[c][i] = e) \/ e \in dropped[c] \cup Owed(c)
      BY <1>1, <1>7, <3>4 DEF Delivered
    <3>5. QED
      BY <3>1, <3>2, <3>3, <3>4 DEF Delivered
  <2>2. \A d \in Conn \ {c} : phase[d] = "serving" => \A e \in 1 .. ledger : Delivered(d, e)'
    BY <1>1, <1>7, <1>8, DeliveredKeeps DEF IInv, GapInv
  <2>3. QED
    BY <1>1, <2>1, <2>2 DEF GapInv
<1>11. QED
  BY <1>5, <1>6, <1>9, <1>10 DEF IInv

LEMMA WriteLiveKeeps ==
  ASSUME IInv, NEW c \in Conn, WriteLive(c)
  PROVE  IInv'
<1>1. /\ phase[c] = "serving" /\ replay[c] = << >> /\ chan[c] # << >>
      /\ out' = [out EXCEPT ![c] = Append(@, Head(chan[c]))]
      /\ chan' = [chan EXCEPT ![c] = Tail(@)]
      /\ UNCHANGED <<ledger, pending, fanout, subscribers, replay, panicked, dropped, phase, cur>>
  BY DEF WriteLive, clientVars
<1>2. /\ out'[c] = Append(out[c], Head(chan[c])) /\ chan'[c] = Tail(chan[c])
      /\ \A d \in Conn \ {c} : out'[d] = out[d] /\ chan'[d] = chan[d]
  BY <1>1 DEF IInv, Types
<1>3. chan[c] \in Seq(1 .. ledger) /\ out[c] \in Seq(1 .. ledger) /\ Len(replay[c]) = 0
  BY <1>1, ElementsInLedger, EmptySeq DEF IInv
<1>4. /\ chan'[c] \in Seq(1 .. ledger) /\ Len(chan[c]) \in Nat \ {0} /\ Len(chan'[c]) = Len(chan[c]) - 1
      /\ \A i \in 1 .. Len(chan'[c]) : chan'[c][i] = chan[c][i + 1]
      /\ out'[c] \in Seq(1 .. ledger) /\ Len(out[c]) \in Nat /\ Len(out'[c]) = Len(out[c]) + 1
      /\ \A i \in 1 .. Len(out[c]) : out'[c][i] = out[c][i]
      /\ out'[c][Len(out[c]) + 1] = chan[c][1]
  <2> DEFINE S == 1 .. ledger
             s == chan[c]
             t == out[c]
             u == chan'[c]
             o == out'[c]
  <2>1. s # << >> /\ s \in Seq(S) /\ t \in Seq(S)
    BY <1>1, <1>3, Zenon
  <2>2. u = Tail(s) /\ o = Append(t, Head(s))
    BY <1>2, Zenon
  <2> HIDE DEF S, s, t, u, o
  <2>3. /\ u \in Seq(S) /\ Len(s) \in Nat \ {0} /\ Len(u) = Len(s) - 1
        /\ \A i \in 1 .. Len(u) : u[i] = s[i + 1]
        /\ o \in Seq(S) /\ Len(t) \in Nat /\ Len(o) = Len(t) + 1
        /\ \A i \in 1 .. Len(t) : o[i] = t[i]
        /\ o[Len(t) + 1] = s[1]
    BY <2>1, <2>2, HeadMoves
  <2>4. QED
    BY <2>3 DEF S, s, t, u, o
<1>5. Types' /\ LockInv'
  BY <1>1, <1>2, <1>4 DEF IInv, Types, LockInv
<1>6. PhaseInv'
  BY <1>1, <1>2 DEF IInv, PhaseInv
<1>7. \A d \in Conn : Owed(d)' = Owed(d)
  BY <1>1 DEF Owed
<1>8. \A d \in Conn \ {c} : Same(d)
  BY <1>1, <1>2 DEF Same
<1>9. CopiesInv'
  <2>1. PICK n \in Nat : Copies(c, n)
    BY DEF IInv, CopiesInv
  <2>2. \A i \in 1 .. Len(chan'[c]) : i \in Nat /\ i + 1 \in 1 .. Len(chan[c]) /\ chan'[c][i] = chan[c][i + 1]
    BY <1>4
  <2>3. n \in 0 .. Len(out[c]) /\ 1 \in 1 .. Len(chan[c])
    BY <1>4, <2>1 DEF Copies
  <2>4. \A i \in (n + 1) .. Len(out'[c]) :
          \/ i \in (n + 1) .. Len(out[c]) /\ out'[c][i] = out[c][i]
          \/ i = Len(out[c]) + 1 /\ out'[c][i] = chan[c][1]
    BY <1>4, <2>3
  <2>5. n \in 0 .. Len(out'[c]) /\ \A i \in 1 .. n : out'[c][i] = i
    <3>1. n \in 0 .. Len(out'[c]) /\ \A i \in 1 .. n : i \in 1 .. Len(out[c])
      BY <1>4, <2>3
    <3>2. \A i \in 1 .. n : out[c][i] = i
      BY <2>1 DEF Copies
    <3>3. QED
      BY <1>4, <3>1, <3>2
  <2>6. \A i, j \in (n + 1) .. Len(out'[c]) : out'[c][i] = out'[c][j] => i = j
    <3>1. \A i, j \in (n + 1) .. Len(out[c]) : out[c][i] = out[c][j] => i = j
      BY <2>1 DEF Copies
    <3>2. 1 \in 1 .. Len(chan[c])
      BY <1>4
    <3>3. \A i \in (n + 1) .. Len(out[c]) : out[c][i] # chan[c][1]
      BY <2>1, <3>2 DEF Copies
    <3>4. ASSUME NEW i \in (n + 1) .. Len(out'[c]), NEW j \in (n + 1) .. Len(out'[c]), out'[c][i] = out'[c][j]
          PROVE  i = j
      <4>1. \/ i \in (n + 1) .. Len(out[c]) /\ out'[c][i] = out[c][i]
            \/ i = Len(out[c]) + 1 /\ out'[c][i] = chan[c][1]
        BY <2>4, <3>4
      <4>2. \/ j \in (n + 1) .. Len(out[c]) /\ out'[c][j] = out[c][j]
            \/ j = Len(out[c]) + 1 /\ out'[c][j] = chan[c][1]
        BY <2>4, <3>4
      <4>3. QED
        BY <3>1, <3>3, <3>4, <4>1, <4>2, Zenon
    <3>5. QED
      BY <3>4
  <2>7. \A i, j \in 1 .. Len(chan'[c]) : chan'[c][i] = chan'[c][j] => i = j
    <3>1. \A i, j \in 1 .. Len(chan[c]) : chan[c][i] = chan[c][j] => i = j
      BY <2>1 DEF Copies
    <3>2. \A i, j \in 1 .. Len(chan'[c]) : i + 1 = j + 1 => i = j
      BY <2>2
    <3>3. QED
      BY <2>2, <3>1, <3>2
  <2>8. \A i \in (n + 1) .. Len(out'[c]), j \in 1 .. Len(chan'[c]) : out'[c][i] # chan'[c][j]
    <3>1. ASSUME NEW j \in 1 .. Len(chan'[c])
          PROVE  /\ chan[c][1] # chan'[c][j]
                 /\ \A i \in (n + 1) .. Len(out[c]) : out[c][i] # chan'[c][j]
      <4>1. j \in Nat /\ j + 1 \in 1 .. Len(chan[c]) /\ chan'[c][j] = chan[c][j + 1]
        BY <2>2, Zenon
      <4>2. j + 1 # 1
        BY <3>1, <4>1
      <4>3. QED
        BY <2>1, <2>3, <4>1, <4>2 DEF Copies
    <3>2. QED
      BY <2>4, <3>1
  <2>9. \A i \in (n + 1) .. Len(out'[c]) : out'[c][i] \notin Owed(c)
    BY <2>1, <2>3, <2>4 DEF Copies
  <2>10. \A i \in 1 .. Len(chan'[c]) : chan'[c][i] \notin Owed(c)
    BY <2>1, <2>2 DEF Copies
  <2>11. Copies(c, n)'
    <3>1. \A i \in 1 .. Len(replay'[c]) : FALSE
      BY <1>1, <1>3
    <3>2. QED
      BY <1>7, <2>5, <2>6, <2>7, <2>8, <2>9, <2>10, <3>1 DEF Copies
  <2>12. \A d \in Conn \ {c} : \E m \in Nat : Copies(d, m)'
    BY <1>7, <1>8, CopiesKeep DEF IInv, CopiesInv
  <2>13. QED
    BY <2>11, <2>12 DEF CopiesInv
<1>10. GapInv'
  <2>1. ASSUME NEW e \in 1 .. ledger PROVE Delivered(c, e)'
    <3>1. Delivered(c, e)
      BY <1>1 DEF IInv, GapInv
    <3>2. CASE \E i \in 1 .. Len(out[c]) : out[c][i] = e
      <4>1. PICK i \in 1 .. Len(out[c]) : out[c][i] = e
        BY <3>2
      <4>2. i \in 1 .. Len(out'[c]) /\ out'[c][i] = e
        BY <1>4, <4>1
      <4>3. QED
        BY <4>2 DEF Delivered
    <3>3. CASE \E i \in 1 .. Len(chan[c]) : chan[c][i] = e
      <4>1. PICK i \in 1 .. Len(chan[c]) : chan[c][i] = e
        BY <3>3
      <4>2. CASE i = 1
        BY <1>4, <4>1, <4>2 DEF Delivered
      <4>3. CASE i # 1
        <5>1. i - 1 \in 1 .. Len(chan'[c]) /\ chan'[c][i - 1] = e
          BY <1>4, <4>1, <4>3
        <5>2. QED
          BY <5>1 DEF Delivered
      <4>4. QED
        BY <4>2, <4>3
    <3>4. CASE (\E i \in 1 .. Len(replay[c]) : replay[c][i] = e) \/ e \in dropped[c] \cup Owed(c)
      BY <1>1, <1>7, <3>4 DEF Delivered
    <3>5. QED
      BY <3>1, <3>2, <3>3, <3>4 DEF Delivered
  <2>2. \A d \in Conn \ {c} : phase[d] = "serving" => \A e \in 1 .. ledger : Delivered(d, e)'
    BY <1>1, <1>7, <1>8, DeliveredKeeps DEF IInv, GapInv
  <2>3. QED
    BY <1>1, <2>1, <2>2 DEF GapInv
<1>11. QED
  BY <1>5, <1>6, <1>9, <1>10 DEF IInv

-----------------------------------------------------------------------------
(* The client, and the invariant. *)

LEMMA ClientKeeps ==
  ASSUME IInv, Client
  PROVE  IInv'
<1>1. CASE OnOpen \/ OnMessage \/ OnError
  <2>1. UNCHANGED <<ledger, pending, fanout, subscribers, chan, panicked, dropped, phase, replay, out, cur>>
    BY <1>1 DEF OnOpen, OnMessage, OnError, serverVars, handlerVars
  <2>2. Types' /\ PhaseInv' /\ LockInv'
    BY <2>1 DEF IInv, Types, PhaseInv, LockInv
  <2>3. CopiesInv' /\ GapInv'
    BY <2>1, NothingMoves DEF IInv, GapInv
  <2>4. QED
    BY <2>2, <2>3 DEF IInv
<1>2. CASE Connect
  <2>1. /\ cur < MaxConn /\ cur' = cur + 1 /\ phase' = [phase EXCEPT ![cur + 1] = "open"]
        /\ UNCHANGED <<ledger, pending, fanout, subscribers, chan, panicked, dropped, replay, out>>
    BY <1>2 DEF Connect, serverVars
  <2>2. cur \in Nat /\ MaxConn \in Nat
    BY TailAssumption DEF IInv, Types
  <2>3. cur + 1 \in Conn /\ cur + 1 > cur
    BY <2>1, <2>2 DEF Conn
  <2>4. phase[cur + 1] = "unused"
    BY <2>3 DEF IInv, PhaseInv
  <2>5. phase'[cur + 1] = "open" /\ \A d \in Conn \ {cur + 1} : phase'[d] = phase[d]
    BY <2>1, <2>3 DEF IInv, Types
  <2>6. Types' /\ LockInv'
    BY <2>1, <2>2, <2>3 DEF IInv, Types, LockInv
  <2>7. PhaseInv'
    <3>1. \A d \in Conn : d > cur + 1 => d > cur /\ d # cur + 1
      BY <2>2 DEF Conn
    <3>2. QED
      BY <2>1, <2>2, <2>4, <2>5, <3>1 DEF IInv, PhaseInv
  <2>8. CopiesInv' /\ GapInv'
    BY <2>1, <2>5, NothingMoves DEF IInv, GapInv
  <2>9. QED
    BY <2>6, <2>7, <2>8 DEF IInv
<1>3. QED
  BY <1>1, <1>2 DEF Client

LEMMA NextKeeps ==
  ASSUME IInv, [TailNext]_tailVars
  PROVE  IInv'
<1>1. CASE Memory
  BY <1>1, AppendKeeps, StartKeeps, SendKeeps, EndKeeps DEF Memory
<1>2. CASE Client
  BY <1>2, ClientKeeps
<1>3. ASSUME NEW c \in Conn, Handler(c) PROVE IInv'
  <2>1. CASE ReplayFails(c) \/ NoticeGone(c) \/ Cancel(c)
    BY <2>1, LeaveKeeps
  <2>2. CASE Subscribe(c) \/ Replay(c) \/ WriteReplayed(c) \/ WriteLive(c)
    BY <2>2, SubscribeKeeps, ReplayKeeps, WriteReplayedKeeps, WriteLiveKeeps
  <2>3. QED
    BY <1>3, <2>1, <2>2 DEF Handler
<1>4. CASE UNCHANGED tailVars
  <2>1. UNCHANGED <<ledger, pending, fanout, subscribers, chan, panicked, dropped, phase, replay, out, cur>>
    BY <1>4 DEF tailVars, serverVars, handlerVars, clientVars
  <2>2. Types' /\ PhaseInv' /\ LockInv'
    BY <2>1 DEF IInv, Types, PhaseInv, LockInv
  <2>3. CopiesInv' /\ GapInv'
    BY <2>1, NothingMoves DEF IInv, GapInv
  <2>4. QED
    BY <2>2, <2>3 DEF IInv
<1>5. QED
  BY <1>1, <1>2, <1>3, <1>4 DEF TailNext

\* Every step of the ledger, of its handlers and of the client keeps who is
\* registered, what is owed to whom and what each connection got.
THEOREM TailInvariant == TailSpec => []IInv
BY InitEstablishes, NextKeeps, PTL DEF TailSpec

\* memory.go, Subscribe and broadcast: for any number of connections that come
\* and go while entries are broadcast, nobody sends on a closed channel.
THEOREM NeverSendsOnClosed == TailSpec => []NoSendOnClosed
<1>1. IInv => NoSendOnClosed
  BY DEF IInv, LockInv, NoSendOnClosed
<1>2. QED
  BY TailInvariant, <1>1, PTL

LEMMA TwiceAtMost ==
  ASSUME IInv, NEW c \in Conn, NEW e \in 1 .. ledger
  PROVE  Cardinality({i \in DOMAIN out[c] : out[c][i] = e}) <= 2
<1> DEFINE S == {i \in DOMAIN out[c] : out[c][i] = e}
<1>1. PICK n \in Nat : Copies(c, n)
  BY DEF IInv, CopiesInv
<1>2. Len(out[c]) \in Nat /\ DOMAIN out[c] = 1 .. Len(out[c]) /\ n <= Len(out[c])
  <2>1. out[c] \in Seq(1 .. ledger)
    BY ElementsInLedger DEF IInv
  <2>2. QED
    BY <1>1, <2>1, LenProperties DEF Copies
<1>3. \A i \in DOMAIN out[c] : i \in 1 .. n \/ i \in (n + 1) .. Len(out[c])
  BY <1>2
<1>4. \E j : S \subseteq {e, j}
  <2>1. \A i \in 1 .. n : out[c][i] = i
    BY <1>1 DEF Copies
  <2>2. CASE \E j \in (n + 1) .. Len(out[c]) : out[c][j] = e
    <3>1. PICK j \in (n + 1) .. Len(out[c]) : out[c][j] = e
      BY <2>2
    <3>2. \A i \in (n + 1) .. Len(out[c]) : out[c][i] = e => i = j
      BY <1>1, <3>1 DEF Copies
    <3>3. S \subseteq {e, j}
      BY <1>3, <2>1, <3>2
    <3>4. QED
      BY <3>3
  <2>3. CASE ~ \E j \in (n + 1) .. Len(out[c]) : out[c][j] = e
    <3>1. S \subseteq {e, e}
      BY <1>3, <2>1, <2>3
    <3>2. QED
      BY <3>1
  <2>4. QED
    BY <2>2, <2>3
<1>5. PICK j : S \subseteq {e, j}
  BY <1>4
<1>6. IsFiniteSet({j}) /\ Cardinality({j}) = 1
  BY FS_Singleton
<1>7. IsFiniteSet({e, j}) /\ Cardinality({e, j}) <= 2
  <2>1. PICK T : T = {j}
    OBVIOUS
  <2>2. IsFiniteSet(T) /\ Cardinality(T) = 1
    BY <1>6, <2>1
  <2>3. IsFiniteSet(T \cup {e}) /\ Cardinality(T \cup {e}) = IF e \in T THEN Cardinality(T) ELSE Cardinality(T) + 1
    BY <2>2, FS_AddElement
  <2>4. {e, j} = T \cup {e}
    BY <2>1
  <2>5. QED
    BY <2>2, <2>3, <2>4
<1>8. QED
  BY <1>5, <1>7, FS_Subset, FS_CardinalityType

\* ledger_tail.go: once a handler has its replay, no entry is missing from what
\* it wrote, has to write or refused, however many entries are appended before,
\* during and after the replay; and none is written more than twice.
THEOREM EntriesAlwaysArrive == TailSpec => []EntriesArriveOnce
<1>1. ASSUME IInv PROVE EntriesArriveOnce
  <2>1. AtMostTwice
    BY <1>1, TwiceAtMost DEF AtMostTwice
  <2>2. ASSUME NEW c \in Conn, phase[c] = "serving", NEW e \in 1 .. ledger
        PROVE  e \in ToSet(out[c]) \cup ToSet(replay[c]) \cup ToSet(chan[c]) \cup dropped[c]
                     \cup pending \cup (IF c \in fanout.todo THEN {fanout.entry} ELSE {})
    <3>1. Delivered(c, e)
      BY <1>1, <2>2 DEF IInv, GapInv
    <3>2. out[c] \in Seq(1 .. ledger) /\ replay[c] \in Seq(1 .. ledger) /\ chan[c] \in Seq(1 .. ledger)
      BY <1>1, ElementsInLedger DEF IInv
    <3>3. \A s \in Seq(1 .. ledger) : \A i \in 1 .. Len(s) : s[i] \in ToSet(s)
      BY LenProperties DEF ToSet
    <3>4. QED
      BY <3>1, <3>2, <3>3 DEF Delivered, Owed
  <2>3. NoGap
    BY <2>2 DEF NoGap
  <2>4. QED
    BY <2>1, <2>3 DEF EntriesArriveOnce
<1>2. QED
  BY TailInvariant, <1>1, PTL
=============================================================================
