---------------------------- MODULE LedgerStore -----------------------------
(***************************************************************************)
(* The append-only ledger of the control plane: Memory.AppendLedger,       *)
(* ListLedger, NewMemory/resumeFromFile and Close of                       *)
(* control-plane/internal/storage/memory.go, and the verify handler of     *)
(* control-plane/internal/api/ledger.go.                                   *)
(*                                                                         *)
(* One mutex (m.mu) covers an append from the computation of the leaf to   *)
(* the return, so appends never interleave with each other or with a read; *)
(* what interleaves with them is failure: of the write, of the sync, of    *)
(* the process, of the machine.  The constant Fault names the failures     *)
(* that the environment of a run may inject.                               *)
(***************************************************************************)
EXTENDS Naturals, Sequences, FiniteSets

CONSTANTS
  Payload,     \* what callers append: payload hash and signature of one entry
  Oversized,   \* the payloads whose JSON line exceeds the reader's 1 MiB token
  Fault,       \* the failures the environment may inject
  MaxEntries   \* bound on the readable and on the acknowledged entries

FaultKinds ==
  { "crash",         \* the process dies; what it wrote stays in the page cache
    "power_loss",    \* the machine dies; bytes that were not synced may vanish
    "newline_loss",  \* ... and exactly the final newline is what vanishes
    "short_write",   \* Write puts down part of the line and returns an error
    "sync_fail" }    \* Sync returns an error after a complete Write

ASSUME OversizedAssumption == Oversized \subseteq Payload
ASSUME FaultAssumption == Fault \subseteq FaultKinds
ASSUME MaxEntriesAssumption == MaxEntries \in Nat

VARIABLES
  file,      \* the entries on the readable lines of ledger.jsonl, in order
  tail,      \* how the file ends: see TailKinds
  synced,    \* how many leading entries of file are known to be on stable storage
  daemon,    \* "running", "down", or "refused": NewMemory returned an error
  nextSeq,   \* m.nextSeq
  lastLeaf,  \* m.lastLeaf
  inFlight,  \* the entry AppendLedger has written and not yet synced, if any
  acked      \* history: the entries AppendLedger returned without an error

vars == <<file, tail, synced, daemon, nextSeq, lastLeaf, inFlight, acked>>

\* "clean": every line is a whole entry and ends with a newline;
\* "open": the last line is a whole entry without its newline;
\* "torn": some line does not parse.  What follows a torn line cannot be
\* read either (ListLedger and resumeFromFile stop there), so file holds
\* the lines in front of it only.
TailKinds == {"clean", "open", "torn"}

\* sha256(payload, sig, prev) over fixed-width fields, free of collisions:
\* the leaf stands for the whole list of payloads it commits to.
Genesis == <<>>
LeafHash(p, prev) == Append(prev, p)

Entry == [seq : Nat, payload : Payload, prev : Seq(Payload), leaf : Seq(Payload)]

NewEntry(p) ==
  [seq |-> nextSeq, payload |-> p, prev |-> lastLeaf, leaf |-> LeafHash(p, lastLeaf)]

Init ==
  /\ file = <<>>
  /\ tail = "clean"
  /\ synced = 0
  /\ daemon = "running"
  /\ nextSeq = 0
  /\ lastLeaf = Genesis
  /\ inFlight = <<>>
  /\ acked = <<>>

-----------------------------------------------------------------------------
\* AppendLedger

Idle ==
  /\ daemon = "running"
  /\ inFlight = <<>>
  /\ Len(file) < MaxEntries /\ Len(acked) < MaxEntries     \* bound

\* The file after one O_APPEND write of the whole line of e: behind an open
\* line both entries end up on one line, which then does not parse.
WriteLine(e) ==
  \/ /\ tail = "clean" /\ e.payload \notin Oversized
     /\ file' = Append(file, e)
     /\ UNCHANGED tail
  \/ /\ tail = "clean" /\ e.payload \in Oversized
     /\ tail' = "torn"
     /\ UNCHANGED file
  \/ /\ tail = "open"
     /\ file' = SubSeq(file, 1, Len(file) - 1)
     /\ tail' = "torn"
  \/ /\ tail = "torn"
     /\ UNCHANGED <<file, tail>>

\* The leaf is computed and the line is in the page cache.
AppendWrite(p) ==
  /\ Idle
  /\ WriteLine(NewEntry(p))
  /\ inFlight' = <<NewEntry(p)>>
  /\ UNCHANGED <<synced, daemon, nextSeq, lastLeaf, acked>>

\* Mutant: the append returns without having synced.
AppendSync_WithoutSync ==
  /\ inFlight # <<>>
  /\ nextSeq' = nextSeq + 1
  /\ lastLeaf' = inFlight[1].leaf
  /\ acked' = Append(acked, inFlight[1])
  /\ inFlight' = <<>>
  /\ UNCHANGED <<file, tail, daemon, synced>>

\* Sync succeeds: only now does the chain state advance and the caller hear.
AppendSync ==
  /\ inFlight # <<>>
  /\ nextSeq' = nextSeq + 1
  /\ lastLeaf' = inFlight[1].leaf
  /\ acked' = Append(acked, inFlight[1])
  /\ synced' = Len(file)
  /\ inFlight' = <<>>
  /\ UNCHANGED <<file, tail, daemon>>

\* Write returns an error with part of the line in the file: a prefix of it,
\* or everything but the newline.  The chain state stays.
AppendShortWrite(p) ==
  /\ "short_write" \in Fault
  /\ Idle
  /\ \/ /\ tail = "clean"
        /\ tail' = "torn"
        /\ UNCHANGED file
     \/ /\ tail = "clean" /\ p \notin Oversized
        /\ tail' = "open"
        /\ file' = Append(file, NewEntry(p))
     \/ /\ tail # "clean"
        /\ WriteLine(NewEntry(p))
  /\ UNCHANGED <<synced, daemon, nextSeq, lastLeaf, inFlight, acked>>

\* Sync returns an error: the caller is refused, the line stays in the file
\* and the chain state does not move past it.
AppendSyncFails ==
  /\ "sync_fail" \in Fault
  /\ inFlight # <<>>
  /\ inFlight' = <<>>
  /\ UNCHANGED <<file, tail, synced, daemon, nextSeq, lastLeaf, acked>>

-----------------------------------------------------------------------------
\* The life of the process

Stopped ==
  /\ daemon' = "down"
  /\ nextSeq' = 0
  /\ lastLeaf' = Genesis
  /\ inFlight' = <<>>

\* SIGTERM: Close takes the mutex, so it waits for an append to finish.
Close ==
  /\ daemon = "running"
  /\ inFlight = <<>>
  /\ Stopped
  /\ UNCHANGED <<file, tail, synced, acked>>

Crash ==
  /\ "crash" \in Fault
  /\ daemon = "running"
  /\ Stopped
  /\ UNCHANGED <<file, tail, synced, acked>>

\* The process is killed inside Write: part of the line is in the file.
CrashInWrite ==
  /\ "crash" \in Fault
  /\ Idle
  /\ tail' = "torn"
  /\ file' = IF tail = "open" THEN SubSeq(file, 1, Len(file) - 1) ELSE file
  /\ Stopped
  /\ UNCHANGED <<synced, acked>>

\* An append was acknowledged although it is not readable: what it synced
\* includes the torn line that hides it.
TornSynced == \E k \in DOMAIN acked : \A i \in DOMAIN file : file[i] # acked[k]

\* The machine goes down.  Any suffix of the bytes behind the last sync may
\* be lost, which can leave a torn line where the cut falls inside one.
PowerLoss(n) ==
  /\ "power_loss" \in Fault
  /\ n \in synced .. Len(file)
  /\ file' = SubSeq(file, 1, n)
  /\ \/ n = Len(file) /\ UNCHANGED tail
     \/ n = Len(file) /\ tail = "torn" /\ ~TornSynced /\ tail' = "clean"
     \/ n < Len(file) /\ tail' \in {"clean", "torn"}
  /\ Stopped
  /\ UNCHANGED <<synced, acked>>

\* The cut falls between the last line and its newline.
PowerLossAtNewline ==
  /\ "newline_loss" \in Fault
  /\ tail = "clean"
  /\ synced < Len(file)
  /\ tail' = "open"
  /\ Stopped
  /\ UNCHANGED <<file, synced, acked>>

\* Mutant: lines that do not parse are skipped instead of refused.
Restart_SkipsBadLines ==
  /\ daemon \in {"down", "refused"}
  /\ daemon' = "running"
  /\ nextSeq' = IF file = <<>> THEN 0 ELSE file[Len(file)].seq + 1
  /\ lastLeaf' = IF file = <<>> THEN Genesis ELSE file[Len(file)].leaf
  /\ UNCHANGED <<file, tail, synced, inFlight, acked>>

\* Mutant: the file is opened with O_TRUNC.
Restart_Truncates ==
  /\ daemon \in {"down", "refused"}
  /\ daemon' = "running"
  /\ file' = <<>> /\ tail' = "clean"
  /\ nextSeq' = 0 /\ lastLeaf' = Genesis
  /\ UNCHANGED <<synced, inFlight, acked>>

\* Mutant: the chain state starts over instead of being read from the file.
Restart_FromGenesis ==
  /\ daemon \in {"down", "refused"}
  /\ IF tail = "torn"
     THEN daemon' = "refused" /\ UNCHANGED <<nextSeq, lastLeaf>>
     ELSE daemon' = "running" /\ nextSeq' = 0 /\ lastLeaf' = Genesis
  /\ UNCHANGED <<file, tail, synced, inFlight, acked>>

\* NewMemory and resumeFromFile: the last line gives the next sequence number
\* and the leaf to chain from; a line that does not parse is fatal.
Restart ==
  /\ daemon \in {"down", "refused"}
  /\ IF tail = "torn"
     THEN daemon' = "refused" /\ UNCHANGED <<nextSeq, lastLeaf>>
     ELSE /\ daemon' = "running"
          /\ nextSeq' = IF file = <<>> THEN 0 ELSE file[Len(file)].seq + 1
          /\ lastLeaf' = IF file = <<>> THEN Genesis ELSE file[Len(file)].leaf
  /\ UNCHANGED <<file, tail, synced, inFlight, acked>>

Next ==
  \/ \E p \in Payload : AppendWrite(p)
  \/ AppendSync
  \/ \E p \in Payload : AppendShortWrite(p)
  \/ AppendSyncFails
  \/ Close
  \/ Crash
  \/ CrashInWrite
  \/ \E n \in synced .. Len(file) : PowerLoss(n)
  \/ PowerLossAtNewline
  \/ Restart

Spec == Init /\ [][Next]_vars

-----------------------------------------------------------------------------
\* What readers compute from the file

\* verifyEntry: the stored link and the recomputed leaf.
VerifyEntry(e, prevExpected) ==
  /\ e.prev = prevExpected
  /\ e.leaf = LeafHash(e.payload, prevExpected)

\* The leaf in front of position i; at Len(file) + 1 the leaf to chain from.
PrevLeaf(i) == IF i = 1 THEN Genesis ELSE file[i - 1].leaf

\* ListLedger: an error, hence nothing, as soon as one line does not parse.
ListLedger == IF tail = "torn" THEN <<>> ELSE file

\* ledgerVerifyHandler answers ok.
Verifies == \A i \in DOMAIN file : VerifyEntry(file[i], PrevLeaf(i))

-----------------------------------------------------------------------------
\* Properties

TypeOK ==
  /\ file \in Seq(Entry)
  /\ tail \in TailKinds
  /\ synced \in Nat
  /\ daemon \in {"running", "down", "refused"}
  /\ nextSeq \in Nat
  /\ lastLeaf \in Seq(Payload)
  /\ inFlight \in Seq(Entry) /\ Len(inFlight) <= 1
  /\ acked \in Seq(Entry)

\* The chain is never silently broken: whatever died and whenever it did,
\* the verify endpoint accepts every line there is, and the entry at
\* position i carries sequence number i, so that no number is used twice
\* (AppendLedger advances nextSeq and lastLeaf only after Sync, and
\* resumeFromFile rebuilds both from the last line).
ChainIntact ==
  /\ Verifies
  /\ \A i \in DOMAIN file : file[i].seq = i - 1

\* What AppendLedger acknowledged is in the file for good, at the position
\* that its sequence number names, through every crash and power loss.
AckedDurable ==
  \A k \in DOMAIN acked :
    /\ acked[k].seq + 1 \in DOMAIN file
    /\ file[acked[k].seq + 1] = acked[k]

\* While the daemon serves, ListLedger parses and returns every entry that
\* was acknowledged, in the order of the acknowledgements.
AckedListed ==
  daemon = "running" =>
    /\ \A k \in DOMAIN acked : \E i \in DOMAIN ListLedger : ListLedger[i] = acked[k]
    /\ \A j, k \in DOMAIN acked : j < k => acked[j].seq < acked[k].seq

\* No failure of any kind, and no later append, rewrites or removes an entry
\* that has reached stable storage.
SyncedNeverRewritten ==
  [][\A i \in 1 .. synced : i \in DOMAIN file' /\ file'[i] = file[i]]_vars

\* NewMemory never takes over a ledger with an unreadable line: better to
\* crashloop than silently break the chain.
RestartRefusesDamage ==
  [][(daemon # "running" /\ daemon' = "running") => tail # "torn"]_vars

-----------------------------------------------------------------------------
\* Refinement: a reader's view of the file is a DurableLog.

Position(e) == e.seq + 1

Log == INSTANCE DurableLog WITH
  log     <- [i \in DOMAIN file |-> file[i].payload],
  durable <- synced,
  acked   <- {Position(acked[k]) : k \in DOMAIN acked}

\* The ledger keeps the promise of DurableLog: it only grows at its end, what
\* it acknowledged is durable and never altered, and a crash or a power loss
\* takes away unacknowledged entries at most.
ImplementsDurableLog == Log!Spec
=============================================================================
