--------------------------- MODULE HarnessInstall ---------------------------
(***************************************************************************)
(* agentlock install: the CLI (cli/src/commands/install.ts,                *)
(* util/install-fs.ts) detects what is wired, strips what the user         *)
(* deselects, has the daemon plan the new files, writes them with backups  *)
(* and a rollback, and has the daemon record the install in a manifest and *)
(* the ledger (control-plane/internal/api/install.go).  The user and the   *)
(* harnesses edit the same files meanwhile, any write may fail, and the    *)
(* CLI or the daemon may die at any step.                                  *)
(***************************************************************************)
EXTENDS HarnessConfig, Selection, Sequences, SequencesExt

CONSTANTS
  Files,     \* the files, in the order of the picker's harnesses
  FilesOf,   \* harness -> its files, first the one its detector reads
  KindOf,    \* file -> its kind
  Initial,   \* file -> contents it may have at first
  Picks,     \* bound: selections the user may make
  MaxRuns,   \* bound: runs of the CLI
  MaxEdits   \* bound: edits by the user

Harness == DOMAIN FilesOf
File == DOMAIN KindOf

ASSUME InstallAssumption ==
  /\ Files \in Seq(File) /\ Range(Files) = File /\ IsInjective(Files)
  /\ \A h \in Harness : FilesOf[h] \in Seq(File) \ {<<>>}
  /\ DOMAIN Initial = File /\ \A f \in File : Initial[f] \subseteq Fits(KindOf[f])
  /\ "extensions" \notin File
  /\ Picks \subseteq SUBSET Harness /\ MaxRuns \in Nat /\ MaxEdits \in Nat

VARIABLES
  files,      \* the configuration files
  enabled,    \* Desktop Extensions are enabled in the app
  backups,    \* backup files: the file and its content
  run, edits,
  pc,         \* where the CLI is; "idle" between two runs
  chosen, dropped,  \* harnesses picked, and deselected ones that are wired
  ops,        \* operations still to execute
  copy,       \* what the backup step of the current operation found
  written,    \* completed writes, for the rollback
  manifests,  \* run -> files of its active manifest
  ledger,     \* entries of the install endpoints, which run they are of
  hiSeen,     \* each file when the CLI last looked at it
  edited,     \* files the user has edited since; "extensions" if enabled changed
  stuck,      \* files a rollback could not restore
  outcome     \* what the CLI reported of its last run
disk == <<files, enabled, backups>>
cli == <<chosen, dropped, ops, copy, written>>
hiDaemon == <<manifests, ledger>>
history == <<hiSeen, edited, stuck>>
hiVars == <<disk, run, edits, pc, cli, hiDaemon, history, outcome>>

hiInit ==
  /\ files \in [File -> UNION Range(Initial)] /\ \A f \in File : files[f] \in Initial[f]
  /\ enabled \in BOOLEAN /\ backups = {}
  /\ run = 0 /\ edits = 0 /\ pc = "idle"
  /\ chosen = {} /\ dropped = {} /\ ops = <<>> /\ copy = NoFile /\ written = <<>>
  /\ manifests = <<>> /\ ledger = {}
  /\ hiSeen = files /\ edited = {} /\ stuck = {} /\ outcome = "none"

-----------------------------------------------------------------------------

Wired(h) == LET f == Head(FilesOf[h]) IN Detected(KindOf[f], files[f])

\* The files of a set of harnesses, in the order of the picker.  Codex and
\* Codex Desktop have the same ones.
FilesFor(S) == Among(Files, UNION {Range(FilesOf[h]) : h \in S})

Strippable(S) == Among(FilesFor(S), {f \in File : KindOf[f] # "flag"})

LooksAt(F) ==
  /\ hiSeen' = [f \in File |-> IF f \in F THEN files[f] ELSE hiSeen[f]]
  /\ edited' = edited \ F

\* The run ends.
hiEnds(how) ==
  /\ pc' = "idle" /\ outcome' = how
  /\ chosen' = {} /\ dropped' = {} /\ ops' = <<>> /\ copy' = NoFile /\ written' = <<>>

StripOp(f) == [file |-> f, content |-> Stripped(files[f])]
StripOps(fs) ==
  LET found == Among(fs, {f \in File : Strips(KindOf[f], files[f])})
  IN  [i \in DOMAIN found |-> StripOp(found[i])]

\* Detection, the picker, the session.
Start(S) ==
  /\ pc = "idle" /\ run < MaxRuns
  /\ dropped' = {h \in Harness : Wired(h)} \ S
  /\ S \cup dropped' # {}
  /\ chosen' = S /\ run' = run + 1 /\ outcome' = "none" /\ stuck' = {}
  /\ pc' = IF dropped' = {} THEN "plan" ELSE "unwire"
  /\ UNCHANGED <<disk, edits, ops, copy, written, hiDaemon, hiSeen, edited>>

\* No daemon, no session, no plan, an unsafe path, or the user says no.
Quit ==
  /\ pc \in {"unwire", "plan", "confirm"}
  /\ hiEnds("quit")
  /\ UNCHANGED <<disk, run, edits, hiDaemon, history>>

\* The CLI reads the files of the deselected harnesses, the daemon computes
\* the strips and appends one entry.  If one does not parse none is executed.
Unwire(recorded) ==
  /\ pc = "unwire"
  /\ LET fs == Strippable(dropped)
         failures == {f \in Range(fs) : StripFails(KindOf[f], files[f])}
     IN  /\ LooksAt(Range(fs))
         /\ ledger' = IF recorded THEN ledger \cup {[what |-> "uninstall_harnesses", run |-> run]}
                                  ELSE ledger
         /\ IF recorded /\ failures = {} THEN ops' = StripOps(fs) /\ pc' = "strip"
                                         ELSE ops' = <<>> /\ pc' = "plan"
  /\ UNCHANGED <<disk, run, edits, chosen, dropped, copy, written, manifests, stuck, outcome>>

\* executeUninstallOps writes the stripped texts, without backups.
Strip ==
  /\ pc = "strip" /\ ops # <<>>
  /\ files' = [files EXCEPT ![Head(ops).file] = Head(ops).content]
  /\ ops' = Tail(ops)
  /\ UNCHANGED <<enabled, backups, run, edits, pc, chosen, dropped, copy, written, hiDaemon, history, outcome>>

Unwired ==
  /\ pc = "strip" /\ ops = <<>>
  /\ pc' = "plan" /\ outcome' = "unwired"
  /\ UNCHANGED <<disk, run, edits, cli, hiDaemon, history>>

\* A failing strip leaves the others undone and the install goes on.
StripBreaks ==
  /\ pc = "strip" /\ ops # <<>>
  /\ pc' = "plan" /\ ops' = <<>>
  /\ UNCHANGED <<disk, run, edits, chosen, dropped, copy, written, hiDaemon, history, outcome>>

\* The CLI reads every file it knows of and the daemon plans the writes.  With
\* nothing to write the run is over.
WriteOp(f) == [file |-> f, content |-> Merged(KindOf[f], files[f], enabled),
               backup |-> BacksUp(KindOf[f], files[f])]
Plan ==
  /\ pc = "plan"
  /\ LET fs == Among(FilesFor(chosen), {f \in File : Planned(KindOf[f], files[f], enabled)}) IN
       IF fs = <<>> THEN hiEnds("none") /\ UNCHANGED <<hiSeen, edited>>
       ELSE /\ ops' = [i \in DOMAIN fs |-> WriteOp(fs[i])]
            /\ LooksAt(File \cup {"extensions"})
            /\ pc' = "confirm" /\ outcome' = "none"
            /\ UNCHANGED <<chosen, dropped, copy, written>>
  /\ UNCHANGED <<disk, run, edits, hiDaemon, stuck>>

Confirm ==
  /\ pc = "confirm" /\ pc' = "backup"
  /\ UNCHANGED <<disk, run, edits, cli, hiDaemon, history, outcome>>

\* The backup copies what the file holds now, not what the plan was made from.
Backup ==
  /\ pc = "backup"
  /\ LET f == Head(ops).file IN
       IF Head(ops).backup /\ files[f].text # "absent"
       THEN /\ backups' = backups \cup {[file |-> f, content |-> files[f]]}
            /\ copy' = files[f]
            /\ LooksAt({f})
       ELSE copy' = NoFile /\ UNCHANGED <<backups, hiSeen, edited>>
  /\ pc' = "rename"
  /\ UNCHANGED <<files, enabled, run, edits, chosen, dropped, ops, written, hiDaemon, stuck, outcome>>

Write ==
  /\ pc = "rename"
  /\ files' = [files EXCEPT ![Head(ops).file] = Head(ops).content]
  /\ written' = Append(written, [file |-> Head(ops).file, content |-> copy])
  /\ ops' = Tail(ops)
  /\ pc' = IF Len(ops) = 1 THEN "apply" ELSE "backup"
  /\ UNCHANGED <<enabled, backups, run, edits, chosen, dropped, copy, hiDaemon, history, outcome>>

\* A directory, a backup, a temporary file or a rename fails.
WriteBreaks ==
  /\ pc \in {"backup", "rename"}
  /\ pc' = "rollback"
  /\ UNCHANGED <<disk, run, edits, cli, hiDaemon, history, outcome>>

RollBack_Deletes(restored) ==
  /\ pc = "rollback" /\ written # <<>>
  /\ LET w == Last(written) IN
       IF restored THEN files' = [files EXCEPT ![w.file] = NoFile] /\ UNCHANGED stuck
                   ELSE stuck' = stuck \cup {w.file} /\ UNCHANGED files
  /\ written' = Front(written)
  /\ UNCHANGED <<enabled, backups, run, edits, pc, chosen, dropped, ops, copy, hiDaemon, hiSeen, edited, outcome>>

\* The last write first: its backup is restored, or the file it made deleted.
\* A step that fails is passed over.
RollBack(restored) ==
  /\ pc = "rollback" /\ written # <<>>
  /\ LET w == Last(written) IN
       IF restored THEN files' = [files EXCEPT ![w.file] = w.content] /\ UNCHANGED stuck
                   ELSE stuck' = stuck \cup {w.file} /\ UNCHANGED files
  /\ written' = Front(written)
  /\ UNCHANGED <<enabled, backups, run, edits, pc, chosen, dropped, ops, copy, hiDaemon, hiSeen, edited, outcome>>

RolledBack ==
  /\ pc = "rollback" /\ written = <<>>
  /\ hiEnds("failed")
  /\ UNCHANGED <<disk, run, edits, hiDaemon, history>>

\* installApplyHandler: the manifest, then the entry.  If the entry fails the
\* manifest is deleted; the files stay as they are.
WriteManifest(ok) ==
  /\ pc = "apply"
  /\ IF ok THEN /\ manifests' = [r \in DOMAIN manifests \cup {run} |->
                                   IF r = run THEN {w.file : w \in Range(written)} ELSE manifests[r]]
                /\ pc' = "record" /\ UNCHANGED <<cli, outcome>>
           ELSE hiEnds("unrecorded") /\ UNCHANGED manifests
  /\ UNCHANGED <<disk, run, edits, ledger, history>>

Record(ok, deleted) ==
  /\ pc = "record"
  /\ IF ok THEN /\ ledger' = ledger \cup {[what |-> "apply", run |-> run]}
                /\ pc' = "done" /\ outcome' = "done"
                /\ UNCHANGED <<cli, manifests>>
           ELSE /\ manifests' = IF deleted THEN Restrict(manifests, DOMAIN manifests \ {run}) ELSE manifests
                /\ hiEnds("unrecorded") /\ UNCHANGED ledger
  /\ UNCHANGED <<disk, run, edits, history>>

hiFinish ==
  /\ pc = "done" /\ hiEnds("done")
  /\ UNCHANGED <<disk, run, edits, hiDaemon, history>>

\* The CLI dies, or the daemon does under it.
Crash ==
  /\ pc # "idle"
  /\ hiEnds("crashed")
  /\ UNCHANGED <<disk, run, edits, hiDaemon, history>>

\* install.uninstall for the session of an earlier run.  The manifest is
\* archived before the entry is appended.  No client of this endpoint is in the
\* repository: one is taken to send the files of the manifest and to execute
\* the strips as the install command does.
UninstallSession(r, recorded) ==
  /\ pc = "idle" /\ r \in DOMAIN manifests
  /\ LET fs == Among(Files, manifests[r])
         failures == {f \in manifests[r] : StripFails(KindOf[f], files[f])}
     IN  /\ LooksAt(manifests[r])
         /\ manifests' = IF failures = {} THEN Restrict(manifests, DOMAIN manifests \ {r}) ELSE manifests
         /\ ledger' = IF recorded THEN ledger \cup {[what |-> "uninstall", run |-> r]} ELSE ledger
         /\ IF recorded /\ failures = {} THEN ops' = StripOps(fs) /\ pc' = "strip"
                                         ELSE UNCHANGED <<ops, pc>>
  /\ dropped' = {h \in Harness : Range(Strippable({h})) \subseteq manifests[r]}
  /\ outcome' = "none"
  /\ UNCHANGED <<disk, run, edits, chosen, copy, written, stuck>>

-----------------------------------------------------------------------------
(* The user and the harnesses. *)

Edits(f) ==
  LET base == IF files[f].text = "ok" THEN files[f] ELSE NoFile IN
  {[base EXCEPT !.text = "ok", !.entry = e, !.wrapped = FALSE, !.own = @ /\ KindOf[f] # "flag"] :
     e \in UserEntry} \cup {NoFile, Broken}

Edit(f, c) ==
  /\ edits < MaxEdits /\ edits' = edits + 1
  /\ KindOf[f] = "flag" => c.text # "broken"
  /\ files' = [files EXCEPT ![f] = c]
  /\ edited' = edited \cup {f}
  /\ UNCHANGED <<enabled, backups, run, pc, cli, hiDaemon, hiSeen, stuck, outcome>>

Toggle ==
  /\ edits < MaxEdits /\ edits' = edits + 1
  /\ enabled' = ~enabled
  /\ edited' = edited \cup {"extensions"}
  /\ UNCHANGED <<files, backups, run, pc, cli, hiDaemon, hiSeen, stuck, outcome>>

hiNext ==
  \/ \E S \in Picks : Start(S)
  \/ \E recorded \in BOOLEAN : Unwire(recorded)
  \/ Strip \/ Unwired \/ StripBreaks
  \/ Plan \/ Confirm \/ Quit
  \/ Backup \/ Write \/ WriteBreaks
  \/ \E restored \in BOOLEAN : RollBack(restored)
  \/ RolledBack
  \/ \E ok \in BOOLEAN : WriteManifest(ok)
  \/ \E ok, deleted \in BOOLEAN : Record(ok, deleted)
  \/ hiFinish \/ Crash
  \/ \E r \in 1 .. MaxRuns, recorded \in BOOLEAN : UninstallSession(r, recorded)
  \/ \E f \in File : \E c \in Edits(f) : Edit(f, c)
  \/ Toggle

hiSpec == hiInit /\ [][hiNext]_hiVars

-----------------------------------------------------------------------------
(* Properties *)

\* Whatever the CLI has seen of the user's in a file is in the file or in a
\* backup, at every step, unless the user has edited the file since.
UserDataKept ==
  \A f \in File \ edited :
    LET kept == UserPart(hiSeen[f]) IN
      \/ kept = UserPart(NoFile)
      \/ UserPart(files[f]) = kept
      \/ \E b \in backups : b.file = f /\ UserPart(b.content) = kept

\* After a failed install every file is what the CLI last saw there, unless the
\* rollback of that file failed.  (An empty file may be gone.)
FailedInstallUndone ==
  outcome = "failed" =>
    \A f \in File \ (edited \cup stuck) :
      files[f] = hiSeen[f] \/ {files[f].text, hiSeen[f].text} = {"absent", "empty"}

\* When the CLI reports an install done, every file of every chosen harness
\* gates what it can, what agentlock left in them is on the manifest of the
\* session, and the ledger has the entry.
DoneMeansWired ==
  pc = "done" =>
    /\ [what |-> "apply", run |-> run] \in ledger /\ run \in DOMAIN manifests
    /\ \A f \in Range(FilesFor(chosen)) \ edited :
         /\ Gates(KindOf[f], files[f], enabled) \/ (KindOf[f] = "bundle" /\ "extensions" \in edited)
         /\ Clean(files[f]) \/ KindOf[f] = "flag" \/ f \in manifests[run]

\* When it reports harnesses unwired, nothing of agentlock's is left in their
\* files, but for the flag in Codex's config.toml.
UnwiredIsClean ==
  pc = "plan" /\ outcome = "unwired" =>
    \A h \in dropped : \A f \in Range(FilesOf[h]) \ edited : KindOf[f] = "flag" \/ Clean(files[f])

\* What is reported holds.
ReportsHold == DoneMeansWired /\ UnwiredIsClean

-----------------------------------------------------------------------------
(* What comments say and the code does not do. *)

\* "an install without a ledger entry is worse than no install" (install.go)
WiredIsRecorded ==
  outcome = "unrecorded" => \A h \in Harness : Wired(h) => \E e \in ledger : e.what = "apply"

\* "aborted. no changes." (install.ts)
AbortedChangesNothing == [][pc = "confirm" /\ outcome' = "quit" => \A h \in dropped : Wired(h)]_hiVars

\* "Preserve the original verbatim so strip can put it back exactly."
\* (install_claude_desktop.go)
RestoredVerbatim == \A f \in File : files[f].entry = "bare" => files[f].wrapped

\* "a retry with the same session_id needs the manifest intact" (install.go)
FailedUninstallKeepsManifest ==
  [][\A r \in DOMAIN manifests : pc = "idle" /\ r \notin DOMAIN manifests' => ledger' # ledger]_hiVars
=============================================================================
