------------------------------- MODULE Checkup -------------------------------
(* What a user asks the CLI before trusting an installation: the detectors     *)
(* (cli/src/detect), agentlock doctor, status, ledger verify and fake-hook,    *)
(* and the picker of agentlock install (cli/src/tui/multiselect.tsx). A        *)
(* command asks one question after the other, and its exit code has to stand   *)
(* for all of them while the daemon comes and goes.                            *)
EXTENDS Integers, Sequences, FiniteSets, SequencesExt

CONSTANTS
  ckRows,       \* the registry of detectors, in order: harnesses
  ckKind,       \* harness -> the kind of its configuration file
  ckDisks,      \* harness -> what may be on disk for it
  ckMaxChanges  \* bound: what happens to the daemon during a command

\* Harnesses doctor checks, and install offers (isMvpEnabled).
SUPPORTED_HARNESSES ==
  {"claude-code", "claude-desktop", "codex", "codex-desktop", "cursor", "gemini"}

\* What is on disk for a harness: its directory, the text of the file, and where
\* agentlock's entry, if there is one, names the daemon.
ckContent == [dir : BOOLEAN, text : {"absent", "broken", "plain", "ours"},
              at : {"url", "hook", "entry"}, names : {"here", "other"}]
ASSUME CheckupAssumption ==
  /\ ckMaxChanges \in Nat
  /\ \A h \in ToSet(ckRows) :
       /\ ckDisks[h] \subseteq ckContent /\ \A c \in ckDisks[h] : c.text # "absent" => c.dir
       /\ h \in SUPPORTED_HARNESSES => ckKind[h] \in {"claude", "desktop", "codex", "hooks"}

VARIABLES
  ckDisk,      \* harness -> content
  ckDaemon,    \* [up, sound]: it answers, its ledger verifies
  ckCommand,   \* the command that runs
  ckStep,      \* where it is; "done" at the end
  ckChecks,    \* what it has found: [code, status]
  ckExit,      \* its exit code
  ckPicker,    \* cursor, checked rows, result, and the rows the user has toggled
  ckSaw,       \* history: how each question was answered
  ckChanges

ckVars == <<ckDisk, ckDaemon, ckCommand, ckStep, ckChecks, ckExit, ckPicker, ckSaw, ckChanges>>
ckHarness == ToSet(ckRows)

-----------------------------------------------------------------------------
(* Detection. *)

NOT_INSTALLED == [installed |-> FALSE, daemonURL |-> "none"]
InstalledAt(c, places) ==
  [installed |-> TRUE, daemonURL |-> IF c.at \in places THEN c.names ELSE "none"]

claudeAgentlockState(c) == IF c.text = "ours" THEN InstalledAt(c, {"url"}) ELSE NOT_INSTALLED
claudeDesktopAgentlockState(c) == IF c.text = "ours" THEN InstalledAt(c, {"entry"}) ELSE NOT_INSTALLED
codexAgentlockState(c) == IF c.text = "ours" THEN InstalledAt(c, {"hook"}) ELSE NOT_INSTALLED
agentlockHookState(c) == IF c.text = "ours" THEN InstalledAt(c, {"entry", "hook"}) ELSE NOT_INSTALLED
\* A marker that does not parse still counts.
devStubAgentlockState(c) ==
  CASE c.text = "ours"   -> InstalledAt(c, {"entry"})
    [] c.text = "broken" -> [installed |-> TRUE, daemonURL |-> "none"]
    [] OTHER             -> NOT_INSTALLED

State(h) ==
  CASE ckKind[h] = "claude"  -> claudeAgentlockState(ckDisk[h])
    [] ckKind[h] = "desktop" -> claudeDesktopAgentlockState(ckDisk[h])
    [] ckKind[h] = "codex"   -> codexAgentlockState(ckDisk[h])
    [] ckKind[h] = "hooks"   -> agentlockHookState(ckDisk[h])
    [] OTHER                 -> devStubAgentlockState(ckDisk[h])

detectAll ==
  [h \in ckHarness |-> [here      |-> ckDisk[h].dir,
                        installed |-> State(h).installed, daemonURL |-> State(h).daemonURL]]

-----------------------------------------------------------------------------
(* agentlock doctor. *)

checkOf(code, status) == [code |-> code, status |-> status]

\* The checks of one harness that is here.
HarnessChecks(h) ==
  LET d == detectAll[h] IN
  IF ~d.here \/ h \notin SUPPORTED_HARNESSES THEN {}
  ELSE IF ~d.installed THEN {checkOf(<<"not_wired", h>>, "warn")}
  ELSE {checkOf(<<"wired", h>>, "ok")} \cup
       (IF d.daemonURL = "other" THEN {checkOf(<<"daemon_mismatch", h>>, "warn")} ELSE {})

\* The files, all read before the first request.
DetectHarnesses ==
  /\ ckCommand = "doctor" /\ ckStep = "start"
  /\ \E wrapper \in {"ok", "warn"} :
       ckChecks' = {checkOf(<<"wrapper", "">>, wrapper)} \cup UNION {HarnessChecks(h) : h \in ckHarness}
                   \cup (IF \A h \in ckHarness : ~detectAll[h].here
                         THEN {checkOf(<<"none_detected", "">>, "warn")} ELSE {})
  /\ ckStep' = "health"
  /\ UNCHANGED <<ckDisk, ckDaemon, ckCommand, ckExit, ckPicker, ckSaw, ckChanges>>

Questions == <<"health", "verify", "mode", "policy", "sessions">>
AnswerTo(q) ==
  IF ~ckDaemon.up THEN "none"
  ELSE IF q = "verify" /\ ~ckDaemon.sound THEN "bad" ELSE "good"

\* Mutant: a ledger that cannot be verified is a warning.
StatusOf_Lenient(q, a) ==
  IF a = "good" THEN "ok" ELSE IF a = "bad" \/ q = "health" THEN "error" ELSE "warn"

\* Only a daemon that does not answer at all, or not for the ledger, is an error.
StatusOf(q, a) ==
  IF a = "good" THEN "ok" ELSE IF q \in {"health", "verify"} THEN "error" ELSE "warn"

\* One question; without an answer to the first the others are not asked. Any of
\* them may be lost although the daemon is up.
Ask ==
  /\ ckCommand = "doctor" /\ ckStep \in ToSet(Questions)
  /\ \E a \in {AnswerTo(ckStep), "none"} :
       /\ ckChecks' = ckChecks \cup {checkOf(<<ckStep, "">>, StatusOf(ckStep, a))}
       /\ ckSaw' = [ckSaw EXCEPT ![ckStep] = a]
       /\ LET i == CHOOSE n \in DOMAIN Questions : Questions[n] = ckStep IN
          ckStep' = IF i = Len(Questions) \/ (ckStep = "health" /\ a = "none")
                    THEN "report" ELSE Questions[i + 1]
  /\ UNCHANGED <<ckDisk, ckDaemon, ckCommand, ckExit, ckPicker, ckChanges>>

runDoctor ==
  /\ ckCommand = "doctor" /\ ckStep = "report"
  /\ ckExit' = IF \E c \in ckChecks : c.status = "error" THEN 1 ELSE 0
  /\ ckStep' = "done"
  /\ UNCHANGED <<ckDisk, ckDaemon, ckCommand, ckChecks, ckPicker, ckSaw, ckChanges>>

-----------------------------------------------------------------------------
(* The commands with one question: an exception ends the CLI with 1. *)

runStatus ==
  /\ ckCommand = "status" /\ ckStep = "start"
  /\ \E a \in {AnswerTo("health"), "none"} :
       ckSaw' = [ckSaw EXCEPT !.health = a] /\ ckExit' = IF a = "none" THEN 1 ELSE 0
  /\ ckStep' = "done"
  /\ UNCHANGED <<ckDisk, ckDaemon, ckCommand, ckChecks, ckPicker, ckChanges>>

runLedgerVerify ==
  /\ ckCommand = "verify" /\ ckStep = "start"
  /\ \E a \in {AnswerTo("verify"), "none"} :
       /\ ckSaw' = [ckSaw EXCEPT !.verify = a]
       /\ ckExit' = CASE a = "none" -> 1 [] a = "bad" -> 4 [] OTHER -> 0
  /\ ckStep' = "done"
  /\ UNCHANGED <<ckDisk, ckDaemon, ckCommand, ckChecks, ckPicker, ckChanges>>

\* fake-hook: input that does not parse, no answer or one without a verdict, a
\* denial; a monitored one passes.
runFakeHook ==
  /\ ckCommand = "fake-hook" /\ ckStep = "start"
  /\ \/ ckExit' = 2 /\ UNCHANGED ckSaw
     \/ \E a \in (IF ckDaemon.up THEN {"allow", "monitor", "deny"} ELSE {}) \cup {"none"} :
          /\ ckSaw' = [ckSaw EXCEPT !.gate = a]
          /\ ckExit' = CASE a = "none" -> 1 [] a = "deny" -> 3 [] OTHER -> 0
  /\ ckStep' = "done"
  /\ UNCHANGED <<ckDisk, ckDaemon, ckCommand, ckChecks, ckPicker, ckChanges>>

-----------------------------------------------------------------------------
(* The picker. *)

Enabled(h) == h \in SUPPORTED_HARNESSES
Precheck == {h \in ckHarness : Enabled(h) /\ detectAll[h].installed}

toggleAll(checked) ==
  LET enabled == {h \in ckHarness : Enabled(h)}
  IN  IF enabled # {} /\ enabled \subseteq checked THEN {} ELSE enabled

firstEnabledIndex ==
  IF \E i \in DOMAIN ckRows : Enabled(ckRows[i])
  THEN CHOOSE i \in DOMAIN ckRows : Enabled(ckRows[i]) /\ \A j \in 1..(i - 1) : ~Enabled(ckRows[j])
  ELSE 1

ShowPicker ==
  /\ ckCommand = "install" /\ ckStep = "start"
  /\ ckPicker' = [ckPicker EXCEPT !.cursor = firstEnabledIndex, !.checked = Precheck]
  /\ ckStep' = "keys"
  /\ UNCHANGED <<ckDisk, ckDaemon, ckCommand, ckChecks, ckExit, ckSaw, ckChanges>>

PickerKeys ==
  /\ ckStep = "keys"
  /\ LET p == ckPicker
         n == Len(ckRows)
         at == ckRows[p.cursor]
     IN  \/ ckPicker' = [p EXCEPT !.cursor = (@ % n) + 1]
         \/ ckPicker' = [p EXCEPT !.cursor = ((@ + n - 2) % n) + 1]
         \/ /\ Enabled(at)
            /\ ckPicker' = [p EXCEPT !.toggled = @ \cup {at},
                 !.checked = IF at \in @ THEN @ \ {at} ELSE @ \cup {at}]
         \/ ckPicker' = [p EXCEPT !.checked = toggleAll(@), !.toggled = ckHarness]
  /\ UNCHANGED <<ckDisk, ckDaemon, ckCommand, ckStep, ckChecks, ckExit, ckSaw, ckChanges>>

\* Enter, or escape: the first of them counts (finish). What was wired and is not
\* chosen is uninstalled, what is chosen installed; escape does neither.
Finish ==
  /\ ckStep = "keys"
  /\ \/ ckPicker' = [ckPicker EXCEPT !.chosen = ckPicker.checked, !.toUninstall = Precheck \ ckPicker.checked]
     \/ UNCHANGED ckPicker
  /\ ckStep' = "done" /\ ckExit' = 0
  /\ UNCHANGED <<ckDisk, ckDaemon, ckCommand, ckChecks, ckSaw, ckChanges>>

-----------------------------------------------------------------------------
DaemonChanges ==
  /\ ckStep # "done" /\ ckCommand # "install" /\ ckChanges < ckMaxChanges
  /\ \/ ckDaemon' = [ckDaemon EXCEPT !.up = ~@]
     \/ ckDaemon' = [ckDaemon EXCEPT !.sound = ~@]
  /\ ckChanges' = ckChanges + 1
  /\ UNCHANGED <<ckDisk, ckCommand, ckStep, ckChecks, ckExit, ckPicker, ckSaw>>

ckInit ==
  /\ ckDisk \in [ckHarness -> UNION {ckDisks[h] : h \in ckHarness}]
  /\ \A h \in ckHarness : ckDisk[h] \in ckDisks[h]
  /\ ckDaemon \in [up : BOOLEAN, sound : BOOLEAN]
  /\ ckCommand \in {"doctor", "status", "verify", "fake-hook", "install"}
  /\ ckStep = "start" /\ ckChecks = {} /\ ckExit = 0 /\ ckChanges = 0
  /\ ckPicker = [cursor |-> 1, checked |-> {}, chosen |-> {}, toUninstall |-> {}, toggled |-> {}]
  /\ ckSaw = [health |-> "", verify |-> "", mode |-> "", policy |-> "", sessions |-> "", gate |-> ""]

ckNext ==
  \/ DetectHarnesses \/ Ask \/ runDoctor
  \/ runStatus \/ runLedgerVerify \/ runFakeHook
  \/ ShowPicker \/ PickerKeys \/ Finish \/ DaemonChanges

ckSpec == ckInit /\ [][ckNext]_ckVars

-----------------------------------------------------------------------------
\* Exit code 0 of doctor, status and ledger verify stands for every answer they
\* depend on: the daemon answered, and the ledger was checked and is sound, also
\* when the daemon goes away between two questions. 0 of fake-hook: not denied.
ZeroMeansSound ==
  ckStep = "done" /\ ckExit = 0 =>
    /\ ckCommand = "doctor" => ckSaw.health = "good" /\ ckSaw.verify = "good"
    /\ ckCommand = "status" => ckSaw.health = "good"
    /\ ckCommand = "verify" => ckSaw.verify = "good"
    /\ ckCommand = "fake-hook" => ckSaw.gate \in {"allow", "monitor"}

\* A report without a warning: every question was answered, and every harness
\* that is here and supported is wired, none to a daemon seen to be another.
CleanMeansWired ==
  ckCommand = "doctor" /\ ckStep = "done" /\ (\A c \in ckChecks : c.status = "ok") =>
    /\ \A n \in DOMAIN Questions : ckSaw[Questions[n]] = "good"
    /\ \A h \in ckHarness \cap SUPPORTED_HARNESSES :
         ckDisk[h].dir => ckDisk[h].text = "ours" /\ detectAll[h].daemonURL # "other"

\* Install changes only what its user toggled: a row that was left alone keeps its
\* wiring, and a row that is disabled is neither installed nor uninstalled.
LeftAloneStays ==
  ckCommand = "install" /\ ckStep = "done" =>
    /\ ckPicker.toUninstall \subseteq ckPicker.toggled
    /\ \A h \in ckPicker.chosen : Enabled(h) /\ (h \in ckPicker.toggled \/ detectAll[h].installed)

CheckupHolds == ZeroMeansSound /\ CleanMeansWired /\ LeftAloneStays
=============================================================================
