--------------------------- MODULE RepairClients ---------------------------
(* Repair of a false positive, from the three places that offer it: the CLI   *)
(* (cli/src/commands/false-positive.ts), the terminal dashboard               *)
(* (runFalsePositiveFlow) and the web dashboard (routes/events.tsx), against  *)
(* the daemon's case, validate and apply endpoints. The user is free to edit  *)
(* the replacement at any time; other edits of the policy come in between.    *)
EXTENDS Integers

CONSTANTS
  Repairer,      \* those who repair: "cli", "tui", "web"
  Draft,         \* the draft that comes with a case: its regex does not compile
  Replacement,   \* replacements that no longer deny the event; a text is its id
  rpMaxEdits     \* bound: edits of the policy by others

ASSUME RepairAssumption ==
  /\ Repairer \subseteq {"cli", "tui", "web"} /\ Draft \notin Replacement
  /\ rpMaxEdits \in Nat

VARIABLES
  rpPolicy,   \* [hash, rule, added]: a number that changes with every edit, the
              \* rule ("on", "off", "gone") and the replacements added
  rpUser,     \* repairer -> [at, case, text, asked, valid]
  rpApplied   \* history: [by, text, case, hash] of the repairs that were made

rpVars == <<rpPolicy, rpUser, rpApplied>>

Texts == {Draft} \cup Replacement
Requests == {"validating", "checking", "editing"}   \* fpBusy

rpIdle == [at |-> "idle", case |-> 0, text |-> Draft, asked |-> Draft, valid |-> FALSE]

rpInit ==
  /\ rpPolicy = [hash |-> 1, rule |-> "on", added |-> {}]
  /\ rpUser = [u \in Repairer |-> rpIdle]
  /\ rpApplied = {}

rpGoes(u, to) == rpUser' = [rpUser EXCEPT ![u].at = to]

\* The case stays in its directory or on the page; the terminal forgets it.
RequestEnds(u) == rpGoes(u, IF u = "tui" THEN "idle" ELSE "case")

-----------------------------------------------------------------------------
\* A new case: of the policy that is live, with the draft as the replacement. The
\* CLI writes both files again when they exist; the web page refreshes its case.
LoadCase(u) ==
  /\ rpUser[u].at \in {"idle", "case"} /\ rpPolicy.rule # "gone"
  /\ rpUser' = [rpUser EXCEPT ![u] = [rpIdle EXCEPT !.at = "case", !.case = rpPolicy.hash]]
  /\ UNCHANGED <<rpPolicy, rpApplied>>

\* In the web page the text stays editable while a request is on its way, and an
\* edit withdraws the validation. The editor of the CLI's user edits the file, and
\* what the command has read is not affected; the terminal dashboard waits.
EditText(u) ==
  /\ rpUser[u].at = "case" \/ (u = "web" /\ rpUser[u].at \in Requests)
  /\ \E t \in Texts \ {rpUser[u].text} :
       rpUser' = [rpUser EXCEPT ![u].text = t, ![u].valid = FALSE]
  /\ UNCHANGED <<rpPolicy, rpApplied>>

Validate(u) ==
  /\ rpUser[u].at = "case"
  /\ u = "tui" => rpUser[u].text # Draft      \* an unchanged text cancels
  /\ rpUser' = [rpUser EXCEPT ![u].at = "validating", ![u].asked = rpUser[u].text]
  /\ UNCHANGED <<rpPolicy, rpApplied>>

\* The verdict is about the text that was sent. The CLI and the terminal dashboard
\* go on to apply the same text; the web page enables its button.
Validated(u) ==
  LET ok == rpUser[u].asked \in Replacement IN
  /\ rpUser[u].at = "validating"
  /\ rpUser' = [rpUser EXCEPT ![u].valid = ok,
                  ![u].at = IF ok /\ u # "web" THEN "checking"
                            ELSE IF u = "tui" THEN "idle" ELSE "case"]
  /\ UNCHANGED <<rpPolicy, rpApplied>>

ApplyButton(u) ==
  /\ u = "web" /\ rpUser[u].at = "case" /\ rpUser[u].valid
  /\ rpUser' = [rpUser EXCEPT ![u].at = "checking", ![u].asked = rpUser[u].text]
  /\ UNCHANGED <<rpPolicy, rpApplied>>

-----------------------------------------------------------------------------
\* Mutant: a case of an older policy will do.
checkRepair_AnyCase(u) ==
  /\ rpUser[u].at = "checking"
  /\ IF rpUser[u].asked \in Replacement THEN rpGoes(u, "editing") ELSE RequestEnds(u)
  /\ UNCHANGED <<rpPolicy, rpApplied>>

\* The apply endpoint validates again and compares the hashes ...
checkRepair(u) ==
  /\ rpUser[u].at = "checking"
  /\ IF rpUser[u].asked \in Replacement /\ rpUser[u].case = rpPolicy.hash
       THEN rpGoes(u, "editing") ELSE RequestEnds(u)
  /\ UNCHANGED <<rpPolicy, rpApplied>>

\* ... before it takes the lock under which the policy is edited.
ApplyRepair(u) ==
  LET t == rpUser[u].asked IN
  /\ rpUser[u].at = "editing"
  /\ IF rpPolicy.rule = "gone" \/ t \in rpPolicy.added
       THEN RequestEnds(u) /\ UNCHANGED <<rpPolicy, rpApplied>>
       ELSE /\ rpPolicy' = [hash |-> rpPolicy.hash + 1, rule |-> "off",
                            added |-> rpPolicy.added \cup {t}]
            /\ rpApplied' = rpApplied \cup
                 {[by |-> u, text |-> t, case |-> rpUser[u].case, hash |-> rpPolicy.hash]}
            /\ RequestEnds(u)

\* A request that is lost: the daemon has not handled it.
Lost(u) ==
  /\ rpUser[u].at \in {"validating", "checking"} /\ RequestEnds(u)
  /\ UNCHANGED <<rpPolicy, rpApplied>>

OtherEdit ==
  /\ rpPolicy.hash <= rpMaxEdits
  /\ \E r \in {rpPolicy.rule, "gone"} :
       rpPolicy' = [rpPolicy EXCEPT !.hash = @ + 1, !.rule = r]
  /\ UNCHANGED <<rpUser, rpApplied>>

rpNext ==
  \/ \E u \in Repairer :
       \/ LoadCase(u) \/ EditText(u) \/ Validate(u) \/ Validated(u) \/ ApplyButton(u)
       \/ checkRepair(u) \/ ApplyRepair(u) \/ Lost(u)
  \/ OtherEdit

rpSpec == rpInit /\ [][rpNext]_rpVars

-----------------------------------------------------------------------------
\* A rule is off exactly from the moment its first replacement is there: whatever
\* fails, no event is left with neither (falsePositiveApplyHandler, mutatePolicy).
NoRuleWithoutReplacement ==
  /\ rpPolicy.rule = "off" => rpPolicy.added # {}
  /\ rpPolicy.added # {} => rpPolicy.rule # "on"

\* No text reaches the policy that denies the event it was written for, though the
\* text may have been edited since it was validated and anybody may send one.
OnlyWorkingReplacements == rpPolicy.added \subseteq Replacement

\* What the CLI and the terminal dashboard apply is the text they had validated,
\* and nobody applies a case twice: not by repeating the command, nor by pressing
\* the button that stays enabled, nor after an answer that was lost.
AppliedWasValidated ==
  /\ \A u \in Repairer \ {"web"} :
       rpUser[u].at \in {"checking", "editing"} =>
         rpUser[u].valid /\ rpUser[u].asked = rpUser[u].text
  /\ \A a, b \in rpApplied : a.by = b.by /\ a.case = b.case => a = b

RepairHolds == NoRuleWithoutReplacement /\ OnlyWorkingReplacements /\ AppliedWasValidated

-----------------------------------------------------------------------------
(* What documentation says and the code does not do. *)

\* docs/architecture/false-positive-reporting.md:156, "so stale UI state cannot
\* overwrite newer policy edits": a repair is made on the policy of its case.
StaleCaseRefused == \A a \in rpApplied : a.case = a.hash

\* A rule is replaced once: two repairs may both pass the comparison.
ReplacedOnce == \A a, b \in rpApplied : a = b

\* The button of the web page applies a text that was validated.
ButtonMeansValidated ==
  "web" \in Repairer /\ rpUser["web"].at = "case" /\ rpUser["web"].valid
    => rpUser["web"].asked = rpUser["web"].text
=============================================================================
