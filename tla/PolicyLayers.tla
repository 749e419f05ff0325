--------------------------- MODULE PolicyLayers ---------------------------
(***************************************************************************)
(* How one tool call is decided: the first-match evaluation of a policy,   *)
(* the overlay of a repo-local file, the layers of the session's groups    *)
(* and user, the priority rule between them and the daemon-wide mode       *)
(* (control-plane/internal/policy/policy.go, internal/api/repo_policy.go,  *)
(* group_policy.go, mode.go), while an operator edits the daemon policy    *)
(* (policy_crud.go), the group bundle and the repo file.                   *)
(*                                                                         *)
(* The call is fixed.  Of an evaluator the model keeps what it answers to  *)
(* that call, and whether it is an "always" evaluator; a gate whose match  *)
(* does not fire behaves as one whose evaluators all skip.  The layers are *)
(* those that groupPolicyLayers orders for the session (GroupOrder).       *)
(***************************************************************************)
EXTENDS Naturals, Sequences, SequencesExt, Selection

CONSTANTS
  RuleId,        \* gate ids
  DaemonFile,    \* policy files (gate sequences) the daemon may start from
  RepoFile,      \* contents an .agentlock.yaml may have
  LayerFile,     \* gate lists a group or user may have in group-policy.yaml
  EditGate,      \* gate blocks an operator adds to the daemon policy
  FileMode,      \* values of the policy file's mode: field
  Layers,        \* bound: layers of the session
  MaxGates       \* bound: gates the daemon policy grows to

Evaluator == {"always deny", "always allow", "deny", "allow", "skip"}
Unset == ""       \* a field that the file does not have
GateMode == {Unset, "monitor", "enforce"}
Gate == [id : RuleId, mode : GateMode, disabled : BOOLEAN,
         priority : Nat,   \* 0: the gate has no "precedence: priority"
         evals : Seq(Evaluator)]

ASSUME LayersAssumption ==
  /\ "default" \notin RuleId
  /\ DaemonFile \cup RepoFile \cup LayerFile \subseteq Seq(Gate)
  /\ EditGate \subseteq Gate
  /\ FileMode \subseteq {"monitor", "enforce"}
  /\ Layers \in Nat /\ MaxGates \in Nat

VARIABLES
  mode,      \* mode: of the live daemon policy
  daemon,    \* its gates
  repo,      \* gates of the .agentlock.yaml above the call's cwd, <<>> if none
  layers,    \* the group and user gate lists, in evaluation order
  daemonMode \* the effective daemon mode; firewall unless set otherwise
vars == <<mode, daemon, repo, layers, daemonMode>>

SeqValues(s) == {s[i] : i \in DOMAIN s}

-----------------------------------------------------------------------------
(* One policy. *)

Says(e) == CASE e = "always deny" -> "deny"
             [] e = "always allow" -> "allow"
             [] OTHER -> e

\* The first evaluator that does not skip decides for the gate.
Reaction(g) ==
  LET i == SelectInSeq(g.evals, LAMBDA e : Says(e) # "skip")
  IN  IF i = 0 THEN "skip" ELSE Says(g.evals[i])

NoRule == [verdict |-> "allow", rule |-> "default", original |-> "allow",
           monitored |-> FALSE, priority |-> 0]

Fires(g) == ~g.disabled /\ Reaction(g) # "skip"

\* The first gate that fires decides; in monitor mode its verdict is allow.
Evaluate(m, gates) ==
  LET i == SelectInSeq(gates, Fires) IN
  IF i = 0 THEN NoRule
  ELSE LET g == gates[i]
           effective == IF g.mode = Unset THEN m ELSE g.mode
       IN  [verdict   |-> IF effective = "monitor" THEN "allow" ELSE Reaction(g),
            rule      |-> g.id,
            original  |-> Reaction(g),
            monitored |-> effective = "monitor",
            priority  |-> g.priority]

-----------------------------------------------------------------------------
(* The repo overlay. *)

\* gateIsRestrictive: the probe has no input, so only "always" evaluators
\* answer it; any other evaluator makes the gate one that may deny.
Restrictive(g) == ~g.disabled /\ \E i \in DOMAIN g.evals : g.evals[i] # "always allow"

\* Those repo gates that may deny and do not reuse a daemon gate's id.
Accepted(gates, extension) ==
  {g \in SeqValues(extension) : Restrictive(g) /\ \A i \in DOMAIN gates : gates[i].id # g.id}

Overlay_First(gates, extension) == Among(extension, Accepted(gates, extension)) \o gates

\* MergeRestrictiveExtension appends them after the daemon's gates.
Overlay(gates, extension) == gates \o Among(extension, Accepted(gates, extension))

-----------------------------------------------------------------------------
(* Layers. *)

\* What the layers say, the daemon's (with the repo's gates) first.  A group
\* layer is compiled with mode: enforce.  Those without a rule for the call do
\* not contribute.
Results(m, base, ls) ==
  <<Evaluate(m, base)>> \o [i \in DOMAIN ls |-> Evaluate("enforce", ls[i])]
Contributing(rs) == {i \in DOMAIN rs : rs[i].rule # "default"}

\* One turn of collapsePriorityConflicts: the best result so far of each rule
\* that opted into priority, and the results dropped.
Contend(acc, i, rs) ==
  LET r == rs[i]
      prior == acc.best[r.rule]
  IN  IF r.priority = 0 THEN acc
      ELSE IF prior = 0 THEN [acc EXCEPT !.best[r.rule] = i]
      ELSE IF r.priority >= rs[prior].priority
        THEN [best |-> [acc.best EXCEPT ![r.rule] = i], drop |-> acc.drop \cup {prior}]
        ELSE [best |-> acc.best, drop |-> acc.drop \cup {i}]

Dropped(rs) ==
  LET contest[n \in 0 .. Len(rs)] ==
        IF n = 0 THEN [best |-> [r \in RuleId |-> 0], drop |-> {}] ELSE Contend(contest[n - 1], n, rs)
  IN  contest[Len(rs)].drop

EvaluateLayered_NearestLayer(m, base, ls) ==
  LET rs == Results(m, base, ls)
  IN  IF Contributing(rs) = {} THEN NoRule ELSE rs[Max(Contributing(rs) \ Dropped(rs))]

\* The first result that wanted to deny, monitored or not, else the first.
EvaluateLayered(m, base, ls) ==
  LET rs == Results(m, base, ls)
      kept == Contributing(rs) \ Dropped(rs)
      denies == {i \in kept : rs[i].original = "deny"}
  IN  IF Contributing(rs) = {} THEN NoRule
      ELSE rs[Min(IF denies = {} THEN kept ELSE denies)]

\* applyDaemonModeOverride
UnderMode(r, o) ==
  CASE o = "monitor" /\ r.verdict = "deny" ->
         [r EXCEPT !.verdict = "allow", !.monitored = TRUE]
    [] o = "firewall" /\ r.monitored /\ r.original = "deny" ->
         [r EXCEPT !.verdict = "deny", !.monitored = FALSE]
    [] OTHER -> r

\* evaluatePolicyForSession, then the daemon mode
Decision(extension) ==
  UnderMode(EvaluateLayered(mode, Overlay(daemon, extension), layers), daemonMode)

-----------------------------------------------------------------------------
(* Edits.  Every mutation of the daemon policy decodes all of its gates    *)
(* into yamlRawGate, which has no precedence, priority or source field,    *)
(* and writes them back.                                                   *)

Rewritten(gates) == [i \in DOMAIN gates |-> [gates[i] EXCEPT !.priority = 0]]

Mutate(gates) ==
  /\ daemon' = Rewritten(gates)
  /\ UNCHANGED <<mode, repo, layers, daemonMode>>

Position(id) == SelectInSeq(daemon, LAMBDA g : g.id = id)

AddGate(g) ==
  /\ Position(g.id) = 0 /\ Len(daemon) < MaxGates
  /\ Mutate(Append(daemon, g))

ReplaceGate(g) ==
  /\ Position(g.id) # 0
  /\ Mutate([daemon EXCEPT ![Position(g.id)] = g])

PatchGate(id, off, m) ==
  /\ Position(id) # 0
  /\ Mutate([daemon EXCEPT ![Position(id)].disabled = off,
                           ![Position(id)].mode = IF m = Unset THEN @ ELSE m])

DeleteGate(id) ==
  /\ Position(id) # 0
  /\ Mutate(Among(daemon, {g \in SeqValues(daemon) : g.id # id}))

EditRepo(file) ==
  /\ repo' = file
  /\ UNCHANGED <<mode, daemon, layers, daemonMode>>

EditLayer(l, file) ==
  /\ layers' = [layers EXCEPT ![l] = file]
  /\ UNCHANGED <<mode, daemon, repo, daemonMode>>

SetMode(m) ==
  /\ daemonMode' = m
  /\ UNCHANGED <<mode, daemon, repo, layers>>

Init ==
  /\ mode \in FileMode /\ daemon \in DaemonFile
  /\ repo = <<>>
  /\ layers = [l \in 1 .. Layers |-> <<>>]
  /\ daemonMode \in {"firewall", "monitor"}   \* AGENTLOCK_MODE

EditPolicy ==
  \/ \E g \in EditGate : AddGate(g) \/ ReplaceGate(g)
  \/ \E id \in RuleId :
       DeleteGate(id) \/ \E off \in BOOLEAN, m \in GateMode : PatchGate(id, off, m)

Next ==
  \/ EditPolicy
  \/ \E f \in RepoFile : EditRepo(f)
  \/ \E l \in 1 .. Layers, f \in LayerFile : EditLayer(l, f)
  \/ \E m \in {"firewall", "monitor"} : SetMode(m)

Spec == Init /\ [][Next]_vars

-----------------------------------------------------------------------------
(* Properties *)

Answers == Results(mode, Overlay(daemon, repo), layers)

\* Someone opted into priority, in any file.
Priorities ==
  \/ \E i \in DOMAIN daemon : daemon[i].priority # 0
  \/ \E i \in DOMAIN repo : repo[i].priority # 0
  \/ \E l \in DOMAIN layers : \E i \in DOMAIN layers[l] : layers[l][i].priority # 0

\* A contributing deny is set aside only by a result of the same rule, with
\* both opted into priority and the other's at least as high: no allow-direction
\* exception by accident (collapsePriorityConflicts, EvaluateLayered).
ExceptionsAreExplicit ==
  \A r \in SeqValues(Answers) :
    r.original = "deny" /\ EvaluateLayered(mode, Overlay(daemon, repo), layers).original = "allow" =>
      \E s \in SeqValues(Answers) :
        /\ s # r /\ s.rule = r.rule /\ s.original = "allow"
        /\ r.priority # 0 /\ s.priority >= r.priority

\* Of the results of one rule that opted into priority exactly the last of
\* the highest ones is kept, whatever the order they came in.
HighestPriorityKept ==
  LET rs == Answers IN
  \A i \in DOMAIN rs :
    i \in Dropped(rs) <=>
      /\ rs[i].priority # 0
      /\ \E j \in DOMAIN rs :
           /\ rs[j].rule = rs[i].rule /\ j # i
           /\ IF j > i THEN rs[j].priority >= rs[i].priority
                       ELSE rs[j].priority > rs[i].priority

PrioritiesAreExplicit == ExceptionsAreExplicit /\ HighestPriorityKept

\* Unless it opts into priority, a repo file turns no verdict the evaluators
\* wanted to be a deny into an allow: not with an allow gate, not by reusing a
\* daemon gate's id (MergeRestrictiveExtension, EvaluateLayered).
RepoKeepsDenies ==
  (\A i \in DOMAIN repo : repo[i].priority = 0) =>
    (EvaluateLayered(mode, daemon, layers).original = "deny" =>
       EvaluateLayered(mode, Overlay(daemon, repo), layers).original = "deny")

\* Under firewall mode a deny of any contributing layer, monitored or not, is
\* what the caller gets, when nobody opted into priority.
FirewallHoldsDenies ==
  ~Priorities /\ daemonMode = "firewall" =>
    (Decision(repo).verdict = "deny" <=>
       \E r \in SeqValues(Answers) : r.original = "deny")

DeniesAreHeld == RepoKeepsDenies /\ FirewallHoldsDenies

-----------------------------------------------------------------------------
(* What the documentation says and the code does not do. *)

\* "A new deny-producing gate can only block more actions": what is denied
\* without the repo file is denied with it.
RepoOnlyBlocksMore ==
  Decision(<<>>).verdict = "deny" => Decision(repo).verdict = "deny"

\* "a deny from any layer blocks the call", the repo file being the last layer:
\* a deny of the repo gates that were accepted reaches the caller.
RepoDenyBlocks ==
  LET accepted == SubSeq(Overlay(daemon, repo), Len(daemon) + 1, Len(Overlay(daemon, repo)))
  IN  ~Priorities /\ daemonMode = "firewall" /\ Evaluate(mode, accepted).verdict = "deny" =>
        Decision(repo).verdict = "deny"

\* Adding a gate leaves the gates there are as they were, their priority too.
AddKeepsGates ==
  [][\A g \in EditGate : AddGate(g) => \A i \in DOMAIN daemon : daemon'[i] = daemon[i]]_vars
=============================================================================
