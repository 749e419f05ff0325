---------------------------- MODULE GroupPolicy -----------------------------
(***************************************************************************)
(* How a session's call is decided when group-policy.yaml is there:        *)
(* evaluatePolicyForSession of control-plane/internal/api/group_policy.go  *)
(* walks the groups of the session (GroupOrder), compiles a layer for each *)
(* group in that order and one for the user, and evaluates them over the   *)
(* daemon policy and the repo file (PolicyLayers).                         *)
(*                                                                         *)
(* The bundle is read anew for every call; the model walks it once and     *)
(* then edits the gates of the groups.                                     *)
(***************************************************************************)
EXTENDS PolicyLayers

CONSTANTS
  Name, Group, MaxParents, MaxRoots,   \* of GroupOrder
  Broken                               \* groups with a gate that does not compile

ASSUME BundleAssumption ==
  Broken \subseteq Group /\ Group \subseteq Name /\ MaxParents \in Nat /\ MaxRoots \in Nat

VARIABLES
  inherits, session, roots, at, stack, visiting, visited, out,   \* of GroupOrder
  gates,     \* the bundle: group -> its gates
  personal,  \* the gates of the user, <<>> if the bundle does not name one
  decided    \* the layers are those of the session
Walk == INSTANCE GroupOrder

walkVars == <<inherits, session, roots, at, stack, visiting, visited, out>>
bundleVars == <<gates, personal>>
allVars == <<vars, walkVars, bundleVars, decided>>

-----------------------------------------------------------------------------

\* compileLayerPolicy: a group without gates, or with one that does not
\* compile, has no layer.  An empty layer decides nothing.
LayerOf(g) == IF g \in Broken THEN <<>> ELSE gates[g]

SessionLayers_Roots ==
  [i \in DOMAIN roots |-> IF roots[i] \in Group THEN LayerOf(roots[i]) ELSE <<>>] \o <<personal>>

\* groupPolicyLayers
SessionLayers == [i \in DOMAIN out |-> LayerOf(out[i])] \o <<personal>>

GroupInit ==
  /\ Init /\ Walk!Init
  /\ gates \in [Group -> LayerFile] /\ personal \in LayerFile
  /\ decided = FALSE

Walking(step) == step /\ UNCHANGED <<vars, bundleVars, decided>>

Compile ==
  /\ Walk!Done /\ ~decided
  /\ layers' = SessionLayers
  /\ decided' = TRUE
  /\ UNCHANGED <<mode, daemon, repo, daemonMode, walkVars, bundleVars>>

\* An edit of group-policy.yaml: the gates of a group, or those of the user.
EditGroup(i, file) ==
  /\ decided
  /\ EditLayer(i, IF out[i] \in Broken THEN <<>> ELSE file)
  /\ gates' = [gates EXCEPT ![out[i]] = file]
  /\ UNCHANGED <<walkVars, personal, decided>>

EditPersonal(file) ==
  /\ decided
  /\ EditLayer(Len(layers), file)
  /\ personal' = file
  /\ UNCHANGED <<walkVars, gates, decided>>

\* Edits of the policy file, the repo file and the mode.
Edit ==
  /\ decided
  /\ \/ EditPolicy
     \/ \E f \in RepoFile : EditRepo(f)
     \/ \E m \in {"firewall", "monitor"} : SetMode(m)
  /\ UNCHANGED <<walkVars, bundleVars, decided>>

GroupNext ==
  \/ Walking(Walk!VisitRoot)
  \/ Walking(Walk!VisitParent)
  \/ Walking(Walk!Leave)
  \/ Compile
  \/ \E i \in DOMAIN out, f \in LayerFile : EditGroup(i, f)
  \/ \E f \in LayerFile : EditPersonal(f)
  \/ Edit

GroupSpec == GroupInit /\ [][GroupNext]_allVars
\* The walk runs on one goroutine and nothing in it waits.
FairGroupSpec == GroupSpec /\ WF_allVars(Walking(Walk!Next))

-----------------------------------------------------------------------------
(* Properties *)

\* At the end the order holds the known groups of the session and all their
\* ancestors and nothing else, whatever cycles the bundle has.
Complete == Walk!Complete

\* Parents come before the child, except the one a cycle leads back to.
ParentsFirst == Walk!ParentsFirst

\* The walk ends on every bundle, cyclic ones included.
Terminates == <>Walk!Done

\* In firewall mode, and without priorities, what any group denies that the
\* session is in, however far up, is denied to the session, whatever the other
\* groups, the user, the daemon policy and the repo file say.
InheritedDenyBlocks ==
  \A g \in Walk!Values(session) \cap Group, h \in Group \ Broken :
    (/\ decided /\ ~Priorities /\ daemonMode = "firewall" /\ Walk!Inherits(g, h)
     /\ Evaluate("enforce", gates[h]).original = "deny") => Decision(repo).verdict = "deny"

\* The groups of a session, all of them and in order, hold what they deny.
LayersInherited == Complete /\ ParentsFirst /\ InheritedDenyBlocks
=============================================================================
