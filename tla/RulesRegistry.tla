---------------------------- MODULE RulesRegistry ---------------------------
(* `agentlock rules` (cli/src/commands/rules.ts): a list of registries in one  *)
(* file, a clone of each in its directory, and the rules installed from them.  *)
(* A command reads the list, runs git, and writes the list that it read.       *)
EXTENDS Naturals, FiniteSets

CONSTANTS
  Caller,     \* processes
  Upstream,   \* the registry that registers itself
  Other       \* a registry that a user adds

VARIABLES
  rgList,    \* registries.json
  rgDirs,    \* what is below registries/: "none", "partial", "clone"
  rgRun,     \* the command of each process
  rgAdded,   \* registries reported as added and not removed since
  rgFailed,  \* the registry of the last command, if it was an add that failed
  rgGates,   \* gates of the daemon that rules were installed as
  rgRepo     \* .agentlock.yaml: its gates, and whether its other keys are there

rgVars == <<rgList, rgDirs, rgRun, rgAdded, rgFailed, rgGates, rgRepo>>

RegistryId == {Upstream, Other}
NoRegistry == [cmd |-> "idle"]
rgBusy(c) == rgRun[c].cmd # "idle"
Ends(c) == rgRun' = [rgRun EXCEPT ![c] = NoRegistry]
Then(c, r) == rgRun' = [rgRun EXCEPT ![c] = r]
\* The list is readable: JSON.parse throws in every command otherwise.
Readable == rgList.whole
writeRegistries(ids) == rgList' = [ids |-> ids, whole |-> TRUE]

\* A rule that both registries have, and one of the user's registry.
listRulesIn(r) ==
  IF rgDirs[r] # "clone" THEN {} ELSE IF r = Other THEN {"common", "own"} ELSE {"common"}

\* The registries that a rule may mean; any other number than one is an error.
resolveRule(rule, registry) ==
  {r \in rgList.ids : registry \in {r, "any"} /\ rule \in listRulesIn(r)}

-----------------------------------------------------------------------------
runRulesAdd(c) ==
  \/ /\ ~rgBusy(c) /\ Readable
     /\ \E r \in RegistryId \ rgList.ids :
          Then(c, [cmd |-> "add", id |-> r, pc |-> "clone", read |-> rgList.ids])
     /\ rgFailed' = {}
     /\ UNCHANGED <<rgList, rgDirs, rgAdded>>
  \/ LET r == rgRun[c] IN
     /\ r.cmd = "add" /\ r.pc = "clone"
     /\ \/ /\ rgDirs[r.id] = "none"
           /\ rgDirs' = [rgDirs EXCEPT ![r.id] = "clone"]
           /\ Then(c, [r EXCEPT !.pc = "write"])
        \/ rgDirs' = [rgDirs EXCEPT ![r.id] = "partial"] /\ Then(c, [r EXCEPT !.pc = "wipe"])
     /\ UNCHANGED <<rgList, rgAdded, rgFailed>>
  \/ LET r == rgRun[c] IN
     /\ r.cmd = "add" /\ r.pc = "wipe"
     /\ rgDirs' = [rgDirs EXCEPT ![r.id] = "none"]
     /\ rgFailed' = {r.id} /\ Ends(c)
     /\ UNCHANGED <<rgList, rgAdded>>
  \/ LET r == rgRun[c] IN
     /\ r.cmd = "add" /\ r.pc = "write"
     /\ writeRegistries(r.read \cup {r.id})
     /\ rgAdded' = rgAdded \cup {r.id} /\ Ends(c)
     /\ UNCHANGED <<rgDirs, rgFailed>>

\* Mutant: the list is begun anew when upstream is not in it.
ensureUpstreamRegistered_Alone(c) ==
  /\ ~rgBusy(c) /\ Readable
  /\ IF Upstream \in rgList.ids THEN UNCHANGED rgList ELSE writeRegistries({Upstream})
  /\ \/ Then(c, [cmd |-> "sync", todo |-> rgList.ids \cup {Upstream}])
     \/ UNCHANGED rgRun
  /\ rgFailed' = {}
  /\ UNCHANGED <<rgDirs, rgAdded>>

\* sources, search and sync begin with it; the first two do nothing else.
ensureUpstreamRegistered(c) ==
  /\ ~rgBusy(c) /\ Readable
  /\ IF Upstream \in rgList.ids THEN UNCHANGED rgList
                                ELSE writeRegistries(rgList.ids \cup {Upstream})
  /\ \/ Then(c, [cmd |-> "sync", todo |-> rgList.ids \cup {Upstream}])
     \/ UNCHANGED rgRun
  /\ rgFailed' = {}
  /\ UNCHANGED <<rgDirs, rgAdded>>

\* One registry of a sync: cloned if it has no directory (git removes what a
\* failing clone has written), else fetched and reset, which a partial clone
\* does not survive.
runRulesSync(c) ==
  LET r == rgRun[c] IN
  /\ r.cmd = "sync"
  /\ IF r.todo = {} THEN Ends(c) /\ UNCHANGED rgDirs
     ELSE \E id \in r.todo :
            /\ Then(c, [r EXCEPT !.todo = @ \ {id}])
            /\ IF rgDirs[id] = "none"
                 THEN rgDirs' \in {rgDirs, [rgDirs EXCEPT ![id] = "clone"]}
                 ELSE UNCHANGED rgDirs
  /\ UNCHANGED <<rgList, rgAdded, rgFailed>>

runRulesRemove(c) ==
  \/ /\ ~rgBusy(c) /\ Readable
     /\ \E r \in rgList.ids :
          /\ writeRegistries(rgList.ids \ {r})
          /\ Then(c, [cmd |-> "remove", id |-> r])
          /\ rgAdded' = rgAdded \ {r}
     /\ rgFailed' = {}
     /\ UNCHANGED rgDirs
  \/ /\ rgRun[c].cmd = "remove"
     /\ rgDirs' = [rgDirs EXCEPT ![rgRun[c].id] = "none"]
     /\ Ends(c)
     /\ UNCHANGED <<rgList, rgAdded, rgFailed>>

\* The gate has the id of its rule and names its registry, whatever the rule's
\* own gate block says. Without --replace a gate of that id is in the way.
runRulesInstall(c) ==
  /\ ~rgBusy(c) /\ Readable
  /\ \E rule \in {"common", "own"}, registry \in RegistryId \cup {"any"}, replace \in BOOLEAN :
     \E from \in resolveRule(rule, registry) :
       /\ resolveRule(rule, registry) = {from}
       /\ LET gate == [id |-> rule, source |-> from]
              After(gates) == {g \in gates : g.id # rule} \cup {gate}
              Free(gates) == replace \/ \A g \in gates : g.id # rule
          IN  \/ Free(rgGates) /\ rgGates' = After(rgGates) /\ UNCHANGED rgRepo
              \/ /\ Free(rgRepo.gates) /\ UNCHANGED rgGates
                 /\ rgRepo' = [gates |-> After(rgRepo.gates), rest |-> FALSE]
  /\ UNCHANGED <<rgList, rgDirs, rgRun, rgAdded, rgFailed>>

runRulesUninstall(c) ==
  /\ ~rgBusy(c)
  /\ \E g \in rgGates : rgGates' = rgGates \ {g}
  /\ UNCHANGED <<rgList, rgDirs, rgRun, rgAdded, rgFailed, rgRepo>>

\* A process dies in the middle of a clone, of a removal or of a write.
CallerDies(c) ==
  LET r == rgRun[c] IN
  /\ rgBusy(c) /\ Ends(c)
  /\ \/ UNCHANGED <<rgList, rgDirs>>
     \/ /\ r.cmd = "add" /\ r.pc = "clone" /\ rgDirs[r.id] = "none"
        /\ rgDirs' = [rgDirs EXCEPT ![r.id] = "partial"] /\ UNCHANGED rgList
     \/ /\ r.cmd = "sync"
        /\ \E id \in r.todo : rgDirs[id] = "none" /\ rgDirs' = [rgDirs EXCEPT ![id] = "partial"]
        /\ UNCHANGED rgList
     \/ /\ r.cmd = "add" /\ r.pc = "write"
        /\ rgList' = [ids |-> {}, whole |-> FALSE] /\ UNCHANGED rgDirs
  /\ UNCHANGED <<rgAdded, rgFailed>>

rgInit ==
  /\ rgList = [ids |-> {}, whole |-> TRUE] /\ rgDirs = [r \in RegistryId |-> "none"]
  /\ rgRun = [c \in Caller |-> NoRegistry] /\ rgAdded = {} /\ rgFailed = {}
  /\ rgGates = {} /\ rgRepo = [gates |-> {}, rest |-> TRUE]

rgNext ==
  \E c \in Caller :
    \/ /\ runRulesAdd(c) \/ ensureUpstreamRegistered(c) \/ runRulesSync(c)
          \/ runRulesRemove(c) \/ CallerDies(c)
       /\ UNCHANGED <<rgGates, rgRepo>>
    \/ runRulesInstall(c) \/ runRulesUninstall(c)

rgSpec == rgInit /\ [][rgNext]_rgVars

-----------------------------------------------------------------------------
\* One command at a time: a registry that was reported as added stays cloned, and
\* listed unless a writer died in the list, until it is removed, whichever commands
\* follow, fail or die; and an add that has failed leaves nothing in the way of the
\* next ("so the user can re-run `rules add` without manual cleanup").
AddedStays == (rgList.whole => rgAdded \subseteq rgList.ids) /\ \A r \in rgAdded : rgDirs[r] = "clone"
FailedAddLeavesNothing == \A r \in rgFailed : rgDirs[r] = "none"
RegistriesHold == AddedStays /\ FailedAddLeavesNothing

\* Not so: "clone or fast-forward each registered registry". A sync that dies in
\* a clone leaves a directory that no later sync repairs.
SyncCanRepair ==
  \A r \in rgList.ids : rgDirs[r] # "partial"

\* Not so for the user's file: its keys other than version, extends and gates are
\* gone after an install with --repo.
RepoFileKept == rgRepo.rest
=============================================================================
