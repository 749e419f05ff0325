# OpenAgentLock: models, checks and proofs

OpenAgentLock puts a daemon (the *control plane*, Go) between AI coding harnesses
and the tools they call. A harness runs a hook before each tool call; the hook
asks the daemon, which evaluates a policy, appends the decision to a hash-chained
ledger and answers allow or deny. A CLI (TypeScript) installs the hooks and the
shims behind them, a dashboard (React) shows the ledger and edits the policy, and
a small Rust crate computes Merkle roots and inclusion proofs over the ledger.

This directory holds TLA+ modules for the parts of that system that are hard to
get right, TLC configurations that check them on small instances, and theorems
about them that TLAPS checks for every instance. `PROJECT.json` is the index:
components, runs, mutants, the source lines behind every definition, findings,
hazards and theorems.

    tlc -workers 2 -config LedgerCrash.cfg MCLedgerStore    # one run
    tlapm LedgerProofs.tla                                  # one proof module

Paths below are relative to `control-plane/internal/` unless they say otherwise.

## The system

| Component | State | Operations | Talks to |
|---|---|---|---|
| Ledger store (`storage/memory.go`) | `ledger.jsonl`, `nextSeq`, `lastLeaf` under `m.mu` | `AppendLedger`, `ListLedger`, resume at start | every handler; tail subscribers |
| Ledger tail (`api/ledger_tail.go`, `storage/memory.go`, dashboard `useSSE.ts`) | subscribers' channels under `subMu`, one goroutine per append | subscribe, replay, broadcast, cancel; reconnect in the browser | ledger store, dashboard |
| Ledger verification (`api/ledger.go`, crate `ledger/`) | none of its own | verify, root, inclusion proof, verification of a proof | ledger store |
| Policy registry and edits (`api/policy_registry.go`, `policy_crud.go`, `false_positive.go`) | live policy, pins by hash, eviction order; the policy file | load, add, replace, delete, toggle gates, apply a repair | sessions (a session names a policy by hash) |
| Policy evaluation (`policy/policy.go`, `api/repo_policy.go`, `group_policy.go`) | none, except the MCP pin store | first match, repo overlay, layers of groups and user, priorities | gate check and hooks |
| Sessions (`api/session*.go`, `storage/memory.go`) | sessions, ended set | create, start unattested, rotate, end, list | policy registry, ledger |
| Gate check and hooks (`api/gate.go`, `hooks_*.go`) | none of their own; Cursor's deduplication table | decide a call, record an outcome | all of the above, guardrails |
| Daemon mode (`api/mode.go`) | the override | set; escalate or suppress a verdict | gate check and hooks |
| MCP pins (`api/mcp.go`, `policy/policy.go`) | `pinned-mcp.json`, one mutex per evaluator | check, accept, refuse | policy evaluation |
| Guardrails (`guardrails/service.go`) | enabled entries, catalog cache, trace ring | evaluate a check stage by stage, record its trace, list catalogs, enable | gate check, providers |
| Daemon login (`auth/password.go`, `api/auth_http.go`, CLI `util/api.ts`) | password file, tokens; the client's token | bootstrap, login, logout, expiry | every `/v1` request |
| Install and uninstall (`api/install.go`, CLI `install-fs.ts`) | harness configuration files, backups, manifest | plan, apply, undo | file system |
| Hook shims (`cli/src/commands/hook-*.ts`) | one process per event | read, ask, exit | harness, daemon |
| MCP proxy and server (`cli/src/commands/mcp-*.ts`) | the chain of lines, pending calls, one child | forward, refuse, report | host, MCP server, daemon |
| Signers and sessions of the CLI (`cli/src/signer`, `session.ts`, `session-mint.ts`) | key, secret and passphrase files, keychain entry, session key | enroll, load, create, rotate | daemon |
| Detection and rules registries (`cli/src/detect`, `doctor.ts`, `rules.ts`) | registries.json, clones; nothing else | detect, check up, pick; add, sync, install | daemon, git, file system |
| False positive repair (`api/false_positive.go` and three clients) | a case on disk, on a page or in a terminal | load, edit, validate, apply | policy registry, ledger |
| Terminal dashboard (`cli/src/tui/dashboard.tsx`) | last answers, events, cursor, filters, modals | keys, polls, stream, edits | daemon, editor |
| Web dashboard (`control-plane/dashboard-ui/src`) | the same, per page | pages, drawer, form, switches, polls, stream | daemon |

### What is hard about it, and what makes it right

* **Ledger store.** An append is a write, a sync and a change of two fields, and
  the process or the machine may die, or the write or the sync fail, between any
  two of them. Right means: the chain in the file is whole, what was acknowledged
  survives and can be listed, and a damaged file is refused and not extended.
* **Ledger tail.** Broadcast goroutines are unordered, a subscriber may cancel
  while one is sending, entries land while the replay is being written, the
  channel may be full, the client reconnects. Right means: no panic, no silent
  gap other than the documented drop, no entry more than twice, and everything is
  shown in the end.
* **Verification and Merkle tree.** Odd layers, prefixes, indices out of range.
  Right means: a valid proof is accepted and nothing else is, and verify answers
  ok for exactly what was appended.
* **Policy registry.** Two edits, their file writes and swaps, restarts and the
  eviction of pins. Right means: edits behave as if serial, the registry is never
  ahead of the file, and a policy a session is bound to stays available.
* **Evaluation.** Repo, group and user layers, first match in one and priority
  across them. Right means: a denial disappears only for a stated reason.
* **Sessions, gate check, hooks, mode.** The store locks one call at a time, so a
  handler's later steps act on what its earlier ones read; edits, ends, expiry,
  mode flips, failing appends and restarts come in between. Right means: an
  answered verdict has its own truthful ledger entry, an ended session stays
  ended, an attested one keeps its policy, an unattested one follows the live one.
* **Install and uninstall.** Several files of several harnesses, which their
  owners go on editing; any write may fail, and the CLI or the daemon may die.
  Right means: nothing of the user's is lost, a failed install is undone, and
  what is reported as wired or unwired is.
* **MCP pins.** Evaluators and endpoints read one pin file under different mutexes
  and write back what they read. Right means: a lost update never makes a pin that
  nobody was told of, and no open question is lost.
* **Guardrails.** A check asks one classifier after another while catalogs expire, an
  older listing overwrites a newer one, providers fail and users enable others; traces
  are recorded in another order than entries are appended. Right means: neither an
  implicit allow nor an implicit denial, and an entry is shown with its own trace.
* **Login.** Bootstraps race, the file may not be written, tokens expire, the daemon
  restarts, and some forty client functions each decide what counts as success.
  Right means: one first user, and a call reports what happened.
* **Shims, proxy, server.** The daemon stops at any moment; lines wait for it in
  turn while both ends go on. Right means: a call is blocked exactly by a recorded
  denial that arrived, order and answers are kept, and the chain never stops.
* **Signers.** One enrolment is several files; processes overlap and die between
  them. Right means: parts of two enrolments never make a signer, and a refused
  rotation leaves the working key alone.
* **Repair, registries, checkups.** Each is a read, some waiting and a write or a
  verdict. Right means: no event is left without rule and replacement, a failed
  command leaves nothing in the way of the next, exit code 0 stands for everything
  that was asked.
* **Dashboards.** Polls, stream, optimistic edits and their rollbacks are answered
  in any order while lists shrink under the cursor. Right means: what a key acts on
  is on the screen, what is saved is what was shown or typed, and the display
  catches up in the end.

## The modules

| Module | Models | Checked by | Proved in |
|---|---|---|---|
| `DurableLog` | abstract: a log whose acknowledged entries stay | (abstract) | |
| `LedgerStore` | append, crash, resume | `LedgerCrash`, `LedgerFaults`, `LedgerSyncFails` | `LedgerProofs` |
| `LedgerTail` | subscription, replay, broadcast, reconnect | `TailLive` | `LedgerProofs` |
| `MerkleTree` | root, inclusion proof, its verification | `LedgerAudits` | `LedgerAuditProofs` |
| `LedgerAudit` | the verify endpoint over a changed file, and the tree over the same file | `LedgerAudits` | `LedgerAuditProofs` |
| `PolicyEdits` | the edits, as functions of a policy | (used below) | |
| `EditedPolicy` | abstract: one policy, edited serially | (abstract) | |
| `PolicyRegistry` | the edit handlers, the registry, the file, pins | `PolicyEdited` | `PolicyRegistryProofs` |
| `GroupOrder` | the walk that orders a session's group layers | `GroupDecides` | `GroupPolicyProofs` |
| `PolicyLayers` | one call's decision, and edits between calls | `GroupDecides`, `LayersEdit` | `GroupPolicyProofs` |
| `GroupPolicy` | the two together: a session's groups to a decision | `GroupDecides` | `GroupPolicyProofs` |
| `GateFlow` | sessions, gate check, hooks, mode | `Gate` | `GateFlowProofs` |
| `CursorHooks` | Cursor's hook endpoint and its table of answers | `CursorPairs` | `CursorHooksProofs` |
| `HarnessConfig` | what merging and stripping make of a configuration file | (used below) | |
| `HarnessInstall` | the install command and the install endpoints | `HarnessInstalls` | `ClientsProofs` |
| `McpPins` | pin file, open questions, evaluators, endpoints, page | `Clients` | `ClientsProofs` |
| `RepairClients` | the three clients of a repair and its endpoints | `Clients` | `ClientsProofs` |
| `DaemonLogin` | password mode, middleware, the CLI's client | `Clients` | `ClientsProofs` |
| `HookShim` | the shims of four harnesses | `Clients` | `ClientsProofs` |
| `McpProxy`, `McpServer` | `agentlock mcp-proxy` and `mcp-server` | `Clients` | `ClientsProofs` |
| `SessionKeys` | enrolment and loading of signers, session commands | `Clients` | `ClientsProofs` |
| `RulesRegistry` | `agentlock rules` | `Clients` | `ClientsProofs` |
| `Checkup` | detectors, doctor, status, verify, fake-hook, picker | `Clients` | `ClientsProofs` |
| `TuiDashboard`, `WebDashboard` | the two dashboards | `Clients` | `ClientsProofs` |
| `Guardrails` | evaluation of the classifiers, catalog cache, trace ring | `Clients` | `ClientsProofs` |
| `Selection` | the elements of a sequence that are in a set, in order | (used by the policies, the install command, the MCP processes and the dashboards) | `SelectionProofs` |
| `Clients` | the twelve above, side by side | `Clients` | `ClientsProofs` |

`MCx` instantiates module `x` for TLC; `LedgerTail` needs no such module, its
configuration gives numbers only. The modules meet where the code's
components do: `LedgerStore` implements `DurableLog`, which is the ledger that
`GateFlow` and `CursorHooks` append to as one step (the store's mutex makes it
one) and that `LedgerTail` and `LedgerAudit` read; `LedgerAudit` extends
`MerkleTree` and hands it the leaves of the file it walks; `PolicyRegistry`
implements `EditedPolicy`, and keeps available the pinned policies that
`GateFlow` refers to by number; `GroupPolicy` composes `GroupOrder`, whose order
yields the layers, with `PolicyLayers`, which evaluates them and whose four kinds
of result are `Outcome` in `GateFlow`. `HarnessInstall` uses `HarnessConfig` and
appends to the same ledger. The programs around the daemon are modelled against
what the daemon may answer: each takes the answers that the daemon's modules can
produce, and its failures, from a set.

### LedgerStore

`file`, `tail` and `synced` are the bytes of `ledger.jsonl`: the entries on its
readable lines, how its last line ends (whole, without its newline, partial, or
glued to damage) and how many entries are on stable storage. `nextSeq` and
`lastLeaf` are the fields of `Memory`; `inFlight` is the program counter of
`AppendLedger` between `Write` and the update of those two. `Append` is the whole
locked section split where a failure can strike: write, sync, update. `Start` is
`NewMemory` and `resumeFromFile`. `Fault` names the failures that a run injects;
a power loss may take any unsynced suffix with it, and with `newline_loss` just
the last newline.

* `LedgerCrash`: with crashes of the process and of the machine at any step, the
  chain is intact (`ChainIntact`), acknowledged entries are in every listing
  (`AckedListed`), and the ledger implements `DurableLog`.
* `LedgerFaults`: with every fault together and oversized lines, entries known to
  be on disk are never rewritten (`SyncedNeverRewritten`) and no daemon appends
  to a file that it cannot read to the end (`RestartRefusesDamage`).
* `LedgerSyncFails`: one failing `Sync` breaks the chain (see Findings). It is
  why `LedgerCrash` restricts `Fault`.

Bounds: two payloads, so that entries are told apart, and four or five entries,
enough for two crashes with appends before, between and after.

### LedgerTail

One action per step of `ledgerTailHandler` (subscribe, list, write a replayed
line, finish, forward from the channel, notice a closed client), of `broadcast`
(take the mutex, offer to one subscriber, release it) and of `useSSELedger`
(receive, fail, reconnect). Entries are their sequence numbers. `TailLive`: two
connections of a client, two appends, a channel of one slot and a wire of one
event, so that both fill up. `EntriesArriveOnce` says that an entry a connected
client missed was refused by its full channel (`NoGap`) and that the overlap of
replay and stream duplicates an entry at most once per connection (`AtMostTwice`);
`NoSendOnClosed` that no broadcast sends on a channel its subscriber has closed,
which would panic.

`EventuallyShown` holds under `FairSpec`: weak fairness for the goroutines (the Go
scheduler runs what is runnable), for the network and for the client's events and
its timer (a browser's event loop). Appends, disconnects and failures are not
fair: nothing makes them happen. It needs the dashboard's list to be longer than
what one replay sends twice: the list keeps the last `Cap` events, duplicates
count, and with three entries and `Cap = 3` a duplicate evicts an entry.

### PolicyRegistry

`live`, `pins`, `pinOrder` are the registry, `disk` the policy file, `holder` the
mutex `policyMu`, `pc`, `request`, `next` the progress of each edit through
`mutatePolicy`: take the mutex and read the live policy, compute and compile,
persist, swap. A policy is a function from gates to "on", "off" or "absent";
`PolicyEdits` is the effect of each endpoint on it. `Restart` loads the file
again. `LiveNeverAhead`: the registry holds nothing that the file did not hold
first. `RegistryOK`, map and order agree, the live policy is found and the cap
holds, is proved and no run lists it.
`PinSurvivesOneEdit`: a session that has attested a moment ago survives the next
edit. `PolicyEdited`: two concurrent requests of all six kinds, three swaps and a
cap of two, the smallest cap that keeps a pin besides the live policy, so that
eviction happens at every swap. One of the two gates does not compile.

### GroupPolicy, GroupOrder and PolicyLayers

`PolicyLayers` fixes a call and enumerates what each file may contain: the daemon
policy, `.agentlock.yaml`, group and user layers, with modes, priorities and
shared rule ids. `EvalPolicy` is `Policy.Evaluate`, `MergeRestrictive` the repo
overlay, `Decide` is `EvaluateLayered` with its priority rule, followed by the
daemon mode. The actions are the edits between two calls. `GroupOrder` is
`expandGroupOrder` with an explicit stack. `GroupPolicy` is
`evaluatePolicyForSession`: it walks the groups of the session, compiles a layer
for each group of that order (none for a group with a gate that does not compile)
and one for the user, evaluates them, and then lets every file be edited.

`GroupDecides` starts from two kinds of state. In `EveryBundle` the bundle is any of
three groups with up to two parents each (cycles, unknown names and a broken group
included) and the files are fixed. `LayersInherited`: every ancestor is in the order
(`Complete`), before its children unless a cycle forbids it (`ParentsFirst`), what
any group denies that the session is in, however far up, is denied to the session
(`InheritedDenyBlocks`), and the walk ends (`Terminates`, under weak fairness of its
own step: it is sequential code). In `OneBundle` the session has one group and a
user, and the files go through all their contents. The properties compare the
decision with the decisions of the layers on their own. `PrioritiesAreExplicit`: a
wanted denial gives way only to a gate of the same id with a higher priority
(`ExceptionsAreExplicit`), of the contenders of an id the highest priority stays and
a tie stays with the denial (`HighestPriorityKept`). `DeniesAreHeld`: a repo file
without priorities never turns a denial into an allow (`RepoKeepsDenies`), and in
firewall mode no monitor setting weakens a denial (`FirewallHoldsDenies`). Order and
evaluation meet only in the list of layers, which is why the product of both kinds
is not needed.

### MerkleTree and LedgerAudit

`MerkleTree` climbs through the layers of a tree the way `merkle_root` and
`inclusion_proof` do, then checks the proof for a claimed leaf and index as
`verify_proof` does. `ProofVerifies`: the proof of a leaf is accepted.
`ProofsSound`: for an index of the tree only the leaf that stands there is. Five
leaves give every shape of odd tail up to three levels. `LedgerAudit` changes one
entry of a chain, removes one, repeats one or exchanges two, walks the file as the
verify handler does and builds the tree over the leaves of that file. Ok is answered
for a prefix of what was appended and for nothing else that the hash covers, and
`first_bad_at` is the first entry that differs (`VerdictIsRight`); a file that
verifies and has the root of the ledger it came from is that ledger
(`RootAndChainPinTheLedger`); `AuditIsRight` is both. The root alone does not say
so, because the last leaf of an odd layer is paired with itself, nor does the chain
alone, because a prefix verifies. Hashes are injective.

### GateFlow

A request is a record of what its client sends; `pc` is the step a handler is at,
one step per access to the store, the registry, the mode or the ledger. Kinds:
`check` (gate.check), `claude`, `desktop`, `codex` (pre-tool-use; Gemini's handler
is Codex's with other names), `observe` (post-tool-use and session-start), `stop`,
`create`, `unattested`, `rotate`, `end`. `sess` and `result` are what the handler
has read and computed, possibly stale by now. Policy edits, mode changes, expiry
and restarts happen between any two steps; `MayFail` lets appends fail, `MayDeny`
lets a guardrail deny. After a restart the store is empty and the ledger is kept.

The run `Gate` checks two scenarios; `scene` is that of the behaviour.

* *Sessions*: two requests of every kind but the desktop and Codex hooks on one
  session, one edit, one restart. `SessionsHold` is `RefusedAfterEnd` (a gate check
  that arrives after the end gets no verdict), `OneAutoCreate` (racing first hooks
  create one session) and `SessionsRecorded` (a session has its entry, or the append
  failed); `AttestedPinned`, `ClaudeFollowsLive`, `EndedIsFinal`.
* *Verdicts*: two deciding requests under all four kinds of policy result, mode
  flips, failing appends, guardrails. `VerdictsAudited` is `AnswerRecorded` (an
  answered verdict has an entry of its own that agrees with it) and
  `DenialsAudited` (what the policy denies is recorded as denied in every mode).

Two requests are enough for every property: each speaks of one handler's reads
and one interfering step, and all of them are proved for any number. `MaxEntries` bounds when a request may start, not what a started one
may append.

### CursorHooks

Cursor fires a general and a specific event for one tool call. The daemon keeps the
answer of the first for five minutes in a table under a key built from the
conversation, the generation and the call, and gives it to the second without a new
entry. Steps: look up, evaluate, append, store, answer, with the mutex of the table
held only for the look-up and the store. `PairIsOneCall`: a call of one window has
one entry (`OneEntryPerCall`), and both events get one verdict although policy and
mode change in between (`PairAgrees`); `AnswersAudited`: an answer that denies has
an entry that says so, also when it came from the table. `Overlap` says whether the
second event may arrive before the first is answered. Cursor is not part of the
repository; `CursorPairs` takes it to wait, and the departures below say what
happens if it does not.

### HarnessConfig and HarnessInstall

`HarnessConfig` says what the daemon makes of a file it is sent: `Merged` and
`Stripped` are the merge and strip functions of the five kinds of file, `Planned`,
`BacksUp` and `Strips` the conditions under which an operation is planned, names a
backup or changes anything, `Detected` what the picker calls wired. A content keeps
the user's entry, whether it runs behind the proxy, agentlock's own entries and the
status line. `HarnessInstall` is one run after another of `agentlock install`:
detection and picker, strips of what was deselected, the plan, per operation a
backup and a rename, the rollback, the manifest, the ledger entry; and the session
uninstall endpoint. The user edits files at any step; writes, strips, steps of the
rollback, the manifest and the entries may fail; the CLI or the daemon may die.
`hiSeen` is each file when the CLI last looked at it, `edited` what has changed since.
The files are listed in the order of the picker's harnesses (`Files`). What the user's
files hold at first is assumed to be what such a file can hold (`Fits`): a status line
of agentlock's comes and goes with its hooks.

`HarnessInstalls` (Claude Code, Claude Desktop, Codex and Codex Desktop, which share
their files; two runs, one edit): what the CLI has seen of the user's is in the file
or in a backup (`UserDataKept`), after a failed install every file is as the CLI
last saw it (`FailedInstallUndone`), a run reported as done has wired, listed and
recorded everything (`DoneMeansWired`), and what is reported unwired holds nothing
of agentlock's (`UnwiredIsClean`); `ReportsHold` is these two. Two runs are needed
to wire and unwire; the selections are limited to three of the sixteen, which
between them wire each kind of file, drop it and share the Codex files. Cursor's and
Gemini's files are of kind "hooks". An edit that falls between the CLI's last look
and its write is lost, and a strip makes no backup: that is why the properties speak
of what was seen.

### The programs around the daemon: Clients

`Clients` puts twelve modules side by side. They meet only in the daemon, so a
behaviour is about one of them (`part`), the others stay in their initial states,
and the state space is the sum of the twelve (about 780 000 states), not their
product. The prefix of a module's names is given in brackets.

**McpPins** (`mc`). `mcPins` and `mcRows` are the pin file and the open questions.
An evaluator reads the file (`Evaluate`) and later writes the copy it has read plus
one pin (`writePinStore`); `mcpPinAccept` and `mcpPinAccepted` do the same under the
other mutex, so each write may overwrite another's. The page refreshes, opens a
question, accepts and refuses while requests are on their way. `PinsHold`: whatever
is overwritten, a pin in the file was taken by a gate for a server without one, or
that fingerprint was shown to a user who accepted it (`PinsAreTold`); a question
stays until it is answered (`QuestionsStay`). Two servers, fingerprints and
evaluators, two calls: one call for the copy that is stale, one for the write it
overwrites.

**Guardrails** (`gd`). Per gate check that the policy allows: the entries that were
enabled when it came (`asked`), what each has said so far (`stages`), the listing it
holds and the number of its entry. `NextStage` looks into the catalog cache,
`CatalogListed` and `CatalogCached` are the two halves of a miss, `RunRuntime` asks
the classifier, `AppendTrace` and `RecordTrace` end the handler of `gate.check`. The
catalog page fills the same cache (`ListCatalogStatus`), catalogs expire, providers
withdraw entries, users enable others, the daemon restarts and keeps its ledger only.
`GuardrailsHold`: a check is denied exactly if a classifier enabled for it said so of
it, and allowed by the guardrails only if all of them did (`VerdictsAreAnswers`); the
trace of an entry is the one the entry was made of, and map and order of the ring
agree (`TracesAreTheirs`). Two checks, one change, an entry of a provider that runs,
of one that only lists and of one that is unknown, and a ring of one trace, which the
second check evicts. `GateFlow` takes a guardrail's denial as a choice at the step
where it takes effect.

**RepairClients** (`rp`). Per repairer: its case (the hash of the policy it was made
from), the replacement as it reads now, as it was sent, and whether it was found
valid. The endpoints compare the hash first (`checkRepair`) and edit later
(`ApplyRepair`), with `OtherEdit` in between. `RepairHolds`: the rule is off exactly
when a replacement is there (`NoRuleWithoutReplacement`), no replacement denies the
event again (`OnlyWorkingReplacements`), the CLI and the terminal apply what was
validated and nobody applies a case twice (`AppliedWasValidated`). The run has the
terminal and the web page, whose flows differ most; the theorem has all three.

**DaemonLogin** (`lg`). Users in memory and in the file, tokens, and per client its
token and the step of its command. `apiClient` is the table of the client's
functions: how the token travels, which statuses count as success, which the
handler answers when it has done what was asked. `LoginHolds`: at most one first
user, whom no restart forgets once reported (`OneFirstUser`); a function returns
exactly when the daemon has done what was asked, and nothing is done without a
known token but on public paths (`ReportsAreTrue`). Two clients race to bootstrap.

**HookShim** (`hk`). The processes of one tool call, up to two of them where a
harness fires a pair of hooks: read the event, post, be handled, receive, exit. The
daemon may stop at each step. `ShimFollowsDaemon`: a call is blocked exactly by a
denial the daemon has recorded and whose answer arrived whole, whichever failure
strikes the others, and standard output agrees with the exit code.

**McpProxy** (`px`) and **McpServer** (`sv`). Lines are numbered; `pxAt` is where the
chain of lines has come to. `ProxyHolds`: the child sees the host's lines in order
without the refused calls, a refused call has one answer and no request two, and the
calls reported as completed are those the child answered. `AnswersInOrder`: the
server answers each request it has passed once, in order. Three lines: one that
waits, one behind it, one that ends. `ProxiesHold` is both.

**SessionKeys** (`ky`). The files of a TOTP enrolment, the keychain entry, the
software key, the passphrase and the session key, each missing, torn or holding the
material of one enrolment; commands of two processes write them one at a time and
may die in between. `SignersHold`: what signs is one enrolment's key, unlocked by
its passphrase and current code (`LoadedIsEnrolled`); a session key gets to disk by
a create or after the daemon accepted it (`RefusedRotateKeepsKey`). Two enrolments
and processes are enough to mix the parts of two.

**RulesRegistry** (`rg`). The list, the clones and the running command. `rules add`
clones and then writes the list it read; a clone may fail or die half-way.
`RegistriesHold`: a registry reported as added stays cloned, and listed unless a
writer died in the list (`AddedStays`), and a failed add leaves nothing behind
(`FailedAddLeavesNothing`). One caller: see the departures for two.

**Checkup** (`ck`). What is on disk per harness, what the detectors make of it, the
questions of doctor, status, verify and fake-hook one by one, and the picker of
install. `CheckupHolds`: exit code 0 stands for every answer the command depends on
(`ZeroMeansSound`), a report without a warning means wired here (`CleanMeansWired`),
a row the user left alone is left alone (`LeftAloneStays`). Four harnesses: one per
kind of file, one of them not selectable.

**TuiDashboard**. `seen` is what the polls and the stream brought, `ui` cursor,
scroll, filters and modals, `flight` requests and answers in no order, `flows` the
editor and repair flows. `focus` is the tab whose data change in a behaviour; all
keys work in all of them. `CursorOnScreen`: the row that a key acts on is drawn and
marked, however the lists shrank. Two rows of screen and three of data scroll.

**WebDashboard** (`wb`). Per page: the event list with its filter and its pages, the
rules with the edit drawer and the form for new ones, the guardrail switches, the
mode. `WebHolds`: a page shows events while there are any (`PageShowsEvents`), the
drawer saves what was typed or is shown (`SaveSendsWhatIsShown`), a pattern typed
for another type of rule is not added (`AddSendsWhatIsShown`), and the switches end
up as the daemon has them after at most one failure of a save
(`SwitchesSettle`). Four events on pages of one or two, two requests on their way.

**Liveness** (`ClientsSettle`). When edits, failures and reconnections are over, both
dashboards come to show what the daemon has and stay so, and the proxy deals with
every line and passes on the end of its input. Fair are the answers of the network,
the poll timers, the reconnecting and reading of the stream, and the proxy's own
steps, the daemon's answer to it included; these are the event loop of a browser or
of Node, and a local server that answers or fails. Not fair are users, editors,
lines of the host, other clients and failures, which the `MaxChanges` bounds end.

## What is proved

TLAPS checks these for every value of the constants that the named assumptions
allow, without a limit on entries, swaps, workers, gates, leaves, connections,
clients, tokens or calls.

* **LedgerProofs**, the store. `LedgerTypeCorrect`; with every fault,
  `SyncedHistoryStable` and `NeverResumesOverDamage`; with `Fault` within crashes
  and power losses and no oversized payload, `ChainNeverBroken`,
  `AckedEntriesDurable`, `AckedEntriesListed`, and `LedgerImplementsDurableLog`.
  Neither `ChainIntact` nor `AckedListed` is inductive: a restart rebuilds
  `nextSeq` and `lastLeaf` from the file, so the invariant must say how file,
  tail and sync point relate at each step of an append. `SyncedInv` says what
  stays true under every fault (the synced prefix is within the file, a running
  daemon's state is consistent with the tail it knows of), `HonestInv` adds what
  only crashes and power losses leave intact: the chain of the file, the daemon's
  two fields as functions of the file and of the entry in flight, and that every
  acknowledged entry lies in the synced prefix.
* **PolicyRegistryProofs.** `RegistryTypeCorrect`, `RegistryAlwaysOK`,
  `LiveIsNeverAhead`, `FreshPinsSurvive`, `RegistryImplementsEditedPolicy`. `IInv`
  adds to `RegistryOK` who holds the mutex (`LockInv`: at most one edit is past
  its read, and the live policy is the base it read), what the holder has computed
  (`WorkInv`: `next` compiles and is its edit applied to that base; persisted means
  it is the file) and where a fresh session's policy stands in the eviction order
  (`PinInv`).
* **LedgerAuditProofs**, the tree. `MerkleTypeCorrect`, `ProofAlwaysVerifies` and
  `AcceptedAreSound`: for every number of leaves, over every set of leaf hashes, the
  proof of each leaf is accepted, and at an index of the tree no other leaf is. `IInv`
  says that each layer of the path is the next of the one below (`Shape`), that `proof`
  holds the sibling at each level (`PathOK`), that the verifier's hash at each turn is
  the node of the path (`OnPath`), and that the hash of another leaf differs from the node
  above the index it claims (`OffPath`).
* **LedgerAuditProofs**, the audit. `AuditAlwaysRight` and `AuditedProofsHold`, for chains of
  any length. The links of a chain differ (`LinksDiffer`: equal ones go back to the genesis
  hash), and one change leaves each entry with the leaf of a written entry or with all
  that this leaf is made of (`ChangesAreNear`), so what links and hashes right is the entry
  written next (`PassedIsSame`). For the root: the first component of a layer's first node
  is the first node below, the second of its last node the last one below (`EndsOfNext`),
  hence two trees with one root have the same last leaf once they are of one height, and of
  one height they are because a leaf is not a pair (`LastLeavesAgree`).
* **GateFlowProofs.** For every scenario with any outcomes, kinds and number of
  sessions, workers and signers (`FlowAssumption` says that `None` is none of them):
  `EndedAlwaysRefused`, `AttestedAlwaysPinned`, `ClaudeAlwaysFollows`,
  `VerdictsAlwaysAudited`, `EndedStaysEnded`. A handler decides on copies, so the
  invariant says for each step what a copy is still good for: `Pinned` that an
  attested session in hand is one this signer attested, `Follows` that an unattested
  one has a policy live since the request arrived, `Judged` that verdict, recorded
  verdict and mark belong to the policy in hand, `Filed` that an answer has its
  entry, `Refused` how far a request to an ended session may get. `Grow` lists what
  no step but a restart takes back; from it a worker that does nothing keeps what it
  has (`OthersKeep`), and each action is then proved for the
  worker that acts.
* **LedgerProofs**, the tail. `NeverSendsOnClosed` and `EntriesAlwaysArrive`, for any
  capacities of channel and wire. `LockInv`: whom the broadcast under the mutex has
  yet to reach is registered. `CopiesInv`: a connection has written entries 1 to n of
  its replay and then live ones, all different, in its channel different ones again,
  and none of them is still owed to it, hence at most two of each. `GapInv`: once it
  serves, each entry is written, to be written, in the channel, owed or refused.
* **GroupPolicyProofs.** For any files, inheritance graph, cycles and missing parents
  included, and number of layers (`LayersAssumption`): `GroupInvariant`,
  `LayersAlwaysInherited`, `PrioritiesAlwaysExplicit`, `DeniesAlwaysHeld`. The walk
  pauses and edits wait for it, so `GroupInv` says where it stands. The stack has no
  group twice, each of its groups inherits those above it, and all that is known is
  inherited by a group of the session (`WChain`), so whatever is placed is inherited;
  `visited` is what `out` lists, once each; the parents a frame has passed, those of a
  placed group and the roots taken are placed or on the stack (`WSeen`), hence nothing is
  missing at the end; and a parent that is not before its child inherits it
  (`ParentsFirst`). A compiled decision has the layers of
  exactly that order. The contest of priorities is a fold over the answers: `Standing` says
  after n of them which answer is best for each rule and which lost, and `DroppedFacts`
  that this is the answer the definition by comparison gives, whatever the order.
* **SelectionProofs.** What `Among` keeps of a sequence, in order and once each, and what
  appending, removing, cutting and joining do to a sequence of any values (`IsSeq`). A
  recursive function is shown to exist by a least counterexample to its definition up to n
  (`KeptExists`), the form the other recursive functions take over.
* **CursorHooksProofs.** `AnswersAlwaysAudited`, also across restarts and overlapping
  events, and `PairsAreAlwaysOneCall` if the second event waits for the first, the
  setting of `CursorPairs` (it is false otherwise, see the departures). The invariant
  says of each cached answer which entry it was made with, of each request which look-up
  it has behind it, and that the table holds the answer once the first event of a window
  is answered.
* **ClientsProofs.** One section per program, each about the specification of that
  program, and `ClientsImplementEach`: a behaviour of `Clients`, which the run checks, is
  one of each of them. The arguments, where the property is not its own invariant:
  * *Pins*, `PinsAlwaysHold`. A writer's stale copy comes back, so the invariant says of
    each held copy, and of each accept on its way, what it says of the file.
  * *Repairs*, `RepairsAlwaysHold`. Hashes only grow, and a case that was applied is below
    the live hash (`Spent`), so that the comparison refuses it; what is asked and what is
    valid belong to one text (`Working`, `Sent`).
  * *Login*, `LoginAlwaysHolds`. The file is never ahead of memory, what was reported is in
    the file, and each row of the client's table takes every answer of success and no
    refusal for success, which is proved group by group.
  * *Shims*, `ShimsAlwaysFollow`. What a shim has in hand at each step of its exit path.
  * *Signers*, `SignersAlwaysHold`. The files of an enrolment are written in a fixed order
    by processes that overlap and die; the invariant says for each process which files
    hold its material once it is at a step, and that a file once torn or overwritten no
    longer passes the checks of a load.
  * *Registries*, `RegistriesAlwaysHold`, if there is one caller (with two it is false, see
    the departures): what the running command has read is still the list.
  * *Guardrails*, `GuardrailsAlwaysHold`. What a check holds at each stage belongs to the
    entries that were enabled when it came; the order of the trace ring lists each key of
    the map once.
  * *Checkups*, `CheckupAlwaysHolds`. What was answered so far follows from the one reading
    of the files, question by question.
  * *Terminal dashboard*, `CursorAlwaysOnScreen` (`DashboardAssumption`). The cursor of every tab is in its window
    (`WindowKept`), whatever the lists are: moves keep it there, resets reset both, and
    nothing else touches either. That a list has a row at the cursor then puts it on the
    screen, for which every answer on its way must be a list (`FlightSound`).
  * *Web dashboard*, `WebAlwaysHolds` (`WebAssumption`). The switches: saves on their way are answered from
    the oldest on; what is shown is what the last unanswered one asks for, or what is
    enforced when there is none, and, until a save was refused, each one's rollback leads
    to what the one before it asks for (`SwitchesHold`). So the one refusal leads to what
    the saves before it will have enforced. The page is inductive as it stands once
    `pageCount` is shown to cover the rows.
  * *Install*, `UserDataAlwaysKept`, `FailedAlwaysUndone`, `ReportsAlwaysHold`. The rollback
    walks a list of operations back while users edit, steps fail and the daemon dies. The
    invariant (`hiInv`) says for each file what the operations that are planned, done and
    undone still say of it: a planned one was computed from the file as the CLI saw it
    (`Stages`), a backup has the name its operation knows and the content that was seen
    (`BackupsNamed`, `CopyKept`), a file that no operation has reached is as seen
    (`Unwritten`), a written one can be undone (`WritesUndoable`), what was chosen is
    gated (`ChosenGated`), and the manifest lists what was written (`ManifestsHold`). It
    was first checked with TLC on the instance of `HarnessInstalls`.
  * *MCP*, `ProxiesAlwaysHold`. Every answer on the wire is of a line that was passed, and
    the calls that wait are the passed ones without answer (`CallsCounted`); what the child
    saw is the selection of the lines passed, which grows at its end (`ChosenFacts`).

`SessionsAlwaysHold` of `GateFlowProofs` excludes scenarios with the hooks of Claude
Desktop, which break the property (see the departures). It needs an invariant of its
own, `SInv`: which entries an id has in the ledger, who is on the way to record one, and
how far a handler that found no session may still get.

The proofs have changed the models where these said less than they seemed to:
`SessionKeys.NextFile` and two operators of `Checkup` were written as CASE with arms that
overlap, which leaves the value open (TLC takes the first that is true); they are
conditions now. `HarnessInstall` had files whose initial contents no such file has, and
an order of files taken from a CHOOSE. `GroupOrder.Dedupe`, `LedgerAudit.Chain` and
`RootOf`, and the functions of `PolicyLayers` were folds and selections of the community
modules; they are recursive functions and `Among` now, which say the same and can be
reasoned about. So are the filters of the dashboards; the event list of the web
dashboard was sorted by `SortSeq`, which takes any order of equal numbers, while
the sort of the browser is stable (`NewestFirstRows`).

**Only model-checked.** The liveness properties and the expected violations; every
invariant of a passing run is a theorem. Out of the prover's reach are liveness
under fairness (`EventuallyShown`, `Terminates`, `ClientsSettle`), `ENABLED`, and the
library's induction theorems, which take an operator as a parameter. What a recursive
function yields at every length can be proved by choosing a least counterexample
(`LeastNat`, `UpTo`); that is how `Among` is reasoned about. It cannot be for
`SelectSeq`, `SortSeq` and the folds, whose definitions the provers do not unfold.
No module declares a RECURSIVE operator.

The type invariants of the proved modules are theorems or parts of the proved
invariant. The runs spend their properties on behaviour.

## Findings

Two disagreements between the code and what the repository says of it are kept as
runs that TLC must find violated.

| Run | The code | What it contradicts |
|---|---|---|
| `LedgerSyncFails` | a failed `Sync` leaves the line in the file and the chain state behind it: the next append forks the chain | "Resume chain state ... so the chain never breaks", memory.go |
| `LayersEdit` | adding a gate erases the priority of the others | "survive the rebuild", policy.go |

### Departures seen while modelling

These properties are stated in the modules and no run lists them: each says what
a document, a comment or a test says, and TLC finds it violated with the change
of constants given here. Each is a reason for a restriction in the passing runs
or for a weaker property there.

| Property | Start from, with | The code | What it contradicts |
|---|---|---|---|
| `AckedListed` | `LedgerCrash`, `Fault = {"short_write"}` | a partial line stays, the next one is glued to it, appends go on being acknowledged and listing fails | "ListLedger returns every entry", storage.go |
| `AckedListed` | `LedgerCrash`, `Oversized = {p2}`, `Fault = {}` | an entry above 1 MiB is accepted and can never be read, nor can the daemon restart | the same |
| `NothingDroppedInReplay` | `TailLive`, `MaxSeq = 4`, `MaxConn = 1` | entries that land during a long replay overflow the channel and are lost | "nothing appended in between is dropped", ledger_tail.go |
| `PinSurvivesBurst` | `PolicyEdited`, `InitialPolicy <- AllGates`, three gates, `BadGate = {}`, `Kinds = {"disable", "enable"}`, `MaxPins = 4`, `MaxSwaps = 7` | a policy that becomes live again keeps its old eviction rank | "oldest non-live pin goes first", policy_registry.go |
| `RepairEditsItsCase` | `PolicyEdited`, `InitialPolicy <- AllGates`, `BadGate = {}` | the stale-bundle check is outside the edit's mutex | "stale bundles are rejected", docs |
| `HooksFollowLive` | `Gate`, scene Sessions with kind `codex` | an unattested Codex session keeps the policy of its first hook | "evaluate against the live policy", docs |
| `MonitorNeverBlocks` | `Gate`, scene Verdicts | a guardrail denial is applied after the mode | "forces all deny verdicts to allow" |
| `NothingBlocked` | `Gate`, scene Verdicts with `modes` empty, `guarded` FALSE | the default mode is firewall | "Out of the box, ... monitor mode" |
| `AlertsKeepTheDeny` | `Gate`, scene Verdicts | rule and daemon in monitor mode: the entry says allow | "keeps the original deny" |
| `ReplaysShareTheRow` | `Gate`, scene Verdicts with kind `claude` | a redelivered hook is evaluated and recorded anew | "the same verdict from the same audit row" |
| `ExpiredCannotAppend` | `Gate`, scene Sessions | expiry is stored and never compared | "the next ledger append fails" |
| `SessionsRecorded` | `Gate`, scene Sessions with kind `desktop` | the desktop hook creates sessions without an entry | "identical behavior", hooks_claude_desktop.go |
| `RepoOnlyBlocksMore` | `LayersEdit`, `RepoFile <- MCRepoFile`, `LayerFile <- MCLayerFile` | a repo gate with a priority beats a group's denial | "can only block more", docs |
| `RepoDenyBlocks` | `LayersEdit` | an earlier daemon allow hides a repo denial | "a deny from any layer blocks" |
| `ProofPinsSequence` | `LedgerAudits` | a proof is accepted for an index beyond the tree | "committed at a given sequence", docs |
| `AnyChangeIsFound` | `LedgerAudits` with two verdicts | verdict, rule, tool and time are not hashed | "any tamper breaks here", docs |
| `OneEntryPerCall` | `CursorPairs`, `Overlap = TRUE` | look-up and store are two critical sections with the evaluation between them | "the second returns the cached verdict without a second ledger entry", hooks_cursor.go |
| `WiredIsRecorded` | `HarnessInstalls`, `MaxEdits = 0` | the files are written before the manifest and the entry, and stay when those fail | "an install without a ledger entry is worse than no install", install.go |
| `AbortedChangesNothing` | `HarnessInstalls`, `MaxEdits = 0` | deselected harnesses, and a selected Codex that shares their files, are unwired before the user is asked | "aborted. no changes.", install.ts |
| `RestoredVerbatim` | `HarnessInstalls`, `MaxEdits = 0` | wrapping keeps command, arguments and environment only | "Preserve the original verbatim", install_claude_desktop.go |
| `FailedUninstallKeepsManifest` | `HarnessInstalls`, `MaxEdits = 0` | the manifest is archived before the entry is appended | "a retry ... needs the manifest intact", install.go |
| `LedgerSaysWhatHappened` | `Clients`, part "hooks" | a daemon that stops between entry and answer leaves a recorded denial of a call that runs | "the daemon's ledger is the source of truth" |
| `PostsAreAnswers` | `Clients`, part "proxy" | a request of the child passes for the answer to the host's request of the same id | "when the matching response comes back", mcp-proxy.ts |
| `RequestsAnswered` | `svSpec` with fair `ServerSteps` | the tail never ends, so its tool call and all behind it wait | "Return the last N entries", mcp-server.ts |
| `FreshPerSession` | `Clients`, part "keys" | a session key found on disk is used again | "a fresh Ed25519 keypair per session", session.ts |
| `RotatedKeyOnDisk` | `Clients`, part "keys" | the key is written after the daemon's answer, which may be lost | "a failed rotate doesn't overwrite the working key", for the accepted one |
| `AddedStays` | `Clients`, part "rules", two callers | two commands write back the list each has read | a registry reported as added |
| `SyncCanRepair` | `Clients`, part "rules" | a directory left by a clone that died is neither cloned nor pulled | "clone or fast-forward each registered registry" |
| `RepoFileKept` | `Clients`, part "rules" | installing with `--repo` drops the keys it does not know | the user's own file |
| `TokenAdmits` | `Clients`, part "login" | the middleware reads the header only; the tail and installCapabilities send none | "The daemon accepts both", api.ts |
| `FailedBootstrapCreatesNobody` | `Clients`, part "login" | the user stays in memory when the file could not be written | the error it answers |
| `StaleCaseRefused` | `Clients`, part "repair" | the comparison is outside the mutex of the edit | "so stale UI state cannot overwrite newer policy edits", docs |
| `ReplacedOnce` | `Clients`, part "repair" | for the same reason two repairs of one rule may both be made | the same |
| `ButtonMeansValidated` | `Clients`, part "repair" | an answer about an older text enables the button | the button's label |
| `EditorOwnsKeys` | `Clients`, part "tui" | keys reach the handler while an editor is being prepared and runs | "keypresses skip the TUI handler (the editor owns the TTY)", dashboard.tsx |
| `KeysSeeWhatIsDrawn` | `Clients`, part "tui" | the key handler counts sessions of its first render | "j/k move cursor / scroll within the focused tab" |
| `NewestFirst` | `Clients`, part "tui" | after a reconnect the replay is put above newer entries | "shown (seq DESC)" |
| `InheritInherits` | `Clients`, part "tui" | the terminal shows a gate in mode "inherit" as enforcing | what "inherit" means, policy.go |
| `EditKeepsMatch` | `Clients`, part "tui" | the editable form holds only what the view shows of a match | "reconstructs an editable YAML form of a single gate" |

Seen in the code and not stated as properties, because each is a single condition:
under password authentication the shims' requests to `/v1/hooks` carry no token and
are refused, which the shims answer with "go on", and the web dashboard sends none
either; the middleware also refuses preflight requests, and CORS does not name PUT,
which the guardrail page uses; the Cursor shim's header speaks of failing closed; the
proxy takes ids 1 and "1" for the same and forwards calls without an id or in a batch
unasked; a torn session key makes later creates fail; a second `false-positive create`
overwrites an edited replacement; "Block this next time" splits a command of several
lines into patterns of its parts; a rule added without a pattern denies the whole
tool; an accepted pin may be overwritten by an evaluator's write; status calls Codex
Desktop wired when Codex is; the hook endpoints never consult the guardrails, only
`gate.check` does.

## Abstractions

* Hashes are injective; signatures either verify or the request is refused.
* One call of the ledger store is one step everywhere but in `LedgerStore`.
* Evaluators and matchers are what they answer to the one call that is decided.
* Times are events: a session, a token, a cached catalog, Cursor's window has expired.
* Formatting, JSON, logging and HTTP codes are left out; an error response is an
  answer without a verdict.

* The commands of the CLI run one after the other unless several processes are named.

## Not modelled

* *Guardrail providers.* Services outside the repository: `Guardrails` takes what they
  list and say as a choice. Prompts and the parsing of answers are left out.
* *Login.* Password hashes.
* *Signers.* Signatures, sealing and the operating system's keychain; canonical
  encoding of what is signed is taken as injective. It does not cover `groups` and
  `user_id`, which no module speaks of.
* *Policy.* Matchers (regular expressions, paths, hosts) are what they answer to one
  call; user ids and the search for a repo file are look-ups.
* *Dashboards.* Layout, the web page of sessions, the list of traces, scrolling in
  details and the help overlay: they display, and change nothing of the daemon's.
* *CLI.* Developer stubs and their picker, scripts installed beside the binary,
  `--config-dir`, cleanup of the extension registry, rule search, ledger export,
  the patch command of `false-positive`, parsing of durations.
* *Daemon start.* Flags, listeners, TLS, logging. What a restart keeps and loses is
  part of each module.
* *Build, release, documentation.* No run-time behaviour; the documentation is where
  the claims under Findings are quoted from.

Further work would model what is left out of the components that are `partly` modelled.
