------------------------------ MODULE HookShim ------------------------------
(* The shims that the harnesses spawn for their hooks (cli/src/commands/       *)
(* hook-*.ts): each is a process that reads one event, asks the daemon and     *)
(* turns the answer into an exit code and a line on stdout. Between a tool     *)
(* call and its shims stands a daemon that may stop at any time.               *)
EXTENDS Naturals, FiniteSets

VARIABLES
  hkShims,    \* the processes of the current tool call
  hkUp,       \* whether the daemon is reachable
  hkRecorded  \* [event, verdict] of the call that the daemon has written down

hkVars == <<hkShims, hkUp, hkRecorded>>

Event == {"session-start", "pre-tool-use", "post-tool-use", "stop"}
CursorEvent ==
  Event \cup {"before-shell-execution", "before-mcp-execution", "after-mcp-execution"}
Gating == {"pre-tool-use", "before-shell-execution", "before-mcp-execution"}

\* What the daemon's answer can be for a shim: a decision, no decision, or no
\* usable answer at all.
Failure == {"unreachable", "status", "malformed"}
Reply == {"allow", "deny", "ask", "none"} \cup Failure

Exits(code, says) == [code |-> code, says |-> says]

-----------------------------------------------------------------------------
(* What each shim makes of the reply: exit code and decision on stdout.        *)

ClaudeCodeShim ==
  [events |-> Event,
   exit |-> [r \in Reply |-> IF r = "deny" THEN Exits(2, "deny") ELSE Exits(0, "")]]

CodexShim ==
  [events |-> Event,
   exit |-> [r \in Reply |-> IF r = "deny" THEN Exits(2, "deny") ELSE Exits(0, "")]]

\* Mutant: an answer that cannot be used blocks.
CursorShim_FailsClosed ==
  [events |-> CursorEvent,
   exit |-> [r \in Reply |-> IF r = "allow" THEN Exits(0, "allow") ELSE Exits(2, "deny")]]

CursorShim ==
  [events |-> CursorEvent,
   exit |-> [r \in Reply |-> CASE r \in {"deny", "ask"}          -> Exits(2, "deny")
                               [] r \in {"allow", "unreachable"} -> Exits(0, "allow")
                               [] OTHER                          -> Exits(0, "")]]

\* Gemini's answer carries the decision at its top level.
GeminiShim ==
  [events |-> Event,
   exit |-> [r \in Reply |-> IF r = "deny" THEN Exits(2, "deny") ELSE Exits(0, "")]]

\* The subcommands of `agentlock hook`.
Shim == [h \in {"claude-code", "codex", "codex-desktop", "codex-auto", "cursor", "gemini"} |->
           CASE h = "claude-code" -> ClaudeCodeShim
             [] h = "cursor"      -> CursorShim
             [] h = "gemini"      -> GeminiShim
             [] OTHER             -> CodexShim]

\* Where a shim posts its event; the shared Codex shim looks at its environment.
resolveCodexHookHarness(h, desktop) ==
  IF h # "codex-auto" THEN h ELSE IF desktop THEN "codex-desktop" ELSE "codex"

-----------------------------------------------------------------------------
(* The harness fires the hooks of one tool call; Cursor has two for a shell or *)
(* MCP call. It runs the call unless one of them blocks.                       *)

HooksOf(h) ==
  {{"pre-tool-use"}, {"post-tool-use"}} \cup
  (IF h = "cursor" THEN {{"pre-tool-use", "before-shell-execution"},
                         {"pre-tool-use", "before-mcp-execution"}} ELSE {})

FireHooks ==
  /\ hkShims = {}
  /\ \E h \in DOMAIN Shim, desktop \in BOOLEAN, stdin \in {"event", "empty", "invalid"} :
     \E events \in HooksOf(h) :
       hkShims' = {[harness |-> h, event |-> e, stdin |-> stdin, pc |-> "read",
                    route |-> resolveCodexHookHarness(h, desktop),
                    reply |-> "none", exit |-> Exits(0, "")] : e \in events}
  /\ UNCHANGED <<hkUp, hkRecorded>>

Becomes(s, t) == hkShims' = (hkShims \ {s}) \cup {t}
EndsWith(s, exit) == Becomes(s, [s EXCEPT !.pc = "done", !.exit = exit])

\* An event it does not know, or nothing to forward.
ReadEvent(s) ==
  /\ s.pc = "read"
  /\ IF s.event \notin Shim[s.harness].events THEN EndsWith(s, Exits(2, ""))
     ELSE IF s.stdin # "event" THEN EndsWith(s, Exits(0, ""))
     ELSE Becomes(s, [s EXCEPT !.pc = IF hkUp THEN "posted" ELSE "answered",
                               !.reply = IF hkUp THEN "none" ELSE "unreachable"])
  /\ UNCHANGED <<hkUp, hkRecorded>>

\* The daemon decides an event and writes it down before it answers. A failing
\* append and a refused request are a status, with nothing written.
DaemonHandles(s) ==
  /\ s.pc = "posted" /\ hkUp
  /\ \/ \E verdict \in (IF s.event \in Gating THEN {"allow", "deny"} ELSE {"none"}) :
          /\ hkRecorded' = hkRecorded \cup {[event |-> s.event, verdict |-> verdict]}
          /\ Becomes(s, [s EXCEPT !.pc = "answering", !.reply = verdict])
     \/ /\ Becomes(s, [s EXCEPT !.pc = "answering", !.reply = "status"])
        /\ UNCHANGED hkRecorded
  /\ UNCHANGED hkUp

\* The answer arrives, whole or cut short.
AnswerArrives(s) ==
  /\ s.pc = "answering" /\ hkUp
  /\ \E r \in {s.reply, "malformed"} : Becomes(s, [s EXCEPT !.pc = "answered", !.reply = r])
  /\ UNCHANGED <<hkUp, hkRecorded>>

ExitShim(s) ==
  /\ s.pc = "answered"
  /\ EndsWith(s, Shim[s.harness].exit[s.reply])
  /\ UNCHANGED <<hkUp, hkRecorded>>

\* The daemon stops: every open connection fails.
DaemonStops ==
  /\ hkUp /\ hkUp' = FALSE
  /\ hkShims' = {IF s.pc \in {"posted", "answering"}
                   THEN [s EXCEPT !.pc = "answered", !.reply = "unreachable"] ELSE s : s \in hkShims}
  /\ UNCHANGED hkRecorded

\* The next call.
NextCall ==
  /\ hkShims # {} /\ \A s \in hkShims : s.pc = "done"
  /\ hkShims' = {} /\ hkRecorded' = {} /\ hkUp' \in {hkUp, TRUE}

ShimSteps ==
  \E s \in hkShims : ReadEvent(s) \/ DaemonHandles(s) \/ AnswerArrives(s) \/ ExitShim(s)

hkInit == hkShims = {} /\ hkUp = TRUE /\ hkRecorded = {}
hkNext == FireHooks \/ ShimSteps \/ DaemonStops \/ NextCall
hkSpec == hkInit /\ [][hkNext]_hkVars

-----------------------------------------------------------------------------
\* Once its shims have ended, a call is blocked exactly by a denial that the
\* daemon has written down and whose answer arrived whole: no failure of the
\* daemon, of the connection or of the payload blocks one, of two denials one is
\* enough, and a harness that reads stdout decides as one that reads the exit
\* code (the exits of all shims).
ShimFollowsDaemon ==
  (\A s \in hkShims : s.pc = "done") =>
    \A s \in hkShims :
      /\ s.exit.code = 2 <=> s.exit.says = "deny"
      /\ s.exit.code = 2 <=> s.reply = "deny"
      /\ s.exit.code = 2 =>
           [event |-> s.event, verdict |-> "deny"] \in hkRecorded
      /\ s.route \in DOMAIN Shim \ {"codex-auto"}

\* Not so: "the daemon's ledger is the source of truth". A daemon that stops
\* between its entry and its answer leaves a denial of a call that runs.
LedgerSaysWhatHappened ==
  (hkShims # {} /\ \A s \in hkShims : s.pc = "done") =>
    ((\E x \in hkRecorded : x.verdict = "deny") <=> \E s \in hkShims : s.exit.code = 2)
=============================================================================
