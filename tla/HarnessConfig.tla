--------------------------- MODULE HarnessConfig ---------------------------
(***************************************************************************)
(* What the daemon makes of one configuration file of a harness: the       *)
(* merge and strip functions of control-plane/internal/api/install*.go,    *)
(* and what the CLI's detectors read in it.  The daemon gets the text of   *)
(* the file from the CLI and answers the new text; it touches no file.     *)
(*                                                                         *)
(* Kinds of file: "claude" (settings.json of Claude Code), "hooks" (the    *)
(* hooks file of Codex, Cursor and Gemini), "flag" (config.toml of Codex), *)
(* "servers" (claude_desktop_config.json) and "bundle" (the manifest.json  *)
(* of a Desktop Extension).  A content says what matters of such a file:   *)
(* entry is what the user has there (a hook, an MCP server, the command of *)
(* an extension, a hooks = false line), wrapped that it now runs behind    *)
(* the proxy, own that agentlock's entries are there, status whose status  *)
(* line it is.                                                             *)
(***************************************************************************)
EXTENDS Naturals

CONSTANTS
  UserEntry,  \* entries a user may have
  Rich        \* those with more than a command, arguments and environment

ASSUME EntryAssumption == Rich \subseteq UserEntry /\ {"none", "bare"} \cap UserEntry = {}

Content == [text : {"absent", "empty", "broken", "ok"}, entry : UserEntry \cup {"none", "bare"},
            wrapped : BOOLEAN, own : BOOLEAN, status : {"none", "user", "ours"}]

NoFile == [text |-> "absent", entry |-> "none", wrapped |-> FALSE, own |-> FALSE, status |-> "none"]
Broken == [NoFile EXCEPT !.text = "broken"]

\* What a file of a kind may hold: nothing if there is no JSON in it, a wrapped
\* entry where agentlock wraps one, a status line in settings.json, where its own
\* comes and goes with its hooks.
Fits(kind) ==
  {c \in Content :
     /\ c.text # "ok" => c = [NoFile EXCEPT !.text = c.text]
     /\ c.wrapped => kind \in {"servers", "bundle"} /\ c.entry # "none"
     /\ c.own => kind # "bundle"
     /\ c.status # "none" => kind = "claude"
     /\ c.status = "ours" => c.own}

\* What a file holds of the user's.
UserPart(c) == [broken |-> c.text = "broken", entry |-> c.entry, status |-> c.status = "user"]

-----------------------------------------------------------------------------

\* wrapMcpServerEntry and wrapManifest keep the command, arguments and
\* environment of the entry they wrap.
Stashed(e) == IF e \in Rich THEN "bare" ELSE e

Wraps(kind, entry, enabled) ==
  \/ kind = "servers" /\ entry # "none"
  \/ kind = "bundle" /\ enabled

\* A status line of the user's stays.
MergedStatus(kind, status) == IF kind = "claude" /\ status # "user" THEN "ours" ELSE status

\* The new text of a file that is to be wired: agentlock's entries replace
\* their older selves and the user's stay; the flag is set.  A text that does
\* not parse is replaced by agentlock's part alone.
Merged(kind, c, enabled) ==
  LET base  == IF c.text = "ok" THEN c ELSE NoFile
      wraps == Wraps(kind, base.entry, enabled)
  IN  [text    |-> "ok",
       entry   |-> CASE kind = "flag" -> "none"
                     [] wraps         -> Stashed(base.entry)
                     [] OTHER         -> base.entry,
       wrapped |-> wraps,
       own     |-> kind # "bundle",
       status  |-> MergedStatus(kind, base.status)]

Planned_SkipsWired(kind, c, enabled) ==
  CASE kind = "bundle" -> c.text = "ok" /\ c.entry # "none" /\ enabled /\ ~c.wrapped
    [] OTHER           -> ~c.own

\* Whether the plan writes the file at all: not a flag that is set, nor a
\* bundle without a command or one that is disabled and not wrapped.
Planned(kind, c, enabled) ==
  CASE kind = "flag"   -> ~c.own
    [] kind = "bundle" -> c.text = "ok" /\ c.entry # "none" /\ (enabled \/ c.wrapped)
    [] OTHER           -> TRUE

BacksUp_Wired(kind, c) == c.own

\* Whether the operation names a backup.
BacksUp(kind, c) ==
  \/ kind = "bundle"
  \/ IF kind = "flag" THEN c.text # "absent" ELSE c.text \in {"broken", "ok"}

\* What stripping finds: nothing in a settings.json without hooks, even if the
\* status line is agentlock's.
Strips(kind, c) ==
  CASE kind = "claude"  -> c.own \/ (c.entry # "none" /\ c.status = "ours")
    [] kind = "servers" -> c.own \/ c.wrapped
    [] kind = "bundle"  -> c.wrapped
    [] OTHER            -> c.own

Stripped(c) ==
  [c EXCEPT !.own = FALSE, !.wrapped = FALSE, !.status = IF @ = "ours" THEN "none" ELSE @]

\* The strippers of the other kinds parse JSON.
StripFails(kind, c) == c.text = "broken" \/ (kind = "flag" /\ c.text = "ok")

\* What the picker shows as wired.
Detected(kind, c) == c.own \/ (kind = "servers" /\ c.wrapped)

\* Every call the file can gate is gated, and nothing of agentlock's is left.
Gates(kind, c, enabled) ==
  CASE kind = "servers" -> c.own /\ (c.entry # "none" => c.wrapped)
    [] kind = "bundle"  -> enabled /\ c.text = "ok" /\ c.entry # "none" => c.wrapped
    [] OTHER            -> c.own
Clean(c) == ~c.own /\ ~c.wrapped /\ c.status # "ours"
=============================================================================
