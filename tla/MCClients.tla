----------------------------- MODULE MCClients -----------------------------
EXTENDS Clients

\* The terminal dashboard.
MCCatalog == <<"safety", "jailbreak", "policy">>
MCLedgerKind ==
  {[source |-> "claude-code", verdict |-> "deny", rule |-> "r1", monitor |-> FALSE],
   [source |-> "claude-code", verdict |-> "complete", rule |-> "", monitor |-> FALSE]}
MCSessions == <<"claude-code", "codex", "internal">>
MCChanges == [f \in Focus |-> IF f \in {"gates", "events"} THEN 1 ELSE 2]

\* Signers: TOTP alone, the others together.
MCTogether == {{"totp"}, {"os-keychain", "software"}}

\* The web dashboard.
MCEntry ==
  <<[source |-> "claude-code", verdict |-> "deny"], [source |-> "claude-code", verdict |-> "complete"],
    [source |-> "admin", verdict |-> "allow"], [source |-> "codex", verdict |-> "deny"]>>

\* Harnesses in the order of the registry, and what is on disk for them.
MCRows == <<"opencode", "claude-code", "codex-desktop", "cursor">>
MCKind == "opencode" :> "stub" @@ "claude-code" :> "claude" @@ "codex-desktop" :> "codex" @@ "cursor" :> "hooks"
MCFile(text, at, names) == [dir |-> text # "absent", text |-> text, at |-> at, names |-> names]
MCNone == MCFile("absent", "url", "here")
MCDisks ==
  "opencode" :> {MCNone, MCFile("broken", "url", "here")} @@
  "claude-code" :> {MCNone, MCFile("ours", "hook", "other")} @@
  "codex-desktop" :> {MCFile("plain", "url", "here"), MCFile("ours", "hook", "here")} @@
  "cursor" :> {MCFile("broken", "url", "here"), MCFile("ours", "entry", "here"),
               MCFile("ours", "entry", "other")}

\* Entries of a classifier, of a catalog that does not run, of an unknown provider.
MCGuardrail == [p \in {"nvidia", "openrouter", "acme"} |-> [provider |-> p, id |-> "1"]]
MCGuardrails == {MCGuardrail[p] : p \in DOMAIN MCGuardrail}
MCChoices ==
  {<<MCGuardrail["acme"], MCGuardrail["nvidia"]>>,
   <<MCGuardrail["openrouter"], MCGuardrail["nvidia"], MCGuardrail["acme"]>>}
=============================================================================
