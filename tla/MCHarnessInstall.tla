-------------------------- MODULE MCHarnessInstall --------------------------
(* Instances of HarnessInstall for TLC. *)
EXTENDS HarnessInstall, TLC

MCFiles == <<"settings.json", "desktop_config.json", "manifest.json", "hooks.json", "config.toml">>
MCFilesOf == [h \in {"claude-code", "claude-desktop", "codex", "codex-desktop"} |->
  CASE h = "claude-code"    -> <<"settings.json">>
    [] h = "claude-desktop" -> <<"desktop_config.json", "manifest.json">>
    [] OTHER                -> <<"hooks.json", "config.toml">>]
MCKindOf ==
  "settings.json" :> "claude" @@ "desktop_config.json" :> "servers" @@ "manifest.json" :> "bundle"
    @@ "hooks.json" :> "hooks" @@ "config.toml" :> "flag"

\* A file with an entry of the user.
UserFile(e) == [NoFile EXCEPT !.text = "ok", !.entry = e]

MCInitial == [f \in DOMAIN MCKindOf |->
  CASE f = "settings.json"       -> {[UserFile("hook") EXCEPT !.status = "user"]}
    [] f = "desktop_config.json" -> {UserFile("server")}
    [] f = "manifest.json"       -> {UserFile("server")}
    [] f = "hooks.json"          -> {NoFile}
    [] f = "config.toml"         -> {UserFile("hook")}]

MCPicks == {{}, {"claude-code", "codex"}, {"claude-desktop", "codex-desktop"}}
=============================================================================
