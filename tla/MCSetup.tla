------------------------------ MODULE MCSetup ------------------------------
EXTENDS AgentSetup
UsersWords == {"u1", "u2", "u3", "u9"}
Bodies == [v \in Versions |-> "body" \o ToString(v)]
Plain == <<"title", NL, "u1", NL>>
Anchored == <<"title", NL, "u1", NL, "anchor", NL, "u2", NL, "head", NL, "u3", NL>>
Legacy == <<"title", NL, "tools", NL, "old", NL, "head", NL, "u3", NL>>
UserHook(at, mark) == [at |-> at, mark |-> mark, cmd |-> User]
Marked == <<UserHook("Prompt", "ig hold"), UserHook("Bash", "Destructive git"),
            UserHook("Bash", "none")>>
Profile(ds, t, hooks, scripts, r, parses) ==
    [dirs |-> ds, text |-> t, hooks |-> hooks, own |-> scripts, rc |-> r, parses |-> parses,
     olds |-> IF scripts = {} THEN {} ELSE {"ig-rewrite.sh", "session-start.sh"}]
SomeProfiles ==
    { Profile({}, <<>>, <<>>, {}, <<>>, TRUE),
      Profile({"claude", "opencode", "cursor", "hermes"}, Plain, <<UserHook("Bash", "none"), UserHook("Write", ".env")>>,
              {"format.sh", "cline", "rules/ig.md"}, <<"u1", NL>>, TRUE),
      Profile({"claude", "codex", "gemini"}, Anchored, Marked, {"format.sh"}, <<>>, TRUE),
      Profile({"codex", "kilo", "cline"}, Legacy, <<>>, {}, <<>>, FALSE) }
=============================================================================
