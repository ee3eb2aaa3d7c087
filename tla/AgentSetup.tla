----------------------------- MODULE AgentSetup -----------------------------
(***************************************************************************)
(* `ig setup`, `ig setup --agent`, `ig update` and the two uninstallers,   *)
(* over the configuration of the agents they edit, with users who edit the *)
(* same files, runs that die and steps that fail.                          *)
(*                                                                         *)
(* A command is the sequence of the writes it makes; each step reads a     *)
(* file, edits it (module AgentFiles) and writes it back. A step that      *)
(* fails is reported and the command goes on. What is written goes into    *)
(* the file in place, which is emptied first: a write that fails or a      *)
(* death in the middle leaves it empty (that part of a text is left is not *)
(* modelled), and a file that cannot be read is taken for an empty one.    *)
(***************************************************************************)
EXTENDS AgentFiles, FiniteSets

CONSTANTS
    Profiles,     \* what users may have before: agents, texts, hooks, scripts, rule files
    Targets,      \* agents that are set up or uninstalled on their own
    MaxVersion,   \* bound: releases
    MaxCommands,  \* bound: commands
    MaxUpsets     \* bound: users' edits, commands that die and steps that fail

User == -1
Missing == 0
Torn == -2                                            \* written, and empty
Versions == 1 .. MaxVersion

Upserted == {"claude", "codex"}                       \* rule files with a managed block
AppendedTo == {"gemini", "opencode", "kilo"}          \* and those it is appended to once
Scripts == {"ig-guard.sh", "format.sh", "subagent-context.sh"}
Overwritten == {"rules/ig.md", "hermes", "antigravity"}
Once == {"explorer.md", "cursor", "windsurf", "cline", "aider/IG.md"}
Lists == {"opencode.json", "aider.conf", "continue", "zed"}
OwnFiles == Scripts \cup Overwritten \cup Once
Agents == {"claude", "codex", "opencode", "gemini", "kilo", "cursor", "windsurf", "cline",
           "hermes", "antigravity"}

Events == {"Bash", "Grep", "Write", "Prompt", "Subagent"}
Hooks == [at : Words \cup Events, cmd : {User} \cup 0 .. MaxVersion,
          mark : Words \cup {"none"} \cup OldMarks \cup UninstallMarks \cup AgentMarks]

\* Users may have any text without a part of ig's marks, any hooks and any of the files,
\* and what older versions of ig left.
ProfilesAssumption ==
    \A p \in Profiles :
        /\ p.dirs \subseteq Agents /\ p.own \subseteq OwnFiles /\ p.parses \in BOOLEAN
        /\ WellFormed(p.text) /\ At(p.text, 1) # "begin"
        /\ Closed(p.rc) /\ p.hooks \in Seq(Hooks)

SetupAssumption ==
    /\ ProfilesAssumption
    /\ MaxVersion \in Nat \ {0} /\ DOMAIN Body = Versions
    /\ Targets \subseteq Agents /\ "u9" \in Words \ Fixed
ASSUME SetupAssumption

VARIABLES
    version,   \* of the installed binary
    dirs,      \* agents whose configuration directory exists
    md,        \* [Upserted \cup AppendedTo -> text]
    rc,        \* the shell's start-up file
    settings,  \* .claude/settings.json: does it parse, the permission, the hooks
    own,       \* [OwnFiles -> Missing, Torn, User, or the version that wrote it]
    baks,      \* scripts of users that were renamed to .bak-<time>
    olds,      \* scripts of old versions
    lists,     \* [Lists -> does the file parse, is ig listed in it]
    todo,      \* the steps the running command has left
    flawed,    \* history: a step of the running command has failed
    settled,   \* history: `ig setup` ended and nothing happened since
    gone,      \* history: agents uninstalled, and not installed since
    cut,       \* history: the texts `ig uninstall` has cut
    budget

files == <<dirs, md, rc, settings, own, baks, olds, lists>>
vars == <<version, files, todo, flawed, settled, gone, cut, budget>>

---------------------------------------------------------------------------
(* The writes, each as the files it leaves. A step is [do, file, dry] *)

Do(do, file) == [do |-> do, file |-> file, dry |-> FALSE]

Titles == [claude |-> "anchor", codex |-> "title"]

\* install_hook_file: what differs from the shipped script is renamed, then written.
InstallScripts(dry) ==
    /\ olds' = IF dry THEN olds \cap {"session-start.sh"} ELSE {}
    /\ own' = IF dry THEN own ELSE [f \in OwnFiles |-> IF f \in Scripts THEN version ELSE own[f]]
    /\ baks' = IF dry THEN baks ELSE baks \cup {f \in Scripts : own[f] = User}
    /\ UNCHANGED <<dirs, md, rc, settings, lists>>

RuleSteps == {"upsert", "strip", "cut"}
SettingsSteps == {"permission", "hooks", "prune"}

\* What a step makes of the text of a rule file.
Edited(step, s) ==
    CASE step.do = "upsert" /\ step.file \in Upserted -> UpsertTitled(s, version, Titles[step.file])
      [] step.do = "upsert" /\ step.file \notin Upserted -> AppendOnce(s, version)
      [] step.do = "strip" -> Strip(s)
      [] step.do = "cut" -> RemoveSection(s)

WriteRules(step) ==
    /\ md' = [md EXCEPT ![step.file] = Edited(step, @)]
    /\ UNCHANGED <<dirs, rc, settings, own, baks, olds, lists>>

\* configure_claude_settings: looks for the permission in the text, parsed or not.
Permitted(st) == IF st.perm \/ ~ st.parses THEN st ELSE [st EXCEPT !.perm = TRUE]

Registered(st) ==
    IF st.parses THEN [st EXCEPT !.hooks = RegisterAll(@, version)] ELSE st

Pruned(st, marks) ==
    IF st.parses THEN [st EXCEPT !.perm = FALSE, !.hooks = Without(@, marks)] ELSE st

\* What a step makes of settings.json.
Reset(step, st) ==
    CASE step.do = "permission" -> Permitted(st)
      [] step.do = "hooks" -> Registered(st)
      [] step.do = "prune" -> Pruned(st, step.file)

WriteSettings(step) ==
    /\ settings' = Reset(step, settings)
    /\ UNCHANGED <<dirs, md, rc, own, baks, olds, lists>>

WriteOwn(step) ==
    /\ own' = [own EXCEPT ![step.file] =
                 IF step.file \in Once /\ @ # Missing THEN @ ELSE version]
    /\ UNCHANGED <<dirs, md, rc, settings, baks, olds, lists>>

\* `ig setup` adds what is not listed, `ig uninstall` takes it out.
Listed(step, l) ==
    IF l.parses THEN [l EXCEPT !.ig = (step.do = "list")] ELSE l

WriteList(step) ==
    /\ lists' = [lists EXCEPT ![step.file] = Listed(step, @)]
    /\ UNCHANGED <<dirs, md, rc, settings, own, baks, olds>>

WriteShellHook ==
    /\ rc' = InstallShellHook(rc, version)
    /\ UNCHANGED <<dirs, md, settings, own, baks, olds, lists>>

RemoveOwn(fs) ==
    /\ own' = [f \in OwnFiles |-> IF f \in fs THEN Missing ELSE own[f]]
    /\ olds' = olds \ fs
    /\ UNCHANGED <<dirs, md, rc, settings, baks, lists>>

Perform(step) ==
    \/ step.do = "scripts" /\ InstallScripts(step.dry)
    \/ step.do \in RuleSteps /\ WriteRules(step)
    \/ step.do \in SettingsSteps /\ WriteSettings(step)
    \/ step.do = "write" /\ WriteOwn(step)
    \/ step.do \in {"list", "unlist"} /\ WriteList(step)
    \/ step.do = "shell" /\ WriteShellHook
    \/ step.do = "remove" /\ RemoveOwn(step.file)

---------------------------------------------------------------------------
(* The steps that fail *)

\* The file was opened, which empties it, and nothing was written.
EmptyFile(step) ==
    \/ /\ step.do \in RuleSteps /\ Edited(step, md[step.file]) # md[step.file]
       /\ md' = [md EXCEPT ![step.file] = <<>>]
       /\ UNCHANGED <<dirs, rc, settings, own, baks, olds, lists>>
    \/ /\ step.do \in SettingsSteps /\ Reset(step, settings) # settings
       /\ settings' = [parses |-> FALSE, perm |-> FALSE, hooks |-> <<>>]
       /\ UNCHANGED <<dirs, md, rc, own, baks, olds, lists>>
    \/ /\ step.do = "write"
       /\ IF step.file \in Once THEN own[step.file] = Missing ELSE own[step.file] # version
       /\ own' = [own EXCEPT ![step.file] = Torn]
       /\ UNCHANGED <<dirs, md, rc, settings, baks, olds, lists>>
    \/ /\ step.do \in {"list", "unlist"} /\ Listed(step, lists[step.file]) # lists[step.file]
       /\ lists' = [lists EXCEPT ![step.file] = [parses |-> FALSE, ig |-> FALSE]]
       /\ UNCHANGED <<dirs, md, rc, settings, own, baks, olds>>
    \/ /\ step.do = "shell" /\ InstallShellHook(rc, version) # rc
       /\ rc' = <<>>
       /\ UNCHANGED <<dirs, md, settings, own, baks, olds, lists>>

\* Setup could not read the file (it is not UTF-8, say), takes its text for empty, settings
\* and lists for `{}`, and writes it anew. The uninstallers leave such a file alone.
Unread(step) ==
    \/ /\ step.do = "upsert" /\ md[step.file] # <<>>
       /\ md' = [md EXCEPT ![step.file] = Edited(step, <<>>)]
       /\ UNCHANGED <<dirs, rc, settings, own, baks, olds, lists>>
    \/ /\ step.do \in {"permission", "hooks"}
       /\ settings' = Reset(step, [parses |-> TRUE, perm |-> FALSE, hooks |-> <<>>])
       /\ UNCHANGED <<dirs, md, rc, own, baks, olds, lists>>
    \/ /\ step.do = "list"
       /\ lists' = [lists EXCEPT ![step.file] = [parses |-> TRUE, ig |-> TRUE]]
       /\ UNCHANGED <<dirs, md, rc, settings, own, baks, olds>>
    \/ /\ step.do = "shell" /\ rc # <<>>
       /\ rc' = InstallShellHook(<<>>, version)
       /\ UNCHANGED <<dirs, md, settings, own, baks, olds, lists>>

\* Of the scripts one is not installed, or is without the backup of what was there: it was
\* not read or not renamed, or nothing was written after that. The others are all there, or
\* only those before it.
InOrder == <<"ig-guard.sh", "format.sh", "subagent-context.sh">>

SomeScripts(step) ==
    /\ step.do = "scripts" /\ ~ step.dry
    /\ \E i \in DOMAIN InOrder, renamed \in BOOLEAN :
         LET f == InOrder[i]
         IN  \E new \in {version, Torn, IF renamed THEN Missing ELSE own[f]},
                others \in {Scripts \ {f}, {InOrder[j] : j \in 1 .. i - 1}} :
                /\ own[f] # version
                /\ own' = [g \in OwnFiles |-> IF g = f THEN new
                                              ELSE IF g \in others THEN version ELSE own[g]]
                /\ baks' = baks \cup {g \in others \cup (IF renamed THEN {f} ELSE {}) :
                                            own[g] = User}
    /\ olds' \in {{}, olds}
    /\ UNCHANGED <<dirs, md, rc, settings, lists>>

\* A file that could not be removed stays.
SomeRemoved(step) ==
    step.do = "remove" /\ \E f \in step.file : RemoveOwn(step.file \ {f})

---------------------------------------------------------------------------
(* The commands, as sequences of steps *)

ClaudeRules == <<Do("upsert", "claude"), Do("write", "rules/ig.md")>>
ClaudeHooks == <<Do("scripts", "hooks"), Do("hooks", "settings.json"), Do("write", "explorer.md")>>

\* AgentSetup::configure, agent by agent.
ConfigureClaude == <<Do("permission", "settings.json")>> \o ClaudeRules \o ClaudeHooks
ConfigureCodex == <<Do("upsert", "codex")>>
ConfigureOpencode == <<Do("upsert", "opencode"), Do("list", "opencode.json")>>
ConfigureCursor == <<Do("write", "cursor")>>
ConfigureWindsurf == <<Do("write", "windsurf")>>
ConfigureCline == <<Do("write", "cline")>>
ConfigureGemini == <<Do("upsert", "gemini")>>
ConfigureAider == <<Do("write", "aider/IG.md"), Do("list", "aider.conf")>>
ConfigureContinue == <<Do("list", "continue")>>
ConfigureZed == <<Do("list", "zed")>>
ConfigureKilo == <<Do("upsert", "kilo")>>

\* run_setup_with_options; those of which the model has no directory are there.
SetupSteps ==
    LET of(a, steps) == IF a \in dirs THEN steps ELSE <<>>
    IN  of("claude", ConfigureClaude) \o of("codex", ConfigureCodex)
        \o of("opencode", ConfigureOpencode) \o of("cursor", ConfigureCursor)
        \o of("windsurf", ConfigureWindsurf) \o of("cline", ConfigureCline)
        \o of("gemini", ConfigureGemini) \o ConfigureAider \o ConfigureContinue
        \o ConfigureZed \o of("kilo", ConfigureKilo) \o <<Do("shell", "rc")>>

\* With --dry-run no step writes but the one that removes old scripts, and, in the
\* run over all agents, three of Claude's helpers that take no dry_run.
DryScripts == [do |-> "scripts", file |-> "hooks", dry |-> TRUE]
DryRun(steps) == IF Do("scripts", "hooks") \in ToSet(steps) THEN <<DryScripts>> ELSE <<>>

DrySetup ==
    IF "claude" \in dirs
    THEN <<Do("permission", "settings.json")>> \o ClaudeRules \o <<DryScripts>> ELSE <<>>

\* AgentInstaller::install; the rule file, the hooks, or both may be left out.
InstallClaude(ctx) ==
    (IF ctx.no_patch THEN <<>> ELSE <<Do("permission", "settings.json")>>)
    \o (IF ctx.hook_only THEN <<>> ELSE ClaudeRules)
    \o (IF ctx.no_patch THEN <<>> ELSE ClaudeHooks)
InstallHermes == <<Do("write", "hermes")>>
InstallAntigravity == <<Do("write", "antigravity")>>
InstallRules(steps, ctx) == IF ctx.hook_only THEN <<>> ELSE steps

InstallerOf(a, ctx) ==
    [claude |-> InstallClaude(ctx), hermes |-> InstallHermes, antigravity |-> InstallAntigravity,
     codex |-> InstallRules(ConfigureCodex, ctx), opencode |-> InstallRules(ConfigureOpencode, ctx),
     gemini |-> InstallRules(ConfigureGemini, ctx), kilo |-> InstallRules(ConfigureKilo, ctx),
     cursor |-> InstallRules(ConfigureCursor, ctx), windsurf |-> InstallRules(ConfigureWindsurf, ctx),
     cline |-> InstallRules(ConfigureCline, ctx)][a]

\* run_per_agent with a single agent.
InstallSteps(a, ctx) ==
    IF ctx.dry_run THEN DryRun(InstallerOf(a, ctx)) ELSE InstallerOf(a, ctx)

\* AgentInstaller::uninstall.
UninstallClaude ==
    <<Do("strip", "claude"), Do("remove", Scripts \cup {"rules/ig.md", "explorer.md"}),
      Do("prune", AgentMarks)>>
UninstallCodex == <<Do("strip", "codex")>>
UninstallGemini == <<Do("strip", "gemini")>>
UninstallKilo == <<Do("strip", "kilo")>>
UninstallCursor == <<Do("remove", {"cursor"})>>
UninstallWindsurf == <<Do("remove", {"windsurf"})>>
UninstallCline == <<Do("remove", {"cline"})>>
UninstallHermes == <<Do("remove", {"hermes"})>>
UninstallAntigravity == <<Do("remove", {"antigravity"})>>
UninstallOpencode == <<>>

UninstallSteps(a) ==
    [claude |-> UninstallClaude, codex |-> UninstallCodex, gemini |-> UninstallGemini,
     kilo |-> UninstallKilo, cursor |-> UninstallCursor, windsurf |-> UninstallWindsurf,
     cline |-> UninstallCline, hermes |-> UninstallHermes, antigravity |-> UninstallAntigravity,
     opencode |-> UninstallOpencode][a]

\* `ig uninstall`.
RemoveClaudeConfig ==
    <<Do("remove", {"ig-guard.sh", "session-start.sh", "format.sh"}),
      Do("prune", UninstallMarks), Do("cut", "claude")>>
RemoveCodexConfig == <<Do("cut", "codex")>>
RemoveOpencodeConfig == <<Do("cut", "opencode"), Do("unlist", "opencode.json")>>
RemoveCursorConfig == <<Do("remove", {"cursor"})>>

\* run_uninstall, up to tracking data and the binary.
FullSteps ==
    LET of(a, steps) == IF a \in dirs THEN steps ELSE <<>>
    IN  of("claude", RemoveClaudeConfig) \o of("codex", RemoveCodexConfig)
        \o of("opencode", RemoveOpencodeConfig) \o of("cursor", RemoveCursorConfig)

---------------------------------------------------------------------------

Init ==
    /\ version = 1 /\ todo = <<>> /\ flawed = FALSE /\ settled = FALSE /\ gone = {} /\ cut = {} /\ baks = {}
    /\ budget = [commands |-> MaxCommands, upsets |-> MaxUpsets]
    /\ \E p \in Profiles :
         /\ dirs = p.dirs /\ olds = p.olds /\ rc = p.rc
         /\ md = [a \in Upserted \cup AppendedTo |-> p.text]
         /\ settings = [parses |-> p.parses, perm |-> FALSE, hooks |-> p.hooks]
         /\ own = [f \in OwnFiles |-> IF f \in p.own THEN User ELSE Missing]
         /\ lists = [l \in Lists |-> [parses |-> p.parses, ig |-> FALSE]]

Begin(steps) ==
    /\ todo = <<>> /\ steps # <<>> /\ budget.commands > 0
    /\ todo' = steps /\ settled' = FALSE
    /\ budget' = [budget EXCEPT !.commands = @ - 1] /\ UNCHANGED <<flawed, cut>>

Setup == Begin(SetupSteps) /\ gone' = {} /\ UNCHANGED <<version, files>>

SetupDry == Begin(DrySetup) /\ gone' = {} /\ UNCHANGED <<version, files>>

\* run_update: the new binary is in place before it runs `ig setup --quiet`.
Update ==
    /\ version < MaxVersion /\ version' = version + 1
    /\ Begin(SetupSteps) /\ gone' = {} /\ UNCHANGED files

\* Most agents are skipped when they are not there, unless they may be created.
Installable(a, ctx) ==
    \/ ctx.auto_patch \/ a \in {"cursor", "windsurf", "cline", "gemini"}
    \/ IF a = "antigravity" THEN own[a] # Missing ELSE a \in dirs
    \/ ctx.dry_run /\ a \in {"claude", "codex", "opencode"}

Install(a, ctx) ==
    /\ Installable(a, ctx)
    /\ Begin(InstallSteps(a, ctx))
    /\ dirs' = IF ctx.dry_run THEN dirs ELSE dirs \cup {a}
    /\ gone' = gone \ {a}
    /\ UNCHANGED <<version, md, rc, settings, own, baks, olds, lists>>

Uninstall(a) == Begin(UninstallSteps(a)) /\ UNCHANGED <<version, files, gone>>

UninstallAll == Begin(FullSteps) /\ gone' = {} /\ UNCHANGED <<version, files>>

\* Whether the step in hand is the last of an `ig setup` that nothing disturbed, and of
\* which agent's uninstall.
Step ==
    /\ todo # <<>> /\ Perform(Head(todo)) /\ todo' = Tail(todo)
    /\ flawed' = (flawed /\ Tail(todo) # <<>>)
    /\ settled' = (Tail(todo) = <<>> /\ ~ flawed /\ Head(todo) = Do("shell", "rc"))
    /\ gone' = IF /\ Tail(todo) = <<>> /\ ~ flawed
                  /\ Head(todo).do = "prune" /\ Head(todo).file = AgentMarks
               THEN gone \cup {"claude"} ELSE gone
    /\ cut' = IF Head(todo).do = "cut" THEN cut \cup {Head(todo).file} ELSE cut
    /\ UNCHANGED <<version, budget>>

\* What cannot be written or removed stays as it is, and the next step comes.
StepFails ==
    /\ todo # <<>> /\ budget.upsets > 0
    /\ \/ UNCHANGED files \/ EmptyFile(Head(todo)) \/ Unread(Head(todo))
       \/ SomeScripts(Head(todo)) \/ SomeRemoved(Head(todo))
    /\ todo' = Tail(todo) /\ flawed' = (Tail(todo) # <<>>) /\ settled' = FALSE
    /\ budget' = [budget EXCEPT !.upsets = @ - 1]
    /\ UNCHANGED <<version, gone, cut>>

Die ==
    /\ todo # <<>> /\ todo' = <<>> /\ budget.upsets > 0
    /\ UNCHANGED files \/ EmptyFile(Head(todo)) \/ SomeScripts(Head(todo))
    /\ flawed' = FALSE /\ budget' = [budget EXCEPT !.upsets = @ - 1]
    /\ UNCHANGED <<version, settled, gone, cut>>

\* A user adds a line at the top, under the title or at the end of a rule file.
EditText(a) ==
    /\ \E i \in {1, 2, Len(md[a])} \cap DOMAIN md[a] : md[a][i] = NL
          /\ md' = [md EXCEPT ![a] = Upto(@, i) \o <<"u9", NL>> \o From(@, i + 1)]
    /\ UNCHANGED <<dirs, rc, settings, own, baks, olds, lists>>

EditScript ==
    /\ \E f \in Scripts : own[f] \in Versions /\ own' = [own EXCEPT ![f] = User]
    /\ UNCHANGED <<dirs, md, rc, settings, baks, olds, lists>>

\* What `ig hook-audit` and the daily check call drift: a script that is missing or
\* not this version's.
Drifted == {f \in Scripts : own[f] # version}

Edit ==
    /\ budget.upsets > 0 /\ todo = <<>>
    /\ (\E a \in Upserted : EditText(a)) \/ EditScript
    /\ budget' = [budget EXCEPT !.upsets = @ - 1]
    /\ settled' = FALSE /\ UNCHANGED <<version, todo, flawed, gone, cut>>

Contexts == {[dry_run |-> d, no_patch |-> n, hook_only |-> h, auto_patch |-> p] :
                d, n, h, p \in BOOLEAN}

Next ==
    \/ Setup \/ SetupDry \/ Update \/ UninstallAll \/ Step \/ StepFails \/ Die \/ Edit
    \/ \E a \in Targets : Uninstall(a) \/ \E ctx \in Contexts : Install(a, ctx)

Spec == Init /\ [][Next]_vars
---------------------------------------------------------------------------
(* Properties. They say nothing of a text that `ig uninstall` has cut: it takes the *)
(* section up to the next heading, user's lines included, and leaves the begin mark, *)
(* and a later setup replaces all that follows the mark.                             *)

\* The state is well formed; a text that was not cut has one whole block of ig's, or none
\* and at most one section of an older ig (upsert_managed_block).
STypeOK ==
    /\ version \in Versions /\ dirs \subseteq Agents
    /\ own \in [OwnFiles -> {User, Missing, Torn} \cup Versions] /\ baks \subseteq Scripts
    /\ settings \in [parses : BOOLEAN, perm : BOOLEAN, hooks : Seq(Hooks)]
    /\ \A a \in DOMAIN md \ cut : WellFormed(md[a])
    /\ gone \subseteq Agents /\ cut \subseteq DOMAIN md /\ settled \in BOOLEAN /\ flawed \in BOOLEAN

\* What of a text is the user's: all but ig's block, or the section an older ig wrote
\* up to the next heading; the file titles, which setup adds, and blank lines aside.
UsersText(s) ==
    LET b == Position(s, "begin")
        e == Position(s, "end")
        legacy == NextHeading(s, 1, {"tools"})
        rest == IF b > 0 /\ e > b THEN Upto(s, b - 1) \o From(s, e + 1)
                ELSE Upto(s, legacy - 1) \o From(s, NextHeading(s, legacy + 1, Heading))
    IN  Dropping(rest, {NL, "title"})

Unmarked(hooks) == Dropping(hooks, {h \in ToSet(hooks) : h.mark # "none"})

\* The step in hand fails, or the command dies in it.
Failing == StepFails \/ Die

\* No setup, however often, of whatever version, and no uninstall of one agent removes or
\* reorders what users wrote around ig's block, hooks of theirs that hold none of the words
\* ig looks for, or one of the rule files it writes only where there is none; a script of
\* theirs is kept as a backup. A step that fails, and a death, spoil no file but the one
\* that is being written. (setup/mod.rs:75 and the tests that look for the old content
\* after an update. It is not said of hooks that hold such a word, which
\* ensure_hook_registered overwrites and Claude's uninstall drops, nor of rules/ig.md.)
KeepsWhatIsTheUsers ==
    [][todo # <<>> =>
            /\ \A a \in DOMAIN md \ cut' :
                 \/ UsersText(md'[a]) = UsersText(md[a])
                 \/ Failing /\ Head(todo).do \in RuleSteps /\ Head(todo).file = a
            /\ \/ Unmarked(settings'.hooks) = Unmarked(settings.hooks)
               \/ Failing /\ Head(todo).do \in SettingsSteps
            /\ \A f \in Scripts :
                 own[f] = User /\ Head(todo).do # "remove" =>
                    own'[f] = User \/ f \in baks' \/ (Failing /\ Head(todo).do = "scripts")
            /\ \A f \in Once :
                 own[f] = User /\ Head(todo).do # "remove" => own'[f] = User]_vars

\* The line that ig's block begins, if it has been joined to the one before it: an
\* uninstall takes the line end before the block, also when that was there before ig.
Unjoined(s) ==
    LET b == Position(s, "begin")
    IN  IF b > 1 /\ s[b - 1] # NL THEN Upto(s, b - 1) \o <<NL>> \o From(s, b) ELSE s

\* Once `ig setup` has ended without a failing step and nobody has touched the files, every
\* later `ig setup` of the same version leaves them as they are, but for the line end an
\* uninstall took before the block, which the first one puts back: the texts do not grow.
SetupSettles ==
    settled =>
        /\ \A a \in (Upserted \cap dirs) \ cut :
             LET again == UpsertTitled(md[a], version, Titles[a])
             IN  again = Unjoined(md[a]) /\ UpsertTitled(again, version, Titles[a]) = again
        /\ \A a \in (AppendedTo \cap dirs) \ cut : AppendOnce(md[a], version) = md[a]
        /\ InstallShellHook(rc, version) = rc
        /\ settings.parses /\ "claude" \in dirs =>
                RegisterAll(settings.hooks, version) = settings.hooks

\* And then Claude's and Codex's rules hold this version's block once and no other, and
\* each of the hooks this version ships is what runs under its matcher.
SetupIsCurrent ==
    settled =>
        /\ \A a \in (Upserted \cap dirs) \ cut :
             /\ \E i \in 1 .. Len(md[a]) - 7 : SubSeq(md[a], i, i + 7) = Block(version) \o <<NL>>
             /\ Cardinality({i \in DOMAIN md[a] : md[a][i] \in {"tools", "old", "begin"}
                                              \/ md[a][i] \in {Body[v] : v \in Versions}}) = 3
        /\ settings.parses /\ "claude" \in dirs =>
             /\ ToSet(Shipped(version)) \subseteq ToSet(settings.hooks) /\ settings.perm
             /\ \A i \in DOMAIN settings.hooks : settings.hooks[i].mark \notin OldMarks
        /\ "claude" \in dirs => Drifted = {} /\ olds = {}

\* After `ig setup --agent claude --uninstall` ran to its end, no step of which failed, there
\* is no block, none of the three scripts and none of the hooks that the modelled versions
\* ship for Claude to run. What versions before them left (session-start.sh, `ig hold`, the
\* scripts ig-guard.sh replaced) stays: agents/claude.rs:117-147 does not name it.
UninstalledIsGone ==
    "claude" \in gone =>
        /\ "claude" \notin cut => Position(md["claude"], "begin") = 0
        /\ \A f \in Scripts : own[f] \in {Missing, User}
        /\ settings.parses =>
             \A v \in Versions : ToSet(Shipped(v)) \cap ToSet(settings.hooks) = {}
=============================================================================
