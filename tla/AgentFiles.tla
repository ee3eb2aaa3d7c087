----------------------------- MODULE AgentFiles -----------------------------
(***************************************************************************)
(* The edits `ig setup` and `ig uninstall` make in files of other          *)
(* programs: markdown rule files, shell start-up files and the hook lists  *)
(* of settings.json.                                                       *)
(*                                                                         *)
(* A text is a sequence of tokens. "nl" is a line end, every other token   *)
(* the content of a line or a piece of one: the markers, the headings the  *)
(* code looks for, the body of ig's section, and users' lines.             *)
(***************************************************************************)
EXTENDS Integers, SequencesExt

CONSTANTS
    Words,   \* what users write: contents of lines, matchers and commands of hooks
    Body     \* [version -> the body of the section it ships]

NL == "nl"
Fixed == {NL, "begin", "end", "tools", "old", "title", "anchor", "head", "open", "close"}
Tokens == Words \cup Fixed \cup {Body[v] : v \in DOMAIN Body}

\* The body holds no marker and no other line the code looks for, and is not a user's.
BodyAssumption == \A v \in DOMAIN Body : Body[v] \notin Fixed \cup Words
ASSUME BodyAssumption

\* IG_SEARCH_TOOLS_SECTION as version v ships it.
Block(v) == <<"begin", NL, "tools", NL, Body[v], NL, "end">>
Section(v) == <<NL>> \o Block(v) \o <<NL>>
Heading == {"tools", "head"}      \* lines that start with "## "
Title == {"title", "anchor"}      \* lines that start with "# "

At(s, i) == IF i \in DOMAIN s THEN s[i] ELSE "none"
Upto(s, i) == SubSeq(s, 1, i)
From(s, i) == SubSeq(s, i, Len(s))
Position(s, tok) == SelectInSeq(s, LAMBDA x: x = tok)

\* Where the first heading of a set after position i starts, past the last token if
\* there is none: the line end before it counts as part of what is looked for.
NextHeading(s, i, set) ==
    LET found == {j \in i .. Len(s) : s[j] = NL /\ At(s, j + 1) \in set}
    IN  IF found = {} THEN Len(s) + 1 ELSE Min(found) + 1

TrimEnd(s) == Upto(s, SelectLastInSeq(s, LAMBDA x: x # NL))
StartsTitled(s) == At(s, 1) \in Title

\* What a retain loop leaves of a list.
Dropping(s, set) ==
    LET kept[i \in 0 .. Len(s)] ==
            IF i = 0 THEN <<>>
            ELSE IF s[i] \in set THEN kept[i - 1] ELSE Append(kept[i - 1], s[i])
    IN  kept[Len(s)]

---------------------------------------------------------------------------
(* The texts setup and uninstall find: with no trace of ig, with the block of some *)
(* version, or with the section an older ig wrote, up to the next heading.          *)

Traces == {"begin", "end", "tools", "old"} \cup {Body[v] : v \in DOMAIN Body}
Bare(s) == \A i \in DOMAIN s : s[i] \notin Traces

Blocked(s) ==
    \E i \in 1 .. Len(s) - 6, v \in DOMAIN Body :
        SubSeq(s, i, i + 6) = Block(v) /\ Bare(Upto(s, i - 1)) /\ Bare(From(s, i + 7))

Sectioned(s) ==
    \E i \in DOMAIN s :
        LET next == NextHeading(s, i + 1, Heading)
        IN  /\ s[i] = "tools" /\ At(s, i - 1) = NL
            /\ Bare(Upto(s, i - 1)) /\ Bare(From(s, next))
            /\ \A j \in i + 1 .. next - 1 : s[j] \notin Traces \ {"old"}

WellFormed(s) == s \in Seq(Tokens) /\ (Bare(s) \/ Blocked(s) \/ Sectioned(s))

---------------------------------------------------------------------------
(* Markdown *)

\* MUTANT: the line end after the block is kept with the text that follows.
UpsertKeepingLineEnd(s, v, anchor) ==
    LET b == Position(s, "begin")
        e == Position(s, "end")
        legacy == NextHeading(s, 1, {"tools"})
        block == Block(v) \o <<NL>>
    IN  IF b > 0 /\ e > b THEN Upto(s, b - 1) \o block \o From(s, e + 1)
        ELSE IF legacy <= Len(s)
        THEN Upto(s, legacy - 1) \o block \o From(s, NextHeading(s, legacy + 1, Heading))
        ELSE TrimEnd(s) \o Section(v)

\* MUTANT: a section an older version wrote is replaced up to the end of the file.
UpsertToTheEnd(s, v, anchor) ==
    LET b == Position(s, "begin")
        e == Position(s, "end")
        legacy == NextHeading(s, 1, {"tools"})
        block == Block(v) \o <<NL>>
    IN  IF b > 0 /\ e > b
        THEN Upto(s, b - 1) \o block \o From(s, IF At(s, e + 1) = NL THEN e + 2 ELSE e + 1)
        ELSE IF legacy <= Len(s) THEN Upto(s, legacy - 1) \o block
        ELSE TrimEnd(s) \o Section(v)

\* upsert_managed_block: between the markers, else over a section older versions
\* wrote, else before the anchor, else at the end.
Upsert(s, v, anchor) ==
    LET b == Position(s, "begin")
        e == Position(s, "end")
        legacy == NextHeading(s, 1, {"tools"})
        a == Position(s, anchor)
        block == Block(v) \o <<NL>>
    IN  CASE b > 0 /\ e > b ->
                Upto(s, b - 1)
                \o (IF b > 1 /\ s[b - 1] # NL THEN <<NL>> ELSE <<>>)
                \o block \o From(s, IF At(s, e + 1) = NL THEN e + 2 ELSE e + 1)
          [] ~ (b > 0 /\ e > b) /\ legacy <= Len(s) ->
                Upto(s, legacy - 1) \o block \o From(s, NextHeading(s, legacy + 1, Heading))
          [] ~ (b > 0 /\ e > b) /\ legacy > Len(s) ->
                IF s = <<>> THEN Section(v)
                ELSE IF a > 0 THEN Upto(s, a - 1) \o block \o From(s, a)
                ELSE TrimEnd(s) \o Section(v)

\* configure_claude_md and configure_codex_agents_md.
WithTitle(s) == IF StartsTitled(s) THEN s ELSE <<"title", NL>> \o s

UpsertTitled(s, v, anchor) ==
    LET new == Upsert(s, v, anchor) IN IF new = s THEN s ELSE WithTitle(new)

\* configure_gemini, configure_kilo and the AGENTS.md of configure_opencode: once.
AppendOnce(s, v) ==
    IF Position(s, "tools") > 0 THEN s
    ELSE IF s = <<>> THEN <<"title", NL>> \o Section(v)
    ELSE TrimEnd(s) \o <<NL>> \o Section(v)

\* MUTANT: the block is cut up to its end marker, not with it.
StripToMarker(s) ==
    LET b == Position(s, "begin")
        e == Position(s, "end")
    IN  IF b = 0 \/ e < b THEN s ELSE Upto(s, b - 1) \o From(s, e)

\* strip_managed_block, with the line end after the block and the one before it.
Strip(s) ==
    LET b == Position(s, "begin")
        e == Position(s, "end")
    IN  IF b = 0 \/ e < b THEN s
        ELSE Upto(s, IF At(s, b - 1) = NL THEN b - 2 ELSE b - 1)
             \o From(s, IF At(s, e + 1) = NL THEN e + 2 ELSE e + 1)

\* remove_search_tools_section: from the heading to the next one, markers or not.
RemoveSection(s) ==
    LET t == Position(s, "tools")
        next == NextHeading(s, t + 1, Heading)
        kept == Upto(s, t - 1) \o From(s, next - 1)
        squeezed == FoldLeft(LAMBDA acc, x:
                        IF x = NL /\ Len(acc) > 1 /\ Last(acc) = NL /\ Last(Front(acc)) = NL
                        THEN acc ELSE Append(acc, x), <<>>, kept)
    IN  IF t = 0 THEN s ELSE TrimEnd(squeezed) \o <<NL>>

---------------------------------------------------------------------------
(* Shell start-up files *)

\* Every hook that was begun is whole.
Closed(s) == /\ s \in Seq(Tokens)
             /\ \A i \in DOMAIN s : s[i] = "open" => \E j \in i .. Len(s) : s[j] = "close"

ShellHook(v) == <<"open", NL, Body[v], NL, "close">>

\* replace_managed_shell_hook and install_shell_hook.
InstallShellHook(s, v) ==
    LET o == Position(s, "open")
        closes == {j \in o .. Len(s) : o > 0 /\ s[j] = "close"}
    IN  IF closes # {} THEN Upto(s, o - 1) \o ShellHook(v) \o From(s, Min(closes) + 1)
        ELSE IF s = <<>> THEN ShellHook(v) \o <<NL>>
        ELSE TrimEnd(s) \o <<NL>> \o ShellHook(v) \o <<NL>>

---------------------------------------------------------------------------
(* settings.json: hooks are [at: event and matcher, mark: what the command
   contains, cmd: the command itself] *)

\* MUTANT: a hook that is there is left alone.
RegisterOnce(hooks, h) ==
    IF \E i \in DOMAIN hooks : hooks[i].at = h.at /\ hooks[i].mark = h.mark
    THEN hooks ELSE Append(hooks, h)

\* ensure_hook_registered: the first command under the matcher that contains the
\* marker is replaced, whoever wrote it.
Register(hooks, h) ==
    LET i == SelectInSeq(hooks, LAMBDA x: x.at = h.at /\ x.mark = h.mark)
    IN  IF i = 0 THEN Append(hooks, h) ELSE [hooks EXCEPT ![i].cmd = h.cmd]

\* The retain loops of configure_claude_hooks_full, clean_settings_json and
\* Claude::uninstall.
Without(hooks, marks) == Dropping(hooks, {h \in ToSet(hooks) : h.mark \in marks})

OldMarks == {"ig-rewrite.sh", "prefer-ig.sh", "find-rewrite.sh", "ig hold",
             "session-start.sh"}
UninstallMarks == {"ig-guard.sh", "format.sh", "session-start.sh", "Use ig via Bash",
                   "Destructive git", "bun/bunx", "secret", ".env"}
\* MUTANT: the markers of `ig uninstall`.
AgentMarksOfUninstall == UninstallMarks

AgentMarks == (UninstallMarks \ {"session-start.sh"}) \cup {"subagent-context.sh"}

\* What configure_claude_hooks_full registers, in its order. The one-liners change
\* between versions, the paths of scripts do not.
Shipped(v) ==
    LET hook(at, mark, cmd) == [at |-> at, mark |-> mark, cmd |-> cmd]
    IN  << hook("Bash", "Destructive git", v), hook("Bash", "bun/bunx", v),
           hook("Bash", "ig-guard.sh", 0), hook("Grep", "Use ig via Bash", v),
           hook("Write", "format.sh", 0), hook("Write", ".env", v),
           hook("Prompt", "secret", v), hook("Subagent", "subagent-context.sh", 0) >>

RegisterAll(hooks, v) ==
    LET new == Shipped(v)
        after[i \in 0 .. Len(new)] ==
            IF i = 0 THEN Without(hooks, OldMarks) ELSE Register(after[i - 1], new[i])
    IN  after[Len(new)]
=============================================================================
