------------------------------- MODULE Commands -------------------------------
(***************************************************************************)
(* What ig does to commands and to their outputs, on growing inputs: a     *)
(* behaviour types one more character or word, adds one more rule, line,   *)
(* hunk, test or event, and the invariants compare what ig makes of it     *)
(* with what the shell, the tool or the reader would.                      *)
(***************************************************************************)
EXTENDS Inputs, ShellText, Rewriting, OutputFilter, ToolOutput, FiniteSetsExt

CONSTANTS
    Alphabets,              \* [part -> characters] for the parts that are texts
    MaxChars, MaxWords, MaxLines, MaxTests, MaxTotal, MaxRules,
    Vocabulary,             \* [first word -> the words that may follow]
    Tools,                  \* names with a parser of their own
    Builtin, Familiar, AllCommands,     \* rules and commands
    Texts, Filters          \* lines of an output and the filters they go through

Verdicts == {"deny", "ask", "allow"}

\* A text is no other input, and a built-in rule says one of the three.
ASSUME CommandsAssumption ==
    /\ DOMAIN Alphabets \cap {"args", "rules", "lines", "delta", "suites", "lints", "events"} = {}
    /\ Builtin \in Seq([matches : SUBSET AllCommands, verdict : Verdicts])

NoFile == [parses |-> TRUE, deny |-> <<>>, ask |-> <<>>, allow |-> <<>>]

CommandStart ==
    LET others == [args |-> <<>>, rules |-> [user |-> NoFile, project |-> NoFile], lines |-> <<>>,
                   delta |-> [total |-> 0, hunks |-> <<>>, signatures |-> {}],
                   suites |-> <<<<>>>>, lints |-> <<>>, events |-> <<>>] IN
    [p \in DOMAIN Alphabets \cup DOMAIN others |->
        IF p \in DOMAIN Alphabets THEN <<>> ELSE others[p]]

CommandInit == part \in Parts \cap DOMAIN CommandStart /\ input = CommandStart[part]

MoreText ==
    /\ part \in DOMAIN Alphabets /\ Len(input) < MaxChars[part]
    /\ \E c \in Alphabets[part] : input' = Append(input, c)
    /\ UNCHANGED part

MoreWords ==
    /\ part = "args" /\ Len(input) < MaxWords
    /\ \E w \in IF input = <<>> THEN DOMAIN Vocabulary ELSE Vocabulary[input[1]] :
          input' = Append(input, w)
    /\ UNCHANGED part

RulesOf(file) == Len(file.deny) + Len(file.ask) + Len(file.allow)

\* A user's or a project's file says one thing more, or is spoilt.
MoreRules ==
    /\ part = "rules"
    /\ \E whose \in {"user", "project"} :
          /\ input[whose].parses
          /\ \/ \E verdict \in Verdicts, cmd \in AllCommands :
                   /\ input[whose][verdict] = <<>>
                   /\ RulesOf(input.user) + RulesOf(input.project) < MaxRules
                   /\ input' = [input EXCEPT ![whose][verdict] = <<{cmd}>>]
             \/ input' = [input EXCEPT ![whose].parses = FALSE]
    /\ UNCHANGED part

MoreLines ==
    /\ part = "lines" /\ Len(input) < MaxLines
    /\ \E t \in Texts : input' = Append(input, TextLine(t))
    /\ UNCHANGED part

\* A line at the end, a hunk after the last one, or a line that begins a function.
MoreDelta ==
    /\ part = "delta"
    /\ \/ /\ input.total < MaxTotal /\ input.hunks = <<>> /\ input.signatures = {}
          /\ input' = [input EXCEPT !.total = @ + 1]
       \/ /\ Len(input.hunks) < 2
          /\ \E start \in 1 .. input.total, count \in 0 .. 2 :
                /\ start + count - 1 <= input.total
                /\ \A h \in ToSet(input.hunks) : h.start + h.count < start
                /\ input' = [input EXCEPT !.hunks = Append(@, [start |-> start, count |-> count])]
       \/ \E s \in 1 .. input.total :
             /\ Cardinality(input.signatures) < 2
             /\ input' = [input EXCEPT !.signatures = @ \cup {s}]
    /\ UNCHANGED part

Statuses == {"passed", "failed", "skipped"}

MoreTests ==
    /\ part = "suites" /\ Len(FlattenSeq(input)) < MaxTests
    /\ \E name \in {"t", "u"}, status \in Statuses :
          /\ name \notin {test.name : test \in ToSet(Last(input))}
          /\ LET test == [name |-> name, status |-> status] IN
             \/ input' = Append(Front(input), Append(Last(input), test))
             \/ Len(input) < 2 /\ input' = Append(input, <<test>>)
    /\ UNCHANGED part

MoreLints ==
    /\ part = "lints" /\ Len(input) < MaxTests
    /\ \E severity \in {"error", "warning"} : input' = Append(input, [name |-> "t", severity |-> severity])
    /\ UNCHANGED part

Packages == {"p", "q"}

\* Two packages with a test of the same name, whose events mingle: a test starts,
\* prints a line or none, and ends; its package ends after it.
MoreEvents ==
    /\ part = "events"
    /\ \E p \in Packages :
          LET mine == SelectSeq(input, LAMBDA e : e.pkg = p)
              last == IF mine = <<>> THEN None ELSE Last(mine) IN
          \/ mine = <<>> /\ input' = Append(input, Event(p, "t", "run", None))
          \/ /\ mine /= <<>> /\ last.action = "run"
             /\ input' = Append(input, Event(p, "t", "output", p))
          \/ /\ mine /= <<>> /\ last.action \in {"run", "output"}
             /\ \E end \in {"pass", "fail", "skip"} : input' = Append(input, Event(p, "t", end, None))
          \/ /\ mine /= <<>> /\ last.action \in {"pass", "fail", "skip"} /\ last.test /= None
             /\ input' = Append(input, Event(p, None, "pass", None))
    /\ UNCHANGED part

CommandNext ==
    \/ MoreText \/ MoreWords \/ MoreRules \/ MoreLines \/ MoreDelta \/ MoreTests \/ MoreLints \/ MoreEvents

CommandSpec == CommandInit /\ [][CommandNext]_vars

-----------------------------------------------------------------------------
(* Commands *)

\* A quoted argument reaches the program as the one word it is, whatever its
\* quotes, backslashes and blanks (shell_quote; its tests try a few).
QuotedIsOneWord ==
    part = "quote" => ShellReads(Quote(input)) = <<Word(input)>>

\* Texts that ig reads as the shell does: no backslash but one that protects,
\* between double quotes, a quote or a backslash, no & that stands alone, no
\* digit at the end of a word before >, and no command left open.
Understood(t) ==
    LET modes == Modes(t)
        out(i) == modes[i] = "out" IN
    /\ Last(modes) = "out"
    /\ \A i \in 1 .. Len(t) :
          /\ t[i] = "\\" => modes[i] \in {"'", "escape"} \/ (modes[i] = "\"" /\ t[i + 1] \in {"\"", "\\"})
          /\ t[i] = "&" /\ out(i) =>
                (i > 1 /\ t[i - 1] = "&" /\ out(i - 1)) /= (i < Len(t) /\ t[i + 1] = "&")
          /\ t[i] = "2" /\ out(i) /\ i > 1 /\ i < Len(t) => ~(t[i + 1] = ">" /\ ~Blank(t[i - 1]))

\* read: what the shell reads of a rewritten command; typed: of the one typed.
IsTheCommand(read, typed) ==
    LET pipe == SelectInSeq(read, LAMBDA w : w = Operator(<<"|">>)) IN
    /\ SelectSeq(read, LAMBDA w : w /= Word(<<"r">>)) = typed
    /\ pipe > 0 => \A i \in pipe .. Len(read) : read[i] /= Word(<<"r">>)

\* A rewritten command is the command with ig before the tools it knows: every
\* word, assignment, operator and redirect is there in its place, and nothing
\* that reads from a pipe is touched (try_rewrite).
RewriteKeepsTheCommand ==
    part \in {"compound", "redirects", "prefix"} /\ Understood(input) =>
        IsTheCommand(ShellReads(TryRewrite(input)), ShellReads(input))

\* A recursive grep with one path at most and -e, if any, before it is asked of
\* ig with the pattern and the path that grep would use (rewrite_grep).
GrepAsksTheSame ==
    part = "args" /\ input /= <<>> /\ input[1] = "grep" /\ RewriteGrep(input) /= None =>
        LET reads == GrepReads(input)
            inOrder == \A i \in 1 .. Len(input) : input[i] = "-e" =>
                           \A k \in 2 .. i : Dashed(input[k]) /\ (k < i => input[k] /= "-e") IN
        ~reads.open /\ Len(reads.paths) <= 1 /\ inOrder =>
            RewriteGrep(input).words
                = <<reads.pattern>> \o SelectSeq(reads.paths, LAMBDA p : p /= ".")

\* A find that names one root first is asked of ig under that root
\* (rewrite_find; the root was lost once, issue #4).
FindKeepsItsRoot ==
    part = "args" /\ input /= <<>> /\ input[1] = "find" /\ Len(FindRoots(input)) = 1 =>
        LET asked == RewriteFind(input) IN
        asked /= None =>
            asked.words[1] = IF FindRoots(input)[1] = "." THEN "--glob" ELSE FindRoots(input)[1]

\* The tool gets the words it was to get, in order, and after them what ig adds
\* (run.rs route_to_dedicated, the tools' build_argv).
Routed(words) == Route(Tools, words, FALSE)
Sent(words) == ArgvOf(Routed(words).sub, Routed(words).words)

RoutingKeepsTheArguments ==
    LET plain == /\ "--" \notin ToSet(input)
                 /\ Len(SelectSeq(input, LAMBDA w : w = "test")) <= 1
                 /\ input[1] = "ruff" => Len(input) >= 2 /\ input[2] = "check" IN
    part = "args" /\ input /= <<>> /\ input[1] \in Tools /\ plain /\ DedicatedTool(Tools, input) /= None =>
        IsPrefix(input, Sent(input))

\* The same of every command line: a tool's own subcommand stays what it was, and
\* what ig adds stands before "--", where the tool looks for it. It does not hold:
\* --no-fail-fast goes behind the user's "--" (cmds/test/cargo_test.rs:95-110).
CommandReachesTheTool ==
    part = "args" /\ input /= <<>> /\ input[1] \in Tools /\ DedicatedTool(Tools, input) /= None =>
        LET dashes == SelectInSeq(input, LAMBDA w : w = "--")
            own == IF dashes = 0 THEN Len(input) ELSE dashes - 1 IN
        /\ IsPrefix(SubSeq(input, 1, own), Sent(input))
        /\ IsSuffix(SubSeq(input, own + 1, Len(input)), Sent(input)) \/ dashes = 0

\* Whatever ig rewrites or routes still does what was typed: words, operators,
\* redirects, patterns, roots and arguments (rewrite.rs, cmds/run.rs).
CommandsKeepTheirMeaning ==
    /\ QuotedIsOneWord /\ RewriteKeepsTheCommand
    /\ GrepAsksTheSame /\ FindKeepsItsRoot /\ RoutingKeepsTheArguments

Verdict(user, project, cmd) ==
    RunRewrite(Load(Builtin, user, project), cmd, cmd[1] \in Familiar, FALSE).code

Says(file, verdict, cmd) == file.parses /\ \E i \in 1 .. Len(file[verdict]) : cmd \in file[verdict][i]

\* What a built-in rule blocks stays blocked, what needs a question still needs
\* one, and what any file that parses denies is blocked (permissions.rs).
FilesOnlyTighten ==
    part = "rules" => \A cmd \in AllCommands :
        LET with == Verdict(input.user, input.project, cmd)
            without == Verdict(NoFile, NoFile, cmd) IN
        /\ Check(Builtin, cmd) = "deny" => with = 2
        /\ without /= 0 => with /= 0
        /\ (\E whose \in {"user", "project"} : Says(input[whose], "deny", cmd)) => with = 2

-----------------------------------------------------------------------------
(* Outputs *)

Stands(ls) == FoldLeft(LAMBDA n, l : n + l.n, 0, ls)

\* Nothing disappears without a trace: equal lines become one that says how many
\* they were, and after the limits the lines and the gaps' numbers make up what
\* the limits were given, the empty line that ends a text apart.
FilteredIsAccounted ==
    part = "lines" =>
        /\ Stands(DedupConsecutive(input)) = Len(Lines(input))
        /\ \A f \in Filters :
              LET given == [i \in 1 .. Len(Select(f, input)) |-> [Select(f, input)[i] EXCEPT !.n = 1]]
                  limited == Limit(f, given) IN
              (given = <<>> \/ ~Empty(Last(given))) =>
                  Stands(limited) = Len(given)

\* Every changed line that is still there is shown as changed, every line at most
\* once and in order, and between two that are shown the gap says how many are
\* missing (parse_delta).
DeltaShowsTheChanges ==
    part = "delta" =>
        LET out == ParseDelta(input.total, input.hunks, input.signatures)
            shown == SelectSeq(out, LAMBDA l : l.kind /= "gap")
            changed == UNION {h.start .. h.start + h.count - 1 : h \in ToSet(input.hunks)} IN
        /\ {l.line : l \in {x \in ToSet(out) : x.kind = "changed"}} = changed
        /\ \A i \in 1 .. Len(shown) - 1 : shown[i].line < shown[i + 1].line
        /\ \A i \in 2 .. Len(out) : out[i].kind = "gap" =>
              out[i].line = out[i + 1].line - out[i - 1].line - 1

Count(status) == Len(SelectSeq(FlattenSeq(input), LAMBDA t : t.status = status))
Fails == NamesOf(SelectSeq(FlattenSeq(input), LAMBDA t : t.status = "failed"))

FailsByPackage ==
    FlattenSeq([i \in 1 .. Len(input) |->
        LET bad == SelectSeq(input[i], LAMBDA t : t.status = "failed") IN
        [k \in 1 .. Len(bad) |-> <<i, bad[k].name>>]])

Runners == {"vitest", "jest", "playwright", "rspec", "pytest", "cargo_test", "go_test"}

\* Whatever a runner prints of two files' tests, ig counts each of them once
\* under its outcome and names those that failed, a filter or none; what it shows
\* and the exit code it passes on agree (cmds/test, internal_parse).
TestsAreCounted ==
    part = "suites" =>
        \A tool \in Runners : \A prints \in {Prints(tool, input)} :
        \A ran \in {Run(tool, prints, filter) : filter \in BOOLEAN} :
        LET parsed == ran.shown IN
        FlattenSeq(input) /= <<>> =>
            /\ parsed.outcome = "full" /\ parsed = Parse(tool, prints.stdout)
            /\ <<parsed.passed, parsed.failed, parsed.skipped>>
                 = <<Count("passed"), Count("failed"), Count("skipped")>>
            /\ parsed.names = IF tool = "go_test" THEN FailsByPackage ELSE Fails
            /\ ran.exit = 0 <=> parsed.failed = 0

Linters == {"eslint", "biome", "ruff", "rubocop", "golangci-lint", "tsc", "mypy"}

\* Each finding of a linter is counted once, as the error or the warning the
\* linter calls it, ruff's and tsc's all as errors where they know no other; and a
\* linter that dies with a message is never reported clean (cmds/lint).
LintsAreCounted ==
    part = "lints" =>
        \A tool \in Linters : \A prints \in {LintPrints(tool, input)} :
        \A ran \in {Run(tool, prints, FALSE)} :
        LET parsed == ran.shown
            errors == Len(SelectSeq(input, LAMBDA d : d.severity = "error")) IN
        /\ parsed.outcome = "full" /\ Len(parsed.names) = Len(input)
        /\ parsed.failed + parsed.skipped = Len(input)
        /\ tool /= "ruff" => parsed.failed = errors
        /\ ran.exit = 0 <=> parsed.failed + parsed.skipped = 0
        /\ Run(tool, Dies, FALSE).shown.outcome = "passthrough"
        /\ Run(tool, Dies, TRUE).shown.raw = Merged(Dies)

\* However the packages' events mingle, each test that ended is counted under its
\* outcome, and a failure comes with a line that its own test printed (go_test.rs).
GoCountsEachTest ==
    part = "events" =>
        LET out == GoTest(input)
            ended(action) == Len(SelectSeq(input, LAMBDA e : e.action = action /\ e.test /= None)) IN
        /\ out.pass = ended("pass") /\ out.skip = ended("skip") /\ Len(out.fails) = ended("fail")
        /\ \A f \in ToSet(out.fails) : f.line \in {None, f.name[1]}
              /\ (\E e \in ToSet(input) : e.action = "output" /\ e.pkg = f.name[1]) => f.line /= None

\* An output is accounted for: each line, change, test and finding is shown, counted
\* or said to be missing (filter/, delta.rs, cmds/).
OutputsAreAccounted ==
    /\ FilteredIsAccounted /\ DeltaShowsTheChanges
    /\ TestsAreCounted /\ LintsAreCounted /\ GoCountsEachTest

\* A run that nobody could parse is shown with everything the tool said.
UnparsedIsShown ==
    part = "lints" => \A tool \in Linters \cup {"vitest", "cargo_test"} :
        LET parsed == Run(tool, Dies, FALSE).shown IN
        parsed.outcome = "passthrough" => parsed.raw = Merged(Dies)
=============================================================================
