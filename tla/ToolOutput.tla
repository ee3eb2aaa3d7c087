------------------------------ MODULE ToolOutput ------------------------------
(***************************************************************************)
(* The wrappers of test runners and linters (cmds/test, cmds/lint): what   *)
(* each asks its tool for, which stream it reads, what it makes of it, and *)
(* what it falls back to.  A stream is a sequence of records, each a line  *)
(* or a report in JSON; the second half says what the tools print.         *)
(***************************************************************************)
EXTENDS Naturals, SequencesExt, Optional

CONSTANT PathLike       \* words that begin with a dot or have a slash

Line(kind, name, n) == [kind |-> kind, name |-> name, n |-> n]
JsonLine(report) == [kind |-> "json", report |-> report]

Merged(run) == run.stdout \o run.stderr

\* The one report in a stream, with or without noise around it.
Report(stream) ==
    LET i == SelectInSeq(stream, LAMBDA l : l.kind = "json") IN
    IF i = 0 THEN None ELSE stream[i].report

Full(passed, failed, skipped, names) ==
    [outcome |-> "full", passed |-> passed, failed |-> failed, skipped |-> skipped,
     names |-> names, raw |-> <<>>]

Failed(stream) ==
    [outcome |-> "passthrough", passed |-> 0, failed |-> 0, skipped |-> 0, names |-> <<>>, raw |-> stream]

Lint(errors, warnings, messages) == Full(0, errors, warnings, messages)

Having(seq, field, value) == SelectSeq(seq, LAMBDA x : x[field] = value)
NamesOf(seq) == [i \in 1 .. Len(seq) |-> seq[i].name]

-----------------------------------------------------------------------------
(* Test runners *)

FailedNames(files) == NamesOf(Having(FlattenSeq(files), "status", "failed"))

\* Vitest and jest give the same report.
Vitest(stream) ==
    LET j == Report(stream) IN
    IF j = None THEN Failed(stream) ELSE Full(j.passed, j.failed, j.pending, FailedNames(j.files))

Jest(stream) == Vitest(stream)

\* Suites nest: a suite has its specs and, one level down, its suites.
CollectFailures(suites) ==
    FlattenSeq([i \in 1 .. Len(suites) |->
        LET bad(specs) == NamesOf(Having(specs, "ok", FALSE)) IN
        bad(suites[i].specs)
            \o FlattenSeq([k \in 1 .. Len(suites[i].suites) |-> bad(suites[i].suites[k].specs)])])

Playwright(stream) ==
    LET j == Report(stream) IN
    IF j = None THEN Failed(stream)
    ELSE Full(j.expected, j.unexpected + j.flaky, j.skipped, CollectFailures(j.suites))

Minus(a, b) == IF a > b THEN a - b ELSE 0

Rspec(stream) ==
    LET j == Report(stream) IN
    IF j = None THEN Failed(stream)
    ELSE Full(Minus(j.count, j.failures + j.pending), j.failures, j.pending, FailedNames(<<j.examples>>))

\* The last line that mentions an outcome gives the counts; FAILED lines, wherever
\* they stand, give the names.
Pytest(stream) ==
    LET last == SelectLastInSeq(stream, LAMBDA l : l.kind \in {"summary", "mention"})
        counts == IF last = 0 \/ stream[last].kind = "mention" THEN None ELSE stream[last].n IN
    IF counts = None \/ counts.passed + counts.failed + counts.skipped = 0 THEN Failed(stream)
    ELSE Full(counts.passed, counts.failed, counts.skipped, NamesOf(Having(stream, "kind", "FAILED")))

SumOver(seq, Of(_)) == FoldLeft(LAMBDA n, x : n + Of(x), 0, seq)

\* Mutant: a blank line does not close the block.
CargoNamesUnclosed(all) ==
    LET step(s, l) ==
            CASE l.kind = "failures:" -> [s EXCEPT !.open = ~@]
              [] l.kind = "name" /\ s.open -> [s EXCEPT !.names = Append(@, l.name)]
              [] OTHER -> s IN
    FoldLeft(step, [open |-> FALSE, names |-> <<>>], all).names

\* Every result line counts; the names stand in the blocks that "failures:" opens
\* and a blank line or another "failures:" closes.
CargoNames(all) ==
    LET step(s, l) ==
            CASE l.kind = "failures:" -> [s EXCEPT !.open = ~@]
              [] l.kind = "blank" -> [s EXCEPT !.open = FALSE]
              [] l.kind = "name" /\ s.open -> [s EXCEPT !.names = Append(@, l.name)]
              [] OTHER -> s IN
    FoldLeft(step, [open |-> FALSE, names |-> <<>>], all).names

CargoTest(stream) ==
    LET results == Having(stream, "kind", "result") IN
    IF results = <<>> THEN Failed(stream)
    ELSE Full(SumOver(results, LAMBDA l : l.n.passed), SumOver(results, LAMBDA l : l.n.failed),
              SumOver(results, LAMBDA l : l.n.skipped), CargoNames(stream))

\* Mutant: tests of the same name share their output.
GoStepByTest(s, e) ==
    CASE e.test = None -> s
      [] e.test /= None /\ e.action = "output" ->
            [s EXCEPT !.buffers = (e.test :> IF e.test \in DOMAIN @ THEN Append(@[e.test], e.line)
                                            ELSE <<e.line>>) @@ @]
      [] e.test /= None /\ e.action \in {"pass", "skip"} ->
            [s EXCEPT ![e.action] = @ + 1, !.buffers = [k \in DOMAIN @ \ {e.test} |-> @[k]]]
      [] e.test /= None /\ e.action = "fail" ->
            [s EXCEPT !.fails = Append(@, [name |-> <<e.pkg, e.test>>,
                                           line |-> IF e.test \in DOMAIN s.buffers
                                                    THEN Head(s.buffers[e.test]) ELSE None]),
                      !.buffers = [k \in DOMAIN @ \ {e.test} |-> @[k]]]
      [] OTHER -> s

\* Events of packages that run at the same time, each under the key of its
\* package and test; one of a package as a whole has no test and is not counted.
\* A failure comes with the first line its own output had.
GoStep(s, e) ==
    LET key == <<e.pkg, e.test>> IN
    CASE e.test = None -> s
      [] e.test /= None /\ e.action = "output" ->
            [s EXCEPT !.buffers = (key :> IF key \in DOMAIN @ THEN Append(@[key], e.line)
                                         ELSE <<e.line>>) @@ @]
      [] e.test /= None /\ e.action \in {"pass", "skip"} ->
            [s EXCEPT ![e.action] = @ + 1, !.buffers = [k \in DOMAIN @ \ {key} |-> @[k]]]
      [] e.test /= None /\ e.action = "fail" ->
            [s EXCEPT !.fails = Append(@, [name |-> key, line |-> IF key \in DOMAIN s.buffers
                                                                 THEN Head(s.buffers[key]) ELSE None]),
                      !.buffers = [k \in DOMAIN @ \ {key} |-> @[k]]]
      [] OTHER -> s

\* What is no event is skipped.
GoTest(stream) ==
    FoldLeft(GoStep, [pass |-> 0, skip |-> 0, fails |-> <<>>, buffers |-> <<>>],
             Having(stream, "kind", "event"))

GoResult(stream) ==
    LET go == GoTest(stream) IN
    IF Having(stream, "kind", "event") = <<>> THEN Failed(stream)
    ELSE Full(go.pass, Len(go.fails), go.skip, NamesOf(go.fails))

-----------------------------------------------------------------------------
(* Linters *)

Severity(messages, severities) == Len(SelectSeq(messages, LAMBDA m : m.severity \in severities))

Eslint(stream) ==
    LET j == Report(stream) IN
    IF j = None THEN Failed(stream)
    ELSE Lint(Severity(j.messages, {2}), Severity(j.messages, {1}), NamesOf(j.messages))

\* The summary's counts, when it has any, take the place of those counted.
Biome(stream) ==
    LET j == Report(stream)
        counted == j.summary = None \/ j.summary = <<0, 0>> IN
    IF j = None THEN Failed(stream)
    ELSE Lint(IF counted THEN Severity(j.messages, {"error", "fatal"}) ELSE j.summary[1],
              IF counted THEN Severity(j.messages, {"warn"}) ELSE j.summary[2],
              NamesOf(j.messages))

Ruff(stream) ==
    LET j == Report(stream) IN
    IF j = None THEN Failed(stream) ELSE Lint(Len(j.messages), 0, NamesOf(j.messages))

Rubocop(stream) ==
    LET j == Report(stream)
        errors == Severity(j.messages, {"error", "fatal"}) IN
    IF j = None THEN Failed(stream) ELSE Lint(errors, Len(j.messages) - errors, NamesOf(j.messages))

Golangci(stream) ==
    LET j == Report(stream)
        errors == Severity(j.messages, {"error"}) IN
    IF j = None THEN Failed(stream) ELSE Lint(errors, Len(j.messages) - errors, NamesOf(j.messages))

\* Lines of a diagnostic; without any, the count of a "Found n errors" line, or
\* nothing at all when there was nothing to read.
Tsc(stream) ==
    LET messages == Having(stream, "kind", "diagnostic")
        found == Having(stream, "kind", "found") IN
    CASE messages /= <<>> ->
            Lint(Severity(messages, {"error"}), Severity(messages, {"warning"}), NamesOf(messages))
      [] messages = <<>> /\ found /= <<>> -> Lint(found[1].n, 0, <<>>)
      [] messages = <<>> /\ found = <<>> /\ stream = <<>> -> Lint(0, 0, <<>>)
      [] OTHER -> Failed(stream)

\* Mutant: no diagnostics are taken for none found.
MypyClean(stream) ==
    LET messages == Having(stream, "kind", "diagnostic") IN
    Lint(Severity(messages, {"error"}), Severity(messages, {"warning"}), NamesOf(messages))

Mypy(stream) ==
    LET messages == Having(stream, "kind", "diagnostic") IN
    IF messages = <<>> /\ stream /= <<>> /\ Having(stream, "kind", "success") = <<>> THEN Failed(stream)
    ELSE Lint(Severity(messages, {"error"}), Severity(messages, {"warning"}), NamesOf(messages))

\* Never fails to parse: what is no warning is nothing.
Prettier(stream) ==
    LET messages == Having(stream, "kind", "warn") IN
    Lint(0, Len(messages), NamesOf(messages))

-----------------------------------------------------------------------------
(* The command lines *)

\* Mutant: the tool's own name is said twice.
Unchanged(args, name) == args

Without(args, name) == IF args /= <<>> /\ Head(args) = name THEN Tail(args) ELSE args

\* The tool's own name and subcommand are not said twice, the subcommand it needs
\* is put in, and what gives the output its form is added unless the user gave one.
Argv(tool, subs, always, form, args) ==
    LET own == Without(args, tool)
        user == IF always THEN Without(own, Head(subs)) ELSE own
        sub == CASE subs = <<>> -> <<>>
                 [] subs /= <<>> /\ always -> <<Head(subs)>>
                 [] OTHER -> IF user /= <<>> /\ Head(user) \in ToSet(subs) THEN <<>> ELSE <<Head(subs)>> IN
    <<tool>> \o sub \o user \o SelectSeq(form, LAMBDA w : w \notin ToSet(args))

\* A go test without a path is one of all packages.
GoArgv(args) ==
    Argv("go", <<"test">>, TRUE, <<"-json">>, args)
        \o (IF ToSet(args) \cap PathLike = {} THEN <<"./...">> ELSE <<>>)

CargoArgv(args) == Argv("cargo", <<"test">>, TRUE, <<"--no-fail-fast">>, args)
PlaywrightArgv(args) == Argv("playwright", <<"test">>, TRUE, <<"--reporter=json">>, args)
BiomeArgv(args) == Argv("biome", <<"check", "lint", "format">>, FALSE, <<"--reporter=json">>, args)
GolangciArgv(args) == Argv("golangci-lint", <<"run">>, FALSE, <<"--out-format=json">>, args)
RuffArgv(args) == Argv("ruff", <<"check">>, FALSE, <<"--output-format=json">>, args)
VitestArgv(args) == Argv("vitest", <<>>, FALSE, <<"--reporter=json">>, args)
JestArgv(args) == Argv("jest", <<>>, FALSE, <<"--json">>, args)
EslintArgv(args) == Argv("eslint", <<>>, FALSE, <<"--format=json">>, args)
RspecArgv(args) == Argv("rspec", <<>>, FALSE, <<"--format=json">>, args)
RubocopArgv(args) == Argv("rubocop", <<>>, FALSE, <<"--format=json">>, args)
PrettierArgv(args) == Argv("prettier", <<>>, FALSE, <<"--check">>, args)
TscArgv(args) == Argv("tsc", <<>>, FALSE, <<"--noEmit">>, args)
                 \o (IF "--pretty" \in ToSet(args) THEN <<>> ELSE <<"--pretty", "false">>)
PytestArgv(args) == Argv("pytest", <<>>, FALSE, <<"--tb=short", "-q">>, args)
MypyArgv(args) == Argv("mypy", <<>>, FALSE, <<>>, args)

ArgvOf(tool, args) ==
    CASE tool = "go-test" -> GoArgv(args)
      [] tool = "cargo-test" -> CargoArgv(args)
      [] tool = "playwright" -> PlaywrightArgv(args)
      [] tool = "biome" -> BiomeArgv(args)
      [] tool = "golangci-lint" -> GolangciArgv(args)
      [] tool = "ruff" -> RuffArgv(args)
      [] tool = "vitest" -> VitestArgv(args)
      [] tool = "jest" -> JestArgv(args)
      [] tool = "eslint" -> EslintArgv(args)
      [] tool = "rspec" -> RspecArgv(args)
      [] tool = "rubocop" -> RubocopArgv(args)
      [] tool = "prettier" -> PrettierArgv(args)
      [] tool = "tsc" -> TscArgv(args)
      [] tool = "pytest" -> PytestArgv(args)
      [] tool = "mypy" -> MypyArgv(args)
      [] OTHER -> <<tool>> \o args

\* The parsers alone, on what they are given (ig __parse).
Parse(tool, stream) ==
    CASE tool = "vitest" -> Vitest(stream)
      [] tool = "jest" -> Jest(stream)
      [] tool = "playwright" -> Playwright(stream)
      [] tool = "rspec" -> Rspec(stream)
      [] tool = "pytest" -> Pytest(stream)
      [] tool = "cargo_test" -> CargoTest(stream)
      [] tool = "go_test" -> GoResult(stream)
      [] tool = "eslint" -> Eslint(stream)
      [] tool = "biome" -> Biome(stream)
      [] tool = "ruff" -> Ruff(stream)
      [] tool = "rubocop" -> Rubocop(stream)
      [] tool = "golangci-lint" -> Golangci(stream)
      [] tool = "tsc" -> Tsc(stream)
      [] tool = "mypy" -> Mypy(stream)
      [] tool = "prettier" -> Prettier(stream)

ReadsMerged == {"pytest", "cargo_test", "tsc", "mypy", "prettier"}

\* What could not be parsed goes through the filter that matches, which is given
\* everything, or is shown as the parser got it.  The exit code is the tool's, and
\* that of a missing command without the tool.
Run(tool, run, filter) ==
    LET parsed == Parse(tool, IF tool \in ReadsMerged THEN Merged(run) ELSE run.stdout) IN
    IF run = None THEN [shown |-> None, exit |-> 127]
    ELSE [shown |-> IF parsed.outcome = "full" \/ ~filter THEN parsed ELSE [parsed EXCEPT !.raw = Merged(run)],
          exit |-> run.exit]

\* Rake hands specs to rspec in a project that has it and parses nothing itself.
Rake(run, filter, hasRspec, specs) ==
    IF hasRspec /\ specs THEN Run("rspec", run, filter)
    ELSE [shown |-> Failed(Merged(run)), exit |-> run.exit]

-----------------------------------------------------------------------------
(* What the tools print of their files' tests, each a name and a status *)

CountOf(tests, status) == Len(Having(tests, "status", status))

Counts(tests) == [passed |-> CountOf(tests, "passed"), failed |-> CountOf(tests, "failed"),
                  skipped |-> CountOf(tests, "skipped")]

Lined(kind, tests) == [i \in 1 .. Len(tests) |-> Line(kind, tests[i].name, 0)]

\* Jest and vitest alike, amid a line of noise.
JestPrints(files) ==
    LET c == Counts(FlattenSeq(files)) IN
    <<Line("other", "t", 0),
      JsonLine([passed |-> c.passed, failed |-> c.failed, pending |-> c.skipped, files |-> files])>>

\* The second file as a suite within the first's.
PlaywrightPrints(files) ==
    LET c == Counts(FlattenSeq(files))
        specs(tests) == [i \in 1 .. Len(tests) |-> [name |-> tests[i].name, ok |-> tests[i].status /= "failed"]]
        inner == [i \in 1 .. Len(files) - 1 |-> [specs |-> specs(files[i + 1]), suites |-> <<>>]] IN
    <<JsonLine([expected |-> c.passed, unexpected |-> c.failed, flaky |-> 0, skipped |-> c.skipped,
                suites |-> <<[specs |-> specs(files[1]), suites |-> inner]>>])>>

RspecPrints(files) ==
    LET c == Counts(FlattenSeq(files)) IN
    <<JsonLine([count |-> Len(FlattenSeq(files)), failures |-> c.failed, pending |-> c.skipped,
                examples |-> FlattenSeq(files)])>>

PytestPrints(files) ==
    Lined("FAILED", Having(FlattenSeq(files), "status", "failed"))
        \o <<Line("summary", "t", Counts(FlattenSeq(files)))>>

\* Crate after crate: what each failing test said under a heading of its own, then
\* the list of their names.
CratePrints(tests) ==
    LET bad == Having(tests, "status", "failed")
        blank == Line("blank", "", 0)
        said == FlattenSeq([i \in 1 .. Len(bad) |->
                    <<Line("header", bad[i].name, 0), Line("name", "text", 0), blank>>]) IN
    Lined("test", tests)
        \o (IF bad = <<>> THEN <<>>
            ELSE <<Line("failures:", "", 0), blank>> \o said
                     \o <<Line("failures:", "", 0)>> \o Lined("name", bad) \o <<blank>>)
        \o <<Line("result", "t", Counts(tests)), blank>>

Event(pkg, test, action, line) ==
    [kind |-> "event", pkg |-> pkg, test |-> test, action |-> action, line |-> line]

\* A package for each file: a test says a line and ends, the package after them.
GoPrints(files) ==
    LET ends == [passed |-> "pass", failed |-> "fail", skipped |-> "skip"]
        said(pkg, tests) == FlattenSeq([k \in 1 .. Len(tests) |->
            <<Event(pkg, tests[k].name, "output", "said"),
              Event(pkg, tests[k].name, ends[tests[k].status], None)>>]) IN
    FlattenSeq([i \in 1 .. Len(files) |-> Append(said(i, files[i]), Event(i, None, "pass", None))])

Prints(tool, files) ==
    [stdout |-> CASE tool \in {"vitest", "jest"} -> JestPrints(files)
                  [] tool = "playwright" -> PlaywrightPrints(files)
                  [] tool = "rspec" -> RspecPrints(files)
                  [] tool = "pytest" -> PytestPrints(files)
                  [] tool = "cargo_test" -> FlattenSeq([i \in 1 .. Len(files) |-> CratePrints(files[i])])
                  [] tool = "go_test" -> GoPrints(files),
     stderr |-> <<>>, exit |-> IF Having(FlattenSeq(files), "status", "failed") = <<>> THEN 0 ELSE 1]

\* What a linter prints of its findings, each with a name and a severity, eslint
\* with numbers; tsc prints nothing when there is none, prettier a line for each
\* file and one more for them all.
LintPrints(tool, found) ==
    LET numbers == [error |-> 2, warning |-> 1]
        spelt(d) == CASE tool = "eslint" -> [d EXCEPT !.severity = numbers[@]]
                      [] tool = "biome" /\ d.severity = "warning" -> [d EXCEPT !.severity = "warn"]
                      [] OTHER -> d
        line(kind, d) == [kind |-> kind, name |-> d.name, severity |-> d.severity]
        lines(kind) == [i \in 1 .. Len(found) |-> line(kind, found[i])] IN
    [stdout |->
        CASE tool \in {"eslint", "biome", "ruff", "rubocop", "golangci-lint"} ->
                <<JsonLine([messages |-> [i \in 1 .. Len(found) |-> spelt(found[i])], summary |-> None])>>
          [] tool = "tsc" -> lines("diagnostic")
          [] tool = "mypy" -> lines("diagnostic")
                \o <<Line(IF found = <<>> THEN "success" ELSE "found", "t", Len(found))>>
          [] tool = "prettier" -> lines("warn") \o (IF found = <<>> THEN <<Line("clean", "t", 0)>>
                                                    ELSE <<Line("warn", "t", 0)>>),
     stderr |-> <<>>, exit |-> IF found = <<>> THEN 0 ELSE 1]

\* A tool that dies before it has anything to report.
Dies == [stdout |-> <<>>, stderr |-> <<Line("other", "t", 0)>>, exit |-> 2]
=============================================================================
