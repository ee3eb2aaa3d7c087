------------------------------ MODULE Rewriting ------------------------------
(***************************************************************************)
(* What ig makes of a command's words (rewrite.rs), which commands it      *)
(* blocks or asks about (rewrite.rs, hooks/permissions.rs), how `ig run`   *)
(* routes a command (cmds/run.rs), and what the tools themselves read.     *)
(* A word is a string; the constants say what its characters would.        *)
(***************************************************************************)
EXTENDS Naturals, SequencesExt, Optional

CONSTANTS
    Letters,        \* [word -> its letters] for the words that begin with a dash
    LongOptions,    \* those that begin with two
    Globs,          \* words with *, ? or [
    Largest         \* names of code files over 8000 bytes

Dashed(p) == p \in DOMAIN Letters
Short(p, letter) == Dashed(p) /\ p \notin LongOptions /\ letter \in Letters[p]
Has(parts, letter) == \E i \in 1 .. Len(parts) : Short(parts[i], letter)
Holds(parts, words) == ToSet(parts) \cap words /= {}
Operands(parts) == SelectSeq(parts, LAMBDA p : ~Dashed(p))

Ig(sub, flags, words) == [sub |-> sub, flags |-> flags, words |-> words]

-----------------------------------------------------------------------------
(* The tools *)

RewriteCat(parts) ==
    IF Len(parts) /= 2 \/ Dashed(parts[2]) THEN None
    ELSE Ig("read", {IF parts[2] \in Largest THEN "-s" ELSE "--plain"}, <<parts[2]>>)

\* head and tail: the count is dropped, whichever end it counts from.
RewriteHead(parts) ==
    IF Len(parts) \in {2, 3} /\ ~Dashed(Last(parts)) THEN Ig("read", {}, <<Last(parts)>>) ELSE None

Flag(parts, letter, flag, long) == IF Has(parts, letter) \/ Holds(parts, long) THEN {flag} ELSE {}

GrepFlags(parts) ==
    Flag(parts, "i", "-i", {}) \cup Flag(parts, "F", "-F", {"--fixed-strings"})
        \cup Flag(parts, "l", "-l", {"--files-with-matches"})

\* Mutant: -e has no say in it.
PatternAndPathOnly(parts, role) ==
    LET ops == Operands(Tail(parts)) IN
    [next |-> None, type |-> None, pattern |-> IF ops = <<>> THEN None ELSE ops[1],
     path |-> IF Len(ops) < 2 THEN None ELSE ops[2]]

\* Pattern and path as the first two words that are no options; an option with a
\* role has it for the next word.
PatternAndPath(parts, role) ==
    LET step(s, p) ==
            CASE s.next /= None -> [s EXCEPT !.next = None,
                                             !.pattern = IF s.next = "pattern" THEN p ELSE @,
                                             !.type = IF s.next = "type" THEN p ELSE @]
              [] s.next = None /\ Dashed(p) ->
                    [s EXCEPT !.next = IF p \in DOMAIN role THEN role[p] ELSE None]
              [] s.next = None /\ ~Dashed(p) ->
                    IF s.pattern = None THEN [s EXCEPT !.pattern = p]
                    ELSE IF s.path = None THEN [s EXCEPT !.path = p] ELSE s IN
    FoldLeft(step, [next |-> None, pattern |-> None, path |-> None, type |-> None], Tail(parts))

RewriteGrep(parts) ==
    LET found == PatternAndPath(parts, ("-e" :> "pattern" @@ "--include" :> "skip" @@ "--exclude" :> "skip")) IN
    IF ~(Has(parts, "r") \/ Has(parts, "R") \/ Holds(parts, {"--recursive"})) \/ found.pattern = None THEN None
    ELSE Ig("search", GrepFlags(parts),
            <<found.pattern>> \o (IF found.path \in {None, "."} THEN <<>> ELSE <<found.path>>))

RewriteRg(parts) ==
    LET found == PatternAndPath(parts, ("-t" :> "type" @@ "--type" :> "type" @@ "-g" :> "skip" @@ "--glob" :> "skip")) IN
    IF found.pattern = None THEN None
    ELSE Ig("search", IF Holds(parts, {"-i", "--ignore-case"}) THEN {"-i"} ELSE {},
            (IF found.type = None THEN <<>> ELSE <<"--type", found.type>>)
                \o <<found.pattern>> \o (IF found.path = None THEN <<>> ELSE <<found.path>>))

WordAfter(parts, words) ==
    LET i == SelectInSeq(parts, LAMBDA p : p \in words) IN
    IF i = 0 \/ i = Len(parts) THEN None ELSE parts[i + 1]

\* Mutant: the root is lost.
RewriteFindAnywhere(parts) ==
    LET name == WordAfter(parts, {"-name", "-iname"}) IN
    IF name = None \/ Holds(parts, {"-exec", "-delete", "-print0"}) THEN None
    ELSE Ig("files", {}, <<"--glob", name>>)

\* The root is the first word that is no option, so also the value of one.
RewriteFind(parts) ==
    LET name == WordAfter(parts, {"-name", "-iname"})
        roots == Operands(Tail(parts)) IN
    IF \/ name = None \/ Holds(parts, {"-exec", "-delete", "-print0"})
       \/ \E i \in 1 .. Len(parts) - 1 : parts[i] = "-type" /\ parts[i + 1] /= "f"
    THEN None
    ELSE Ig("files", {},
            (IF roots = <<>> \/ Head(roots) = "." THEN <<>> ELSE <<Head(roots)>>) \o <<"--glob", name>>)

RewriteLs(parts) ==
    LET paths == Operands(Tail(parts)) IN
    IF \/ \A p \in ToSet(Tail(parts)) : Dashed(p) => Letters[p] \cap {"l", "a", "R"} = {}
       \/ Len(paths) > 1 \/ ToSet(paths) \cap Globs /= {}
    THEN None
    ELSE Ig("ls", {}, paths)

\* Past the global options; one that names another directory or repository ends
\* it, as do the subcommands that change anything.
GitSubcommand[parts \in Seq(STRING)] ==
    IF parts = <<>> \/ Holds(<<Head(parts)>>, {"-C", "--git-dir", "--work-tree"}) THEN <<>>
    ELSE IF Head(parts) = "-c" THEN GitSubcommand[SubSeq(parts, 3, Len(parts))]
    ELSE IF Head(parts) \in {"--no-pager", "--no-optional-locks", "--bare", "--literal-pathspecs"}
    THEN GitSubcommand[Tail(parts)]
    ELSE parts

RewriteGit(parts) ==
    LET rest == GitSubcommand[Tail(parts)] IN
    IF rest = <<>> \/ Head(rest) \notin {"status", "log", "diff", "branch", "show"} THEN None
    ELSE Ig("git", {}, rest)

RewriteVia(sub, parts) == Ig(sub, {}, parts)

RewriteDocker(parts) ==
    IF Len(parts) >= 2 /\ parts[2] \in {"ps", "images", "logs", "build", "compose", "inspect", "stats", "top"}
    THEN RewriteVia("docker", Tail(parts)) ELSE None

RewriteNpm(parts) ==
    IF Len(parts) >= 2 /\ parts[2] \in {"run", "exec", "test"} THEN RewriteVia("run", parts) ELSE None

\* npx and the many tools of the generic runner; kubectl and its like have a
\* subcommand of their own; the rest is not rewritten.
RewriteParts(parts) ==
    CASE Head(parts) = "cat" -> RewriteCat(parts)
      [] Head(parts) \in {"head", "tail"} -> RewriteHead(parts)
      [] Head(parts) \in {"grep", "egrep", "fgrep"} -> RewriteGrep(parts)
      [] Head(parts) = "rg" -> RewriteRg(parts)
      [] Head(parts) = "tree" -> Ig("ls", {}, <<>>)
      [] Head(parts) = "find" -> RewriteFind(parts)
      [] Head(parts) = "ls" -> RewriteLs(parts)
      [] Head(parts) = "git" -> RewriteGit(parts)
      [] Head(parts) = "docker" -> RewriteDocker(parts)
      [] Head(parts) = "npm" -> RewriteNpm(parts)
      [] Head(parts) = "npx" -> IF Len(parts) < 2 THEN None ELSE RewriteVia("run", parts)
      [] Head(parts) = "kubectl" -> RewriteVia("kubectl", Tail(parts))
      [] Head(parts) \in {"cargo", "go", "pytest"} -> RewriteVia("run", parts)
      [] OTHER -> None

-----------------------------------------------------------------------------
(* Rules *)

DenyGitReset(parts) ==
    Len(parts) >= 3 /\ parts[1] = "git" /\ parts[2] = "reset" /\ Holds(parts, {"--hard"})

DenyGitClean(parts) ==
    Len(parts) >= 2 /\ parts[1] = "git" /\ parts[2] = "clean" /\ Has(SubSeq(parts, 3, Len(parts)), "f")

\* The first operand that is no option is taken for rm itself.
DenyRm(parts) ==
    /\ parts /= <<>> /\ parts[1] = "rm"
    /\ Has(parts, "r") \/ Has(parts, "R") \/ Holds(parts, {"--recursive"})
    /\ Has(parts, "f") \/ Holds(parts, {"--force"})
    /\ Holds(Tail(Operands(parts)), {"/", ".", "~"})

AskPush(parts) ==
    /\ Len(parts) >= 2 /\ parts[1] = "git" /\ parts[2] = "push"
    /\ Holds(SubSeq(parts, 3, Len(parts)), {"--force", "-f", "--force-with-lease"})

Classify(parts) ==
    CASE DenyGitReset(parts) \/ DenyGitClean(parts) \/ DenyRm(parts) -> [kind |-> "deny", as |-> None]
      [] ~(DenyGitReset(parts) \/ DenyGitClean(parts) \/ DenyRm(parts)) /\ AskPush(parts) ->
            [kind |-> "ask", as |-> None]
      [] OTHER -> [kind |-> IF parts = <<>> \/ RewriteParts(parts) = None THEN "pass" ELSE "rewrite",
                   as |-> IF parts = <<>> THEN None ELSE RewriteParts(parts)]

\* A rule: the commands its pattern matches, what it says and whose it is.
Rule(matches, verdict) == [matches |-> matches, verdict |-> verdict]

\* Mutant: what a file allows is allowed.
FileRulesAllowing(file) ==
    IF ~file.parses THEN <<>>
    ELSE [i \in 1 .. Len(file.deny) |-> Rule(file.deny[i], "deny")]
            \o [i \in 1 .. Len(file.ask) |-> Rule(file.ask[i], "ask")]
            \o [i \in 1 .. Len(file.allow) |-> Rule(file.allow[i], "allow")]

\* A file with no valid TOML gives no rule, an invalid pattern none either; what
\* a file allows is asked.
FileRules(file) ==
    IF ~file.parses THEN <<>>
    ELSE [i \in 1 .. Len(file.deny) |-> Rule(file.deny[i], "deny")]
            \o [i \in 1 .. Len(file.ask) |-> Rule(file.ask[i], "ask")]
            \o [i \in 1 .. Len(file.allow) |-> Rule(file.allow[i], "ask")]

Load(builtin, user, project) == builtin \o FileRules(user) \o FileRules(project)

Check(rules, cmd) ==
    LET says == {rules[i].verdict : i \in {j \in 1 .. Len(rules) : cmd \in rules[j].matches}} IN
    CASE "deny" \in says -> "deny"
      [] "deny" \notin says /\ "ask" \in says -> "ask"
      [] says = {"allow"} -> "allow"
      [] OTHER -> "default"

\* The exit code and what stdout shows: 0 as it is, 1 to choose, 2 blocked,
\* 3 unfamiliar.
RunRewrite(rules, parts, familiar, legacy) ==
    LET verdict == Check(rules, parts)
        class == Classify(parts)
        code(n) == IF legacy THEN 0 ELSE n IN
    CASE verdict = "deny" -> [code |-> code(2), shows |-> None]
      [] verdict = "ask" -> [code |-> code(1), shows |-> "command"]
      [] verdict \in {"allow", "default"} /\ class.kind = "rewrite" -> [code |-> code(1), shows |-> "rewritten"]
      [] verdict \in {"allow", "default"} /\ class.kind = "ask" -> [code |-> code(1), shows |-> "command"]
      [] verdict \in {"allow", "default"} /\ class.kind = "deny" -> [code |-> code(2), shows |-> None]
      [] OTHER -> [code |-> IF verdict = "allow" \/ familiar \/ parts = <<>> THEN 0 ELSE code(3),
                   shows |-> None]

-----------------------------------------------------------------------------
(* ig run *)

\* The subcommand of a tool with a parser of its own; cargo and go for tests only.
DedicatedTool(tools, parts) ==
    LET test == Len(parts) >= 2 /\ parts[2] = "test" IN
    CASE parts[1] = "cargo" -> IF test THEN "cargo-test" ELSE None
      [] parts[1] = "go" -> IF test THEN "go-test" ELSE None
      [] OTHER -> IF parts[1] \in tools THEN parts[1] ELSE None

\* To the tool's parser, to a subcommand, or, when an ig was routed here before,
\* to the filters.  A go test loses every word "test".
Route(tools, parts, routed) ==
    LET tool == DedicatedTool(tools, parts)
        class == Classify(parts)
        filtered == Ig("filter", {}, parts) IN
    CASE routed -> filtered
      [] ~routed /\ tool /= None ->
            Ig(tool, {}, SelectSeq(Tail(parts), LAMBDA p : ~(tool = "go-test" /\ p = "test")))
      [] OTHER -> IF class.kind = "rewrite" /\ class.as.sub \in {"ls", "git", "files", "read", "smart"}
                  THEN class.as ELSE filtered

-----------------------------------------------------------------------------
(* The tools themselves: what their manuals say of the words they are given *)

\* grep's pattern is the one -e gives or else the first operand; all else are paths.
GrepReads(parts) ==
    LET step(s, p) ==
            CASE s.takes /= None -> [s EXCEPT !.takes = None,
                                              !.pattern = IF s.takes = "-e" THEN p ELSE @]
              [] s.takes = None /\ p \in {"-e", "--include", "--exclude"} -> [s EXCEPT !.takes = p]
              [] s.takes = None /\ p \notin {"-e", "--include", "--exclude"} /\ ~Dashed(p) ->
                    [s EXCEPT !.operands = Append(@, p)]
              [] OTHER -> s
        end == FoldLeft(step, [takes |-> None, pattern |-> None, operands |-> <<>>], Tail(parts)) IN
    [open |-> end.takes /= None \/ (end.pattern = None /\ end.operands = <<>>),
     pattern |-> IF end.pattern = None /\ end.operands /= <<>> THEN Head(end.operands) ELSE end.pattern,
     paths |-> IF end.pattern = None /\ end.operands /= <<>> THEN Tail(end.operands) ELSE end.operands]

\* find's roots are the words before its first option.
FindRoots(parts) ==
    LET first == SelectInSeq(parts, Dashed) IN
    SubSeq(parts, 2, IF first = 0 THEN Len(parts) ELSE first - 1)
=============================================================================
