---------------------------- MODULE Surroundings ----------------------------
(***************************************************************************)
(* What ig makes of what surrounds it: the directories a project is in, an *)
(* agent's sessions, descriptions on a forge.  Growing inputs, as ever.    *)
(***************************************************************************)
EXTENDS Inputs, Projects, Sessions, Markdown

CONSTANTS
    MaxDepth, MaxProjectFiles, MaxEvents, MaxBody,
    DirNames,           \* names of directories, noise and others
    BodyTokens

SurroundingsStart ==
    "chain" :> <<>> @@ "session" :> <<>> @@ "body" :> <<>>
    @@ "project" :> [above |-> <<>>, files |-> {}, ignore |-> None]

SurroundingsInit == part \in Parts \cap DOMAIN SurroundingsStart /\ input = SurroundingsStart[part]

MoreDirectories ==
    /\ part = "chain" /\ Len(input) < MaxDepth
    /\ \E git, marker \in BOOLEAN : input' = Append(input, [git |-> git, marker |-> marker])
    /\ UNCHANGED part

MoreBody ==
    /\ part = "body" /\ Len(input) < MaxBody
    /\ \E token \in BodyTokens \cup {NewLine} : input' = Append(input, token)
    /\ UNCHANGED part

\* A call, or the answer to one that has none; calls are answered in any order.
MoreSession ==
    /\ part = "session" /\ Len(input) < MaxEvents
    /\ \/ \E command \in {"c", "d", ""} :
             input' = Append(input, [use |-> Len(UsesOf(input)) + 1, command |-> command])
       \/ \E id \in 1 .. Len(UsesOf(input)), failed \in BOOLEAN, text \in {"none", "flag"} :
             /\ id \notin Answered(input)
             /\ input' = Append(input, [result |-> id, failed |-> failed, text |-> text])
    /\ UNCHANGED part

\* A directory above, a file, or a run of autoignore.
MoreProject ==
    /\ part = "project"
    /\ \/ /\ input.files = {} /\ input.above = <<>>
          /\ \E dir \in DirNames : input' = [input EXCEPT !.above = <<dir>>]
       \/ /\ Cardinality(input.files) < MaxProjectFiles
          /\ \E dirs \in BoundedSeq(DirNames, StackDepth), name \in DOMAIN StackOf :
                input' = [input EXCEPT !.files = @ \cup {[dirs |-> dirs, name |-> name]}]
       \/ \E force \in BOOLEAN : input' = RunAutoignore(input, force)
    /\ UNCHANGED part

SurroundingsNext == MoreDirectories \/ MoreBody \/ MoreSession \/ MoreProject

-----------------------------------------------------------------------------

\* The directories of a project have one root, so one index: a directory has
\* another root than one above it only if that has a stronger mark (.git beside a
\* project file, before .git, before a project file), or if neither has any.  A
\* command given the root finds it again, and home is a root only of itself.
OneRootPerProject ==
    part = "chain" => \A home \in 0 .. Len(input) : \A d \in DOMAIN input :
        LET strength(dir) ==
                (IF input[dir].git THEN 2 ELSE 0) + (IF input[dir].marker THEN 1 ELSE 0)
            root(dir) == FindRoot(input, home, dir) IN
        /\ root(root(d)) = root(d)
        /\ root(d) = home => d = home
        /\ \A a \in 1 .. d : ~(a <= home /\ home <= d) /\ root(a) /= root(d) =>
              \/ strength(root(d)) > strength(root(a))
              \/ strength(root(d)) = 0

\* The .ignore that is written has the rules of the project's stacks, those whose
\* files lie at most so deep and in nothing that is built or installed; what a
\* dependency brings along is no stack of the project.  A second run changes
\* nothing (run_autoignore).  The project is not itself in a directory of noise.
IgnoreFitsTheProject ==
    part = "project" /\ ToSet(input.above) \cap NoiseDirs = {} =>
        LET own == {f \in input.files : f.dirs \notin [1 .. StackDepth -> DirNames]
                                          /\ \A i \in DOMAIN f.dirs : f.dirs[i] \notin NoiseDirs}
            written == RunAutoignore(input, TRUE) IN
        /\ written.ignore = {SectionOf(StackOf[f.name]) : f \in own}
        /\ \A force \in BOOLEAN : RunAutoignore(written, force) = written
        /\ input.ignore /= None => RunAutoignore(input, FALSE) = input

\* Corrections are counted where a call failed and the next call, in the order the
\* agent made them, did not, whatever order the answers came in (extract_commands,
\* detect_corrections); every answer is the one to its call.
CorrectionsFollowFailures ==
    part = "session" =>
        LET answer(id) == {input[i] : i \in {i \in DOMAIN input : "result" \in DOMAIN input[i] /\ input[i].result = id}}
            bad(id) == \E r \in answer(id) : r.failed \/ r.text /= "none"
            calls == [i \in 1 .. Len(UsesOf(input)) |-> UsesOf(input)[i].command]
            pairs == {i \in 1 .. Len(calls) - 1 : bad(i) /\ ~bad(i + 1) /\ "" \notin {calls[i], calls[i + 1]}}
            about(e) == {i \in pairs : \E r \in answer(i) : r.text = e}
            found == CollectPatterns(<<input>>) IN
        /\ \A e \in {"flag", "none"} :
              LET sort == ClassifyError(e) IN
              (IF sort \in DOMAIN found THEN found[sort].count ELSE 0) = Cardinality(about(e))
        /\ \A e \in DOMAIN found : \E i \in pairs : found[e].wrong = calls[i] /\ found[e].right = calls[i + 1]

\* The fenced parts of a text, [closed, code], line by line.
Fenced(body, fence) ==
    LET step(s, token) ==
            CASE s.at = "text" /\ token = fence -> [s EXCEPT !.at = "info"]
              [] s.at \in {"info", "after"} /\ token = NewLine ->
                    IF s.at = "after" THEN [s EXCEPT !.at = "text"]
                    ELSE [at |-> "code", out |-> Append(s.out, <<>>)]
              [] s.at = "code" /\ token = fence -> [s EXCEPT !.at = "after"]
              [] s.at = "code" /\ token /= fence ->
                    [s EXCEPT !.out = Append(Front(@), Append(Last(@), token))]
              [] OTHER -> s
        end == FoldLeft(step, [at |-> "text", out |-> <<>>], body) IN
    [closed |-> end.at /= "code", code |-> end.out]

TrimLast(code) == SubSeq(code, 1, Max({i \in DOMAIN code : code[i] /= NewLine} \cup {0}))

\* What is fenced stays as it is, to the last blank line, and what is not loses its
\* comments, rules and third blank lines (filter_markdown_body; "Code fences are
\* left untouched"), in a text with fences of one kind.
FencesAreLeftAlone ==
    part = "body" /\ ~(ToSet(FenceMarks) \subseteq ToSet(input)) =>
        LET out == FilterMarkdownBody(input)
            none == \A f \in ToSet(FenceMarks) : f \notin ToSet(input) IN
        /\ \A f \in ToSet(FenceMarks) :
              LET before == Fenced(input, f)
                  after == Fenced(out, f)
                  words(code) == SelectSeq(code, LAMBDA token : token /= NewLine) IN
              IF before.closed THEN after = before
              ELSE \E code \in {<<>>, <<TrimLast(Last(before.code))>>} :
                      /\ after.code = Front(before.code) \o code
                      /\ code = <<>> => words(Last(before.code)) = <<>>
        /\ none => /\ FilterMarkdownBody(out) = out
                   /\ \A i \in 1 .. Len(out) - 2 : \E k \in i .. i + 2 : out[k] /= NewLine
                   /\ \A i \in DOMAIN out, k \in DOMAIN out : out[i] = "<!--" /\ out[k] = "-->" => k < i

\* Roots, stacks, corrections and descriptions are read off what surrounds a
\* project as they are there (util.rs, autoignore.rs, learn.rs, markdown.rs).
SurroundingsAreRead ==
    /\ OneRootPerProject /\ IgnoreFitsTheProject
    /\ CorrectionsFollowFailures /\ FencesAreLeftAlone
=============================================================================
