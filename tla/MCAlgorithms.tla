---------------------------- MODULE MCAlgorithms ----------------------------
(* The stateless algorithms of the index, of commands and of sources, each fed on its own. *)
EXTENDS IndexData, Commands, Sources, Surroundings

Init == IndexInit \/ CommandInit \/ SourceInit \/ SurroundingsInit

Next == IndexNext \/ CommandNext \/ SourceNext \/ SurroundingsNext

Spec == Init /\ [][Next]_vars

MCAlphabets ==
    "quote" :> {"a", "'", "\"", "\\", " ", "*"} @@
    "compound" :> {"a", " ", "'", "\"", "|", "&", ";"} @@
    "redirects" :> {"a", " ", "\"", "\\", ">", "2"} @@
    "prefix" :> {"V", "=", "a", " ", "'", "sudo"}

MCMaxChars == "quote" :> 5 @@ "compound" :> 5 @@ "redirects" :> 5 @@ "prefix" :> 5

\* Words: a command's options with their letters, patterns p and q, paths d, d/e and ".".
MCLetters ==
    "-r" :> {"r"} @@ "-e" :> {"e"} @@ "-ri" :> {"r", "i"} @@ "--include" :> {"i"} @@
    "-name" :> {"n", "a", "m", "e"} @@ "-type" :> {"t"} @@ "-v" :> {"v"} @@ "--" :> {} @@
    "--no-fail-fast" :> {"f"} @@ "-json" :> {"j"} @@ "-f" :> {"f"} @@ "--hard" :> {"h"} @@
    "--force" :> {"f"} @@ "-la" :> {"l", "a"}
MCLongOptions == {"--include", "--", "--no-fail-fast", "--hard", "--force"}

MCVocabulary ==
    "grep" :> {"-r", "-ri", "-e", "--include", "p", "d", "."} @@
    "find" :> {"d", ".", "-name", "-type", "f", "*"} @@
    "cargo" :> {"test", "p", "--", "-v", "--no-fail-fast"} @@
    "go" :> {"test", "p", "./...", "-v", "-json"} @@
    "pytest" :> {"test", "p", "-v"} @@
    "ruff" :> {"check", "format", "p"}

MCBuiltin == <<Rule({<<"git", "reset", "--hard">>}, "deny"), Rule({<<"git", "push", "-f">>}, "ask")>>
MCCommandsGiven ==
    {<<"git", "reset", "--hard">>, <<"git", "reset", "p", "--hard">>, <<"git", "push", "-f">>,
     <<"git", "push", "--force">>, <<"cat", "p">>, <<"git", "p">>, <<"p">>}

\* A is a coloured.
MCPlain == [t \in {"a", "b", "A", ""} |-> IF t = "A" THEN "a" ELSE t]

Filter(ansi, dedup, keep, drop, head, tail, max) ==
    [ansi |-> ansi, dedup |-> dedup, replace |-> <<>>, keep |-> keep, drop |-> drop,
     head |-> head, tail |-> tail, max |-> max, empty |-> None]

MCFilters ==
    {Filter(TRUE, TRUE, {}, {"b"}, h, t, m) : h \in {None, 1, 3}, t \in {None, 1, 3}, m \in {None, 2, 3, 4}}
        \cup {Filter(FALSE, FALSE, {}, {}, h, None, m) : h \in {None, 2}, m \in {None, 3}}
        \cup {Filter(TRUE, FALSE, {"a"}, {}, None, 2, m) : m \in {None, 2}}
\* Two letters and a capital that folds to the first.
MCFold == [c \in 0 .. 2 |-> IF c = 2 THEN 0 ELSE c]
MCWeight == [c \in 0 .. 2, d \in 0 .. 2 |-> (2 * c + d * d) % 4]
MCBytes == 0 .. 2
MCMaxima == 4 .. 7

\* Sources.  A line, its braces, and what is to be left of it.
Ordinary(left) ==
    [blank |-> FALSE, import |-> FALSE, def |-> FALSE, fn |-> FALSE, comment |-> FALSE, doc |-> FALSE,
     opens |-> None, closes |-> {}, braces |-> <<>>, lone |-> FALSE, indent |-> 0,
     left |-> left, span |-> None]
Code(braces, left) == [Ordinary(left) EXCEPT !.braces = braces]
EmptyLine == [Ordinary("line") EXCEPT !.blank = TRUE]
Import == [Ordinary("line") EXCEPT !.import = TRUE]
Remark == [Ordinary("none") EXCEPT !.comment = TRUE]
Doc == [Ordinary("line") EXCEPT !.comment = TRUE, !.doc = TRUE]
Def(fn, braces, span) ==
    [Ordinary("line") EXCEPT !.def = TRUE, !.fn = fn, !.braces = braces, !.span = span]
Lone(left) == [Code(<<"{">>, left) EXCEPT !.lone = TRUE]
Indented(lines) == [i \in DOMAIN lines |-> [lines[i] EXCEPT !.indent = @ + 4]]

Body == <<Code(<<"{">>, "mark"), [EmptyLine EXCEPT !.left = "none"], Remark, Code(<<"}">>, "none")>>
Function == <<Def(TRUE, <<"{">>, 5)>> \o Indented(Body) \o <<Code(<<"}">>, "line")>>
ShortMethod == <<Def(TRUE, <<"{">>, 2)>> \o Indented(<<Code(<<>>, "mark")>>) \o <<Code(<<"}">>, "line")>>
OneLiner == <<Def(TRUE, <<"{", "}">>, 0)>>
Declared == <<Def(TRUE, <<>>, None)>>
Below(lines) == <<Def(TRUE, <<>>, Len(lines) + 2), Lone("none")>> \o Indented(lines) \o <<Code(<<"}">>, "line")>>
Type(lines) == <<Def(FALSE, <<"{">>, Len(lines) + 1)>> \o Indented(lines) \o <<Code(<<"}">>, "line")>>
TypeBelow(lines) ==
    <<Def(FALSE, <<>>, Len(lines) + 2), Lone("none")>> \o Indented(lines) \o <<Code(<<"}">>, "line")>>
Comment(kind, n) ==
    [i \in 1 .. n |-> [Ordinary("none") EXCEPT !.opens = IF i = 1 THEN kind ELSE None,
                                            !.closes = IF i = n THEN {kind} ELSE {},
                                            !.braces = <<"{">>]]
FieldLine == <<Code(<<>>, "line")>>

MCItems ==
    {<<Import>>, <<Ordinary("line")>>, <<EmptyLine>>, <<Remark>>, <<Doc>>,
     <<[Import EXCEPT !.def = TRUE, !.span = 0, !.braces = <<"{", "}">>]>>,
     Comment("block", 1), Comment("block", 3) , Comment("docstring", 2), Comment("ruby", 2),
     Function, OneLiner, Below(Body),
     Type(FieldLine \o <<EmptyLine, EmptyLine, Remark, EmptyLine>> \o ShortMethod \o FieldLine),
     Type(OneLiner \o Function \o OneLiner \o FieldLine), Type(Declared \o Declared),
     Type(Type(FieldLine) \o FieldLine), TypeBelow(FieldLine \o Below(<<Code(<<>>, "mark")>>) \o FieldLine)}

Piece(kind, text) == [kind |-> kind, text |-> text]
MCLinePieces ==
    {Piece("code", <<"x">>), Piece("code", <<"/", " ">>), Piece("member", <<"-", ">", "x">>), Piece("member", <<".", "x">>),
     Piece("string", <<"'", "'">>), Piece("string", <<"\"", "'", "/", "/", "\"">>),
     Piece("string", <<"'", "\\", "'", "/", "/", "x", "'">>), Piece("string", <<"\"", "\\", "\\", "\"">>),
     Piece("comment", <<" ", "/", "/", "'", "x">>)}

Scored(kind, pattern, len, relevant) ==
    [kind |-> kind, pattern |-> pattern, len |-> len, entropy |-> 1, relevant |-> relevant]
MCScoredLines ==
    {Scored("signature", "f", 5, FALSE), Scored("signature", "g", 1, TRUE), Scored("call", "c", 9, FALSE),
     Scored("call", "d", 3, TRUE), Scored("symbols", "}", 1, FALSE), Scored("other", "o", 5, FALSE)}

MCRegexes == {<<<<"a">>>>, <<<<"a", "b">>, <<"b">>>>, <<<<"b">>, <<"b", "a">>>>}
MCContexts == {[before |-> b, after |-> a] : b \in 0 .. 1, a \in {0, 2}}
MCCaps == {[file |-> f, total |-> t] : f \in 0 .. 2, t \in {0, 1, 3, 4}}
MCNameLetters == {<<"a", "b">>, <<"b", "a", "1">>, <<"a", "b", "b">>}
MCLower == "A" :> "a" @@ "B" :> "b"
MCStopWords == {<<"a", "b", "b">>}

MCStackOf == "package.json" :> "node" @@ "artisan" :> "laravel" @@ "Cargo.toml" :> "rust"
=============================================================================
