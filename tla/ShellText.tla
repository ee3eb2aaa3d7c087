------------------------------ MODULE ShellText ------------------------------
(***************************************************************************)
(* Command lines as texts: how ig takes one apart and puts it together     *)
(* (rewrite.rs), and how the shell reads it.  A text is a sequence of      *)
(* characters; "sudo" stands for a word's letters where only the word      *)
(* matters, "V" for a capital, "2" for a digit.                            *)
(***************************************************************************)
EXTENDS Naturals, SequencesExt

Quotes == {"'", "\""}
SafeChars == {"a", "b", "r", "2", "V", "=", "sudo"}     \* emitted bare

-----------------------------------------------------------------------------
(* Quoting and the state of the quotes *)

QuotedChar(c) == IF c = "'" THEN <<"'", "\\", "'", "'">> ELSE <<c>>

\* Mutant: between double quotes and nothing escaped.
QuoteDouble(s) ==
    IF s /= <<>> /\ ToSet(s) \subseteq SafeChars THEN s ELSE <<"\"">> \o s \o <<"\"">>

Quote(s) ==
    IF s /= <<>> /\ ToSet(s) \subseteq SafeChars THEN s
    ELSE <<"'">> \o FlattenSeq([i \in 1 .. Len(s) |-> QuotedChar(s[i])]) \o <<"'">>

\* The scanners share the quotes: a backslash counts between double quotes only.
After(mode, c) ==
    CASE mode = "out" /\ c \in Quotes -> c
      [] mode \in Quotes /\ c = mode -> "out"
      [] mode = "\"" /\ c = "\\" -> "escape"
      [] mode = "escape" -> "\""
      [] OTHER -> mode

Modes(text) ==
    FoldLeft(LAMBDA ms, c : Append(ms, After(Last(ms), c)), <<"out">>, text)

Blank(c) == c = " "

TrimStart(text) ==
    IF \A i \in 1 .. Len(text) : Blank(text[i]) THEN <<>>
    ELSE SubSeq(text, SelectInSeq(text, LAMBDA c : ~Blank(c)), Len(text))

Trim(text) == Reverse(TrimStart(Reverse(TrimStart(text))))

-----------------------------------------------------------------------------
(* Segments *)

OpAt(text, i) ==
    LET two == i < Len(text) /\ text[i + 1] = text[i] IN
    CASE text[i] = "&" /\ two -> <<"&", "&">>
      [] text[i] = "|" /\ two -> <<"|", "|">>
      [] text[i] \in {"|", ";"} -> <<text[i]>>
      [] OTHER -> <<>>

\* The segments with the operators that follow them; the last has none, and is
\* left out when it is blank.
SplitTopLevel(text) ==
    LET step(s, i) ==
            CASE s.skip -> [s EXCEPT !.skip = FALSE]
              [] ~s.skip /\ s.mode = "out" /\ OpAt(text, i) /= <<>> ->
                    [segs |-> Append(s.segs, [text |-> Trim(s.cur), op |-> OpAt(text, i)]),
                     cur |-> <<>>, mode |-> "out", skip |-> Len(OpAt(text, i)) = 2]
              [] OTHER -> [s EXCEPT !.cur = Append(@, text[i]), !.mode = After(@, text[i])]
        end == FoldLeft(step, [segs |-> <<>>, cur |-> <<>>, mode |-> "out", skip |-> FALSE],
                        [i \in 1 .. Len(text) |-> i])
        \* an escape that ends the text is taken twice
        last == Trim(IF end.mode = "escape" THEN Append(end.cur, "\\") ELSE end.cur) IN
    IF last = <<>> THEN end.segs ELSE Append(end.segs, [text |-> last, op |-> <<>>])

\* The first redirect outside quotes cuts the command; a digit before > is taken
\* for its descriptor, whatever stands before the digit.
RedirectAt(text, i) ==
    \/ text[i] = ">"
    \/ text[i] \in {"2", "&"} /\ i < Len(text) /\ text[i + 1] = ">"

\* Mutant: without a look at the quotes.
SplitRedirectsAnywhere(text) ==
    LET cuts == {i \in 2 .. Len(text) : RedirectAt(text, i)}
        at == CHOOSE i \in cuts : \A j \in cuts : i <= j IN
    IF cuts = {} THEN [command |-> text, redirects |-> <<>>]
    ELSE [command |-> Trim(SubSeq(text, 1, at - 1)), redirects |-> SubSeq(text, at, Len(text))]

SplitRedirects(text) ==
    LET modes == Modes(text)
        cuts == {i \in 1 .. Len(text) :
                    /\ modes[i] = "out" /\ RedirectAt(text, i)
                    /\ TrimStart(SubSeq(text, 1, i - 1)) /= <<>>}
        at == CHOOSE i \in cuts : \A j \in cuts : i <= j IN
    IF cuts = {} THEN [command |-> text, redirects |-> <<>>]
    ELSE [command |-> Trim(SubSeq(text, 1, at - 1)), redirects |-> SubSeq(text, at, Len(text))]

\* Without a look at escapes: the value ends at the first blank outside quotes.
AssignmentEnd(text) ==
    LET eq == SelectInSeq(text, LAMBDA c : c = "=")
        mode == FoldLeft(LAMBDA ms, c :
                    Append(ms, IF c = "\\" THEN Last(ms) ELSE After(Last(ms), c)),
                    <<"out">>, SubSeq(text, eq + 1, Len(text)))
        ends == {i \in eq + 1 .. Len(text) : Blank(text[i]) /\ mode[i - eq] = "out"} IN
    IF eq < 2 \/ ~ToSet(SubSeq(text, 1, eq - 1)) \subseteq {"V", "2"} \/ text[1] = "2" THEN 0
    ELSE IF ends = {} THEN Len(text) ELSE (CHOOSE i \in ends : \A j \in ends : i <= j) - 1

SplitEnvPrefix[text \in Seq(STRING)] ==
    LET t == TrimStart(text)
        take(n) == LET more == SplitEnvPrefix[SubSeq(t, n + 1, Len(t))] IN
                   [prefix |-> SubSeq(t, 1, n) \o <<" ">> \o more.prefix, rest |-> more.rest] IN
    CASE Len(t) >= 2 /\ t[1] = "sudo" /\ Blank(t[2]) -> take(1)
      [] ~(Len(t) >= 2 /\ t[1] = "sudo" /\ Blank(t[2])) /\ AssignmentEnd(t) > 0 -> take(AssignmentEnd(t))
      [] OTHER -> [prefix |-> <<>>, rest |-> t]

\* Words without their quotes; between double quotes a backslash gives way to the
\* character it precedes.
ShellSplit(text) ==
    LET step(s, c) ==
            CASE s.mode = "out" /\ Blank(c) ->
                    [s EXCEPT !.words = IF s.in THEN Append(@, s.cur) ELSE @, !.cur = <<>>, !.in = FALSE]
              [] ~(s.mode = "out" /\ Blank(c)) ->
                    [s EXCEPT !.in = TRUE, !.mode = After(@, c),
                              !.cur = IF s.mode /= "escape" /\ (After(s.mode, c) /= s.mode) THEN @
                                      ELSE Append(@, c)]
        end == FoldLeft(step, [words |-> <<>>, cur |-> <<>>, in |-> FALSE, mode |-> "out"], text) IN
    IF end.in THEN Append(end.words, end.cur) ELSE end.words

-----------------------------------------------------------------------------
(* A command rewritten *)

Join(words) == FlattenSeq([i \in 1 .. Len(words) |-> <<" ">> \o words[i]])

\* What the tools have in common: prefix and redirects are kept, the words of a
\* tool that is known, here "a", are quoted anew behind "r", which stands for `ig`
\* (rewrite_to_ig_sub).
Reworded(prefix, words, redirects) ==
    IF words = <<>> \/ Head(words) /= <<"a">> THEN <<>>
    ELSE prefix \o <<"r">> \o Join([i \in 1 .. Len(words) |-> Quote(words[i])])
            \o (IF redirects = <<>> THEN <<>> ELSE <<" ">> \o redirects)

RewriteSegment(segment) ==
    LET cut == SplitRedirects(Trim(segment))
        env == SplitEnvPrefix[cut.command] IN
    Reworded(env.prefix, ShellSplit(env.rest), cut.redirects)

Spaced(op) == IF op = <<";">> THEN <<";", " ">> ELSE IF op = <<>> THEN <<>> ELSE <<" ">> \o op \o <<" ">>

WithSegment(s, seg, new) ==
    [out |-> s.out \o (IF new = <<>> THEN seg.text ELSE new) \o Spaced(seg.op),
     any |-> s.any \/ new /= <<>>,
     piped |-> s.piped \/ seg.op = <<"|">>]

\* What follows a pipe reads the stream and stays as it is.
TryRewrite(text) ==
    LET step(s, seg) == WithSegment(s, seg, IF s.piped THEN <<>> ELSE RewriteSegment(seg.text))
        end == FoldLeft(step, [out |-> <<>>, any |-> FALSE, piped |-> FALSE], SplitTopLevel(text)) IN
    IF end.any THEN end.out ELSE text

-----------------------------------------------------------------------------
(* The shell *)

\* What sh reads: words and, outside quotes, operators, a redirect with the
\* descriptor that stands alone before it.
ShellMode(mode, c) ==
    CASE mode = "out" /\ c = "\\" -> "bare escape"
      [] mode = "bare escape" -> "out"
      [] OTHER -> After(mode, c)

Word(w) == [kind |-> "word", text |-> w]
Operator(o) == [kind |-> "op", text |-> o]

ShellReads(text) ==
    LET close(s) == [s EXCEPT !.toks = IF s.in THEN Append(@, Word(s.cur)) ELSE @,
                              !.cur = <<>>, !.in = FALSE, !.bare = TRUE]
        operator(s, o) == [close(s) EXCEPT !.toks = Append(@, Operator(o)), !.skip = Len(o) = 2]
        redirect(s) ==
            IF s.in /\ s.bare /\ s.cur = <<"2">>
            THEN [s EXCEPT !.toks = Append(@, Operator(<<"2", ">">>)), !.cur = <<>>, !.in = FALSE]
            ELSE operator(s, <<">">>)
        \* the character put into the word, if any: a backslash between double
        \* quotes stays unless it protects something
        put(s, c) ==
            CASE s.mode = "escape" -> IF c \in {"\"", "\\"} THEN <<c>> ELSE <<"\\", c>>
              [] s.mode = "bare escape" -> <<c>>
              [] OTHER -> IF ShellMode(s.mode, c) = s.mode THEN <<c>> ELSE <<>>
        step(s, i) ==
            LET c == text[i]
                special == s.mode = "out" /\ ~s.skip IN
            CASE s.skip -> [s EXCEPT !.skip = FALSE]
              [] special /\ Blank(c) -> close(s)
              [] special /\ c = ">" -> redirect(s)
              [] special /\ c \in {"|", ";", "&"} ->
                    operator(s, IF OpAt(text, i) = <<>> THEN <<c>> ELSE OpAt(text, i))
              [] OTHER -> [s EXCEPT !.in = TRUE, !.cur = @ \o put(s, c), !.mode = ShellMode(@, c),
                                    !.bare = s.mode = "out" /\ ShellMode(s.mode, c) = "out" /\ @]
        end == FoldLeft(step, [toks |-> <<>>, cur |-> <<>>, in |-> FALSE, bare |-> TRUE,
                               mode |-> "out", skip |-> FALSE],
                        [i \in 1 .. Len(text) |-> i]) IN
    close(end).toks
=============================================================================
