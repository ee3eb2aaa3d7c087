------------------------------ MODULE Matching ------------------------------
(***************************************************************************)
(* What a search shows of one file (search/matcher.rs) and prints of the   *)
(* files it found (output/printer.rs): lines of matches with the context   *)
(* around them, long lines cut around their middle, limits on the number   *)
(* of lines.  A text is a sequence of bytes counted from 1.                *)
(***************************************************************************)
EXTENDS Integers, SequencesExt, FiniteSetsExt, Optional

LineEnd == "\n"

\* regex: the alternatives of a pattern, the first that fits wins.
Fits(alternative, content, i) ==
    /\ i + Len(alternative) - 1 <= Len(content)
    /\ SubSeq(content, i, i + Len(alternative) - 1) = alternative

\* The leftmost match that begins at a position or after it: [from, to[.
FindAt(regex, content, at) ==
    LET starts == {i \in at .. Len(content) : \E k \in DOMAIN regex : Fits(regex[k], content, i)}
        i == Min(starts)
        k == Min({j \in DOMAIN regex : Fits(regex[j], content, i)}) IN
    IF starts = {} THEN None ELSE [from |-> i, to |-> i + Len(regex[k])]

FindAll(regex, content) ==
    LET after[at \in 1 .. Len(content) + 1] ==
            LET m == FindAt(regex, content, at) IN
            IF m = None THEN <<>> ELSE <<m>> \o after[m.to] IN
    after[1]

-----------------------------------------------------------------------------
(* The matches of a file *)

\* Mutant: from the end of the match, which finds the line again.
SameLine(content, to) == to

NextLine(content, to) ==
    Min({Len(content) + 1} \cup {i + 1 : i \in {k \in to .. Len(content) : content[k] = LineEnd}})

\* After a match the next one is looked for on the next line.
CountLines(regex, content) ==
    LET count[at \in 1 .. Len(content) + 1] ==
            LET m == FindAt(regex, content, at) IN
            IF m = None THEN 0 ELSE 1 + count[NextLine(content, m.to)] IN
    count[1]

LineStarts(content) ==
    <<1>> \o SelectSeq([i \in DOMAIN content |-> i + 1], LAMBDA i : content[i - 1] = LineEnd)

LineAt(starts, position) == Max({k \in DOMAIN starts : starts[k] <= position})

\* Mutant: the line with its end.
GetLineWhole(content, starts, k) ==
    SubSeq(content, starts[k], IF k < Len(starts) THEN starts[k + 1] - 1 ELSE Len(content))

GetLine(content, starts, k) ==
    SubSeq(content, starts[k], IF k < Len(starts) THEN starts[k + 1] - 2 ELSE Len(content))

AsMatch(entry, range) == [context |-> FALSE, ranges |-> Append(entry.ranges, range)]

Fresh(context) == [context |-> context, ranges |-> <<>>]

\* A line once shown as context becomes a match line; a match line stays one.
ShowMatch(shown, config, lines, hit) ==
    LET near == (hit.line - config.before .. hit.line + config.after) \cap 1 .. lines
        now == shown @@ [k \in near |-> Fresh(k /= hit.line)] IN
    [now EXCEPT ![hit.line] = AsMatch(@, hit.range)]

\* The lines of a file, by their numbers, each with its matches' places in it.
MatchLines(regex, content, config) ==
    LET starts == LineStarts(content)
        hits == [i \in DOMAIN FindAll(regex, content) |->
                    LET m == FindAll(regex, content)[i]
                        k == LineAt(starts, m.from) IN
                    [line |-> k, range |-> [from |-> m.from - starts[k] + 1, to |-> m.to - starts[k] + 1]]]
        shown == FoldLeft(LAMBDA s, hit : ShowMatch(s, config, Len(starts), hit), <<>>, hits) IN
    [k \in DOMAIN shown |-> [context |-> shown[k].context, ranges |-> shown[k].ranges,
                             text |-> GetLine(content, starts, k)]]

\* What one file gives: nothing, its name, the number of its lines, or the lines.
MatchFile(regex, content, config) ==
    IF content = <<>> \/ FindAt(regex, content, 1) = None THEN None
    ELSE [count |-> CASE config.mode = "files" -> 1
                      [] config.mode = "count" -> CountLines(regex, content)
                      [] OTHER -> Len(FindAll(regex, content)),
          lines |-> IF config.mode = "lines" THEN MatchLines(regex, content, config) ELSE <<>>]

-----------------------------------------------------------------------------
(* Long lines.  A byte is a pair whose first part says what it is: " " a blank, *)
(* "lead" and "rest" the two bytes of one character, "x" any other.            *)

Ellipsis == <<<<"lead", 0>>, <<"rest", 0>>, <<"rest", 0>>>>

\* The cut moved off the middle of a character, down or up.
SafeDown(text, n) == Max({k \in 0 .. n : k = 0 \/ k = Len(text) \/ text[k + 1][1] /= "rest"})
SafeUp(text, n) == Min({k \in n .. Len(text) : k = Len(text) \/ text[k + 1][1] /= "rest"})

Blanks(line) == Max({k \in 0 .. Len(line) : \A i \in 1 .. k : line[i][1] = " "})

Shift(range, by) == [from |-> range.from + by, to |-> range.to + by]

\* A match inside the blanks in front of the line is an empty one at its start.
Unindent(range, lead) ==
    [from |-> Max({1, range.from - lead}), to |-> Max({1, range.to - lead})]

\* Mutant: the tail's matches are moved as if nothing stood for what is left out.
RangeWithoutEllipsis(range, text, head, tail) ==
    IF range.to - 1 <= Len(head) THEN <<range>>
    ELSE IF range.from - 1 >= Len(text) - Len(tail)
    THEN <<Shift(range, Len(head) - (Len(text) - Len(tail)))>>
    ELSE <<>>

\* What is left of a match when the head and the tail of a text are shown.
RangeOf(range, text, head, tail) ==
    IF range.to - 1 <= Len(head) THEN <<range>>
    ELSE IF range.from - 1 >= Len(text) - Len(tail)
    THEN <<Shift(range, Len(head) + Len(Ellipsis) - (Len(text) - Len(tail)))>>
    ELSE <<>>

TruncateLine(line, ranges, max) ==
    LET lead == Blanks(line)
        text == SubSeq(line, lead + 1, Len(line))
        inText == [i \in DOMAIN ranges |-> Unindent(ranges[i], lead)]
        budget == Max({0, max - Len(Ellipsis)})
        headLen == Min({(budget * 2) \div 3, Len(text)})
        tailLen == Min({budget - headLen, Len(text) - headLen})
        head == SubSeq(text, 1, SafeDown(text, headLen))
        tail == SubSeq(text, SafeUp(text, Len(text) - tailLen) + 1, Len(text)) IN
    IF Len(line) <= max THEN [text |-> line, ranges |-> ranges]
    ELSE IF Len(text) <= max
    THEN [text |-> text, ranges |-> SelectSeq(inText, LAMBDA r : r.to > r.from)]
    ELSE [text |-> head \o Ellipsis \o tail,
          ranges |-> FlattenSeq([i \in DOMAIN inText |-> RangeOf(inText[i], text, head, tail)])]

-----------------------------------------------------------------------------
(* The printer's limits; a limit of 0 is none *)

Silent == [out |-> <<>>, emitted |-> 0, hit |-> FALSE]

\* Mutant: the line at which the file's limit is noticed is not counted.
RemainingAfter(n, shown) == n - shown - 1

Remaining(n, shown) == n - shown

\* A file of n lines: the limit over all files is looked at before the file's own.
PrintFile(caps, p, n) ==
    LET all == IF caps.total = 0 THEN n ELSE caps.total - p.emitted
        shown == Min({n, all, IF caps.file = 0 THEN n ELSE caps.file})
        hit == shown < n /\ caps.total > 0 /\ shown = all
        notice == IF shown = n THEN <<>>
                  ELSE IF hit THEN <<[kind |-> "cap", n |-> caps.total]>>
                  ELSE <<[kind |-> "more", n |-> Remaining(n, shown)]>> IN
    IF p.hit THEN p
    ELSE [out |-> p.out \o <<[kind |-> "path", n |-> n], [kind |-> "lines", n |-> shown]>> \o notice,
          emitted |-> p.emitted + shown, hit |-> hit]

PrintFiles(caps, files) == FoldLeft(LAMBDA p, n : PrintFile(caps, p, n), Silent, files)

-----------------------------------------------------------------------------
(* --compact: the files with the most matches, each with its first lines.  A   *)
(* file has a place in the results, a number of matches and the lines they are *)
(* on.                                                                         *)

MatchesIn(files) == FoldLeft(LAMBDA n, f : n + f.count, 0, files)

\* Mutant: the files with the fewest matches come first.
FewestFirst(files) ==
    SortSeq(files, LAMBDA f, g : f.count < g.count \/ (f.count = g.count /\ f.place < g.place))

MostFirst(files) ==
    SortSeq(files, LAMBDA f, g : f.count > g.count \/ (f.count = g.count /\ f.place < g.place))

\* Lines are shown and matches are told.
PrintCompactFile(caps, f) ==
    [place |-> f.place, count |-> f.count, shown |-> Min({f.lines, caps.file}),
     more |-> IF f.lines > caps.file THEN Max({0, f.count - caps.file}) ELSE 0]

PrintCompact(caps, files) ==
    LET sorted == MostFirst(files)
        shown == SubSeq(sorted, 1, Min({Len(files), caps.files}))
        left == SubSeq(sorted, caps.files + 1, Len(files)) IN
    [matches |-> MatchesIn(files), files |-> Len(files),
     out |-> [i \in DOMAIN shown |-> PrintCompactFile(caps, shown[i])],
     moreFiles |-> Len(left), moreMatches |-> MatchesIn(left)]
=============================================================================
