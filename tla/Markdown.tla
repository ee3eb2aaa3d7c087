------------------------------ MODULE Markdown ------------------------------
(***************************************************************************)
(* What is left of a description of a pull request or an issue             *)
(* (filter_markdown_body of cmds/util/markdown.rs).  A body is a sequence  *)
(* of words, ends of lines, marks of comments, images, rules and fences.   *)
(***************************************************************************)
EXTENDS Integers, SequencesExt, FiniteSetsExt

NewLine == "\n"
FenceMarks == <<"backticks", "tildes">>      \* in the order they are looked for

From(s, i) == SubSeq(s, i, Len(s))

\* The first place at or after i of a token, or one past the end.
NextToken(s, token, i) == Min({k \in i .. Len(s) : s[k] = token} \cup {Len(s) + 1})

\* <!-- and what follows to the next -->.
RECURSIVE DropComments(_, _)
DropComments(s, i) ==
    LET open == NextToken(s, "<!--", i)
        close == NextToken(s, "-->", open) IN
    IF open > Len(s) THEN s
    ELSE IF close > Len(s) THEN s
    ELSE DropComments(SubSeq(s, 1, open - 1) \o From(s, close + 1), open)

\* ^\s*token\s*$, whose blanks may be ends of lines: where the match that starts
\* here ends, or 0 when there is none.
LineMatch(s, token, i) ==
    LET first == Min({k \in i .. Len(s) : s[k] /= NewLine} \cup {Len(s) + 1})
        after == Min({k \in first + 1 .. Len(s) : s[k] /= NewLine} \cup {Len(s) + 1}) IN
    IF first > Len(s) \/ (i > 1 /\ s[i - 1] /= NewLine) THEN 0
    ELSE IF s[first] /= token \/ (after = first + 1 /\ after <= Len(s)) THEN 0
    ELSE IF after > Len(s) THEN after ELSE after - 1

RECURSIVE DropTokenLines(_, _, _)
DropTokenLines(s, token, i) ==
    IF i > Len(s) THEN <<>>
    ELSE LET end == LineMatch(s, token, i) IN
         IF end = 0 THEN <<s[i]>> \o DropTokenLines(s, token, i + 1) ELSE DropTokenLines(s, token, end)

\* Mutant: three ends of lines are left as they are.
CollapseLonger(s) ==
    FoldLeft(LAMBDA t, c : IF c = NewLine /\ Len(t) > 2 /\ \A k \in Len(t) - 2 .. Len(t) : t[k] = NewLine
                           THEN t ELSE Append(t, c), <<>>, s)

\* At most two ends of lines in a row.
Collapse(s) ==
    FoldLeft(LAMBDA t, c : IF c = NewLine /\ Len(t) > 1 /\ t[Len(t)] = NewLine /\ t[Len(t) - 1] = NewLine
                           THEN t ELSE Append(t, c), <<>>, s)

FilterSegment(s) ==
    Collapse(DropTokenLines(DropTokenLines(DropComments(s, 1), "image", 1), "rule", 1))

TrimBlankLines(s) ==
    LET words == {i \in DOMAIN s : s[i] /= NewLine} IN
    IF words = {} THEN <<>> ELSE SubSeq(s, Min(words), Max(words))

\* A fence of the first kind is taken before one of the second wherever they are.
FenceOf(s) ==
    LET there == SelectSeq(FenceMarks, LAMBDA f : f \in ToSet(s)) IN
    IF there = <<>> THEN "none" ELSE there[1]

\* From a fence to the end of the line of the next of its kind all stays.
RECURSIVE FilterParts(_)
FilterParts(s) ==
    LET fence == FenceOf(s)
        start == NextToken(s, fence, 1)
        code == NextToken(s, NewLine, start + 1) + 1
        close == NextToken(s, fence, code)
        end == NextToken(s, NewLine, close + 1) IN
    IF fence = "none" THEN FilterSegment(s)
    ELSE FilterSegment(SubSeq(s, 1, start - 1)) \o
         (IF close > Len(s) THEN From(s, start) ELSE SubSeq(s, start, Min({end, Len(s)})) \o FilterParts(From(s, end + 1)))

FilterMarkdownBody(s) == TrimBlankLines(FilterParts(s))
=============================================================================
