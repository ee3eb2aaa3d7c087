----------------------------- MODULE OutputFilter -----------------------------
(***************************************************************************)
(* The filters a command's output goes through (filter/): which filter is  *)
(* taken, its stages in their order, and the changed lines of a file       *)
(* (delta.rs).  A line is a text, with the number of lines it stands for;  *)
(* a gap says how many lines were left out in its place.                   *)
(***************************************************************************)
EXTENDS Naturals, SequencesExt, Optional

CONSTANTS
    Plain,      \* [text -> the text without colours]
    EndBound    \* texts that a pattern matches only with an end ($) after them

TextLine(text) == [kind |-> "line", text |-> text, n |-> 1]
Gap(n) == [kind |-> "gap", text |-> "gap", n |-> n]
Empty(line) == line.text = ""

\* Joined and split anew, a text loses the empty line at its end.
Lines(ls) == IF ls /= <<>> /\ Empty(Last(ls)) THEN Front(ls) ELSE ls

Take(ls, n) == SubSeq(ls, 1, n)
Drop(ls, n) == SubSeq(ls, n + 1, Len(ls))
Least(a, b) == IF a < b THEN a ELSE b

-----------------------------------------------------------------------------
(* The stages *)

StripAnsi(ls) == [i \in 1 .. Len(ls) |-> [ls[i] EXCEPT !.text = Plain[@]]]

\* Equal neighbours become one line that says how many they were.
DedupConsecutive(ls) ==
    FoldLeft(LAMBDA out, l : IF out /= <<>> /\ Last(out).text = l.text
                             THEN Append(Front(out), [l EXCEPT !.n = Last(out).n + l.n])
                             ELSE Append(out, l),
             <<>>, Lines(ls))

\* What a replacement leaves empty is dropped, as is what was empty before.
ApplyReplacements(ls, rules) ==
    SelectSeq([i \in 1 .. Len(Lines(ls)) |->
                  [ls[i] EXCEPT !.text = IF @ \in DOMAIN rules THEN rules[@] ELSE @]],
              LAMBDA l : ~Empty(l))

\* A text is matched as it is now: with its count behind it, when it has one.
Matches(l, set) == l.text \in set /\ (l.text \in EndBound => l.n = 1)

KeepLines(ls, set) == SelectSeq(Lines(ls), LAMBDA l : Matches(l, set))
DropLines(ls, set) == SelectSeq(Lines(ls), LAMBDA l : ~Matches(l, set))

TakeHead(ls, n) ==
    LET all == Lines(ls) IN
    IF Len(all) <= n THEN ls ELSE Append(Take(all, n), Gap(Len(all) - n))

TakeTail(ls, n) ==
    LET all == Lines(ls) IN
    IF Len(all) <= n THEN ls ELSE <<Gap(Len(all) - n)>> \o Drop(all, Len(all) - n)

\* Mutant: one line fewer at the end than the gap's number allows for.
CapLinesShort(ls, n) ==
    LET all == Lines(ls)
        head == (n * 3) \div 5 IN
    IF Len(all) <= n THEN ls
    ELSE Take(all, head) \o <<Gap(Len(all) - n)>> \o Drop(all, Len(all) - (n - head) + 1)

\* Six tenths from the start and the rest from the end; with no room at the start
\* an empty line stands there.
CapLines(ls, n) ==
    LET all == Lines(ls)
        head == (n * 3) \div 5
        start == IF head = 0 THEN <<TextLine("")>> ELSE Take(all, head)
        end == Drop(all, Len(all) - (n - head)) IN
    IF Len(all) <= n THEN ls
    ELSE start \o <<Gap(Len(all) - n)>> \o (IF end = <<>> THEN <<TextLine("")>> ELSE end)

CollapseBlank(ls) ==
    FoldLeft(LAMBDA out, l : IF Empty(l) /\ out /= <<>> /\ Empty(Last(out)) THEN out ELSE Append(out, l),
             <<>>, Lines(ls))

Stage(on, ls, new) == IF on THEN new ELSE ls

\* The limits, one after the other: each counts the lines the one before left,
\* the gaps with them.
Limit(f, ls) ==
    LET head == Stage(f.head /= None, ls, TakeHead(ls, f.head))
        tail == Stage(f.tail /= None, head, TakeTail(head, f.tail)) IN
    Stage(f.max /= None, tail, CapLines(tail, f.max))

\* What the limits get.
Select(f, raw) ==
    LET plain == Stage(f.ansi, raw, StripAnsi(raw))
        dedup == Stage(f.dedup, plain, DedupConsecutive(plain))
        replaced == Stage(f.replace /= <<>>, dedup, ApplyReplacements(dedup, f.replace)) IN
    CASE f.keep /= {} -> KeepLines(replaced, f.keep)
      [] f.keep = {} /\ f.drop /= {} -> DropLines(replaced, f.drop)
      [] OTHER -> replaced

ApplyFilter(f, raw) ==
    LET limited == Limit(f, Select(f, raw))
        blank == \A i \in 1 .. Len(limited) : Empty(limited[i]) IN
    CollapseBlank(IF f.empty /= None /\ blank THEN <<TextLine(f.empty)>> ELSE limited)

-----------------------------------------------------------------------------
(* The filters *)

\* A file that does not parse gives none; a filter with an invalid pattern, or
\* with keep_lines and drop_lines, is left out alone.
Compile(file) ==
    IF ~file.parses THEN <<>>
    ELSE SelectSeq(file.filters, LAMBDA f : f.valid /\ (f.keep = {} \/ f.drop = {}))

\* Built-in, then the user's, then the project's that are trusted as they are now.
LoadFilters(builtin, user, project, trusted) ==
    FlattenSeq([i \in 1 .. Len(builtin) |-> Compile(builtin[i])])
        \o FlattenSeq([i \in 1 .. Len(user) |-> Compile(user[i])])
        \o FlattenSeq([i \in 1 .. Len(project) |->
                          IF project[i] \in trusted THEN Compile(project[i]) ELSE <<>>])

\* The first that matches, asked with the command as given and then with the bare
\* name of its program.
Find(filters, command, bare) ==
    LET first(c) == SelectInSeq(filters, LAMBDA f : c \in f.matches) IN
    IF first(command) /= 0 THEN filters[first(command)]
    ELSE IF first(bare) /= 0 THEN filters[first(bare)] ELSE None

-----------------------------------------------------------------------------
(* The changed lines of a file *)

Radius == 2

\* Mutant: the count taken for the last line's distance.
ChangedLinesThrough(hunks) ==
    UNION {{l : l \in h.start .. h.start + h.count} : h \in ToSet(hunks)}

\* A hunk's new side: start and count; a deletion has none.
ChangedLines(hunks) ==
    UNION {{l : l \in h.start .. h.start + h.count - 1} : h \in ToSet(hunks)}

\* Each changed line with its neighbours and the nearest signature above it, or
\* on it.
Included(total, changed, signatures) ==
    LET above(l) == {s \in signatures : s <= Least(l, total)} IN
    UNION {(IF l > Radius THEN l - Radius ELSE 1) .. Least(l + Radius, total) : l \in changed}
        \cup {CHOOSE s \in above(l) : \A t \in above(l) : t <= s : l \in {c \in changed : above(c) /= {}}}

\* The lines in order, a gap where some are missing between two, none before the
\* first and after the last.
ParseDelta(total, hunks, signatures) ==
    LET changed == ChangedLines(hunks)
        included == Included(total, changed, signatures)
        shown == SelectSeq([l \in 1 .. total |-> l], LAMBDA l : l \in included) IN
    FlattenSeq([i \in 1 .. Len(shown) |->
        (IF i > 1 /\ shown[i] > shown[i - 1] + 1
         THEN <<[kind |-> "gap", line |-> shown[i] - shown[i - 1] - 1]>> ELSE <<>>)
            \o <<[kind |-> IF shown[i] \in changed THEN "changed" ELSE "context", line |-> shown[i]]>>])
=============================================================================
