---------------------------- MODULE Compressing ----------------------------
(***************************************************************************)
(* How the lines left by `ig read` are made to fit (scoring.rs): repeated  *)
(* ones are merged, the least telling ones are left out.  A line is        *)
(*   [n, kind, pattern, len, entropy, relevant, x]:                        *)
(* its number, what kind of code it is, what is left of it when strings    *)
(* and names are taken out, its length, how rare its trigrams are, whether *)
(* it has the word asked for, and how many lines it stands for.  Scores    *)
(* are in twentieths: a signature of average rarity has 20.                *)
(***************************************************************************)
EXTENDS Integers, SequencesExt, FiniteSetsExt, Optional

KindWeights == [signature |-> 20, call |-> 16, control |-> 10, other |-> 10,
            assignment |-> 6, symbols |-> 2, empty |-> 0]

SignatureScore == 19        \* 0.95, from which a line counts as a signature
LeastScore == 1             \* 0.05, below which a line says nothing
Numbering == 7              \* bytes of a line's number in front of it
Times == 5                  \* bytes that say how often a line is there

Score(line) ==
    line.entropy * KindWeights[line.kind]
        * (IF ~line.relevant THEN 1 ELSE IF line.kind = "signature" THEN 3 ELSE 2)

Sum(numbers) == FoldLeft(LAMBDA a, b : a + b, 0, numbers)
PrintedWidth(line) == line.len + Numbering

\* Mutant: only neighbours are merged, but all of a kind are counted.
FirstOfRun(lines, i) == i = 1 \/ lines[i - 1].pattern /= lines[i].pattern

FirstOfAll(lines, i) == \A k \in 1 .. i - 1 : lines[k].pattern /= lines[i].pattern

\* Three or more lines of one pattern become the first of them, which says how many.
DeduplicateLines(lines) ==
    LET times(i) == Cardinality({k \in DOMAIN lines : lines[k].pattern = lines[i].pattern}) IN
    FlattenSeq([i \in DOMAIN lines |->
        IF times(i) < 3 THEN <<lines[i]>>
        ELSE IF FirstOfAll(lines, i)
        THEN <<[lines[i] EXCEPT !.x = times(i), !.len = @ + Times, !.score = @ * times(i)]>>
        ELSE <<>>])

\* They go in their order until the rest fits.
RemoveUntilFits(s, lines, order, budget) ==
    FoldLeft(LAMBDA t, i : IF t.total <= budget \/ i \in t.removed THEN t
                           ELSE [removed |-> t.removed \cup {i}, total |-> t.total - PrintedWidth(lines[i])],
             s, order)

\* Lines and, where some were left out, a mark that says how many.
WithMarks(lines, removed) ==
    LET mark(n) == IF n = 0 THEN <<>> ELSE <<[kind |-> "omitted", n |-> n]>>
        done == FoldLeft(LAMBDA s, i :
                            IF i \in removed THEN [s EXCEPT !.omitted = @ + 1]
                            ELSE [out |-> s.out \o mark(s.omitted) \o <<lines[i]>>, omitted |-> 0],
                         [out |-> <<>>, omitted |-> 0], [i \in DOMAIN lines |-> i]) IN
    done.out \o mark(done.omitted)

MayGoFirst(line) == line.score < SignatureScore

\* budget: tokens of four bytes.  The lines of the least score go first, of equal
\* ones the first; the signatures only when nothing else is left.
FitToBudget(lines, budget) ==
    LET order == SortSeq([i \in DOMAIN lines |-> i],
                         LAMBDA i, k : lines[i].score < lines[k].score \/ (lines[i].score = lines[k].score /\ i < k))
        all == [removed |-> {}, total |-> Sum([i \in DOMAIN lines |-> PrintedWidth(lines[i])])]
        first == RemoveUntilFits(all, lines, SelectSeq(order, LAMBDA i : MayGoFirst(lines[i])), 4 * budget)
        second == RemoveUntilFits(first, lines, order, 4 * budget) IN
    WithMarks(lines, second.removed)

CompressLsc(lines, budget) ==
    LET scored == [i \in DOMAIN lines |-> lines[i] @@ [score |-> Score(lines[i])]]
        deduped == DeduplicateLines(scored) IN
    IF budget /= None THEN FitToBudget(deduped, budget)
    ELSE SelectSeq(deduped, LAMBDA l : l.score >= LeastScore)

-----------------------------------------------------------------------------
(* What makes two lines repetitions of each other (pattern_key): the line, a *)
(* sequence of characters, with "*" for strings and names.                   *)

Star == <<"*">>
StringQuotes == {"'", "\""}
Letter == {"x", "y", "_"}

\* Mutant: a string ends at the next quote, also at one after a backslash.
StringEndUnescaped(line, i) ==
    LET closing == {k \in i + 1 .. Len(line) : line[k] = line[i]} IN
    IF closing = {} THEN Len(line) ELSE Min(closing)

\* The closing quote of the string that opens at i, or the end of the line.
StringEnd(line, i) ==
    LET end[k \in i + 1 .. Len(line) + 2] ==
            IF k > Len(line) THEN Len(line)
            ELSE IF line[k] = line[i] THEN k
            ELSE IF line[k] = "\\" THEN end[k + 2] ELSE end[k + 1] IN
    end[i + 1]

NameEnd(line, i) == Max({k \in i .. Len(line) : \A j \in i .. k : line[j] \in Letter} \cup {i - 1})
IndexEnd(line, i) == Min({k \in i .. Len(line) : line[k] = "]"} \cup {Len(line)})

PatternKey(line) ==
    LET n == Len(line)
        at(i, s) == i + Len(s) - 1 <= n /\ SubSeq(line, i, i + Len(s) - 1) = s
        key[i \in 1 .. n + 1] ==
            IF i = n + 1 THEN <<>>
            ELSE IF line[i] \in StringQuotes THEN Star \o key[StringEnd(line, i) + 1]
            ELSE IF at(i, <<"-", ">">>) THEN <<"-", ">">> \o Star \o key[NameEnd(line, i + 2) + 1]
            ELSE IF line[i] = "." /\ i < n /\ line[i + 1] \in Letter \ {"_"}
            THEN <<".">> \o Star \o key[NameEnd(line, i + 1) + 1]
            ELSE IF at(i, <<"[", "'">>) THEN <<"[">> \o Star \o <<"]">> \o key[IndexEnd(line, i + 2) + 1]
            ELSE <<line[i]>> \o key[i + 1] IN
    key[1]
=============================================================================
