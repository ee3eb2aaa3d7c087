------------------------------- MODULE Blocks -------------------------------
(***************************************************************************)
(* The block around a line (context.rs), found by braces or indentation or *)
(* taken from the ends of definitions that the index knows                 *)
(* (index/filedata.rs).  Lines are those of Reading.                       *)
(***************************************************************************)
EXTENDS Reading

\* The depth after each line from a first one on, and whether a brace was opened.
DepthFrom(lines, first) ==
    LET at[i \in first - 1 .. Len(lines)] ==
            IF i < first THEN [depth |-> 0, opened |-> FALSE]
            ELSE LET before == at[i - 1] IN
                 [depth |-> before.depth + Open(lines[i]) - Close(lines[i]),
                  opened |-> before.opened \/ HasBrace(lines[i])] IN
    at

Balanced(state) == state.opened /\ state.depth <= 0

\* Without braces the block ends with the next line that is indented no deeper.
FindBlockEnd(lines, first) ==
    LET at == DepthFrom(lines, first)
        ends == {i \in first .. Len(lines) : Balanced(at[i])}
        left == {i \in first + 1 .. Len(lines) :
                    ~lines[i].blank /\ lines[i].indent <= lines[first].indent} IN
    IF ends /= {} THEN Min(ends)
    ELSE IF ~at[Len(lines)].opened /\ left /= {} THEN Min(left)
    ELSE Len(lines)

\* The definitions of a file with the ends of their blocks, as the index keeps them.
BlocksOf(lines) ==
    [i \in DOMAIN Symbols(lines) |->
        [line |-> Symbols(lines)[i], end |-> FindBlockEnd(lines, Symbols(lines)[i])]]

-----------------------------------------------------------------------------
(* Without the index *)

\* The nearest line in the first column: a definition at the line or above it,
\* anything above it.
BlockStart(lines, target) ==
    Max({i \in 1 .. target :
            /\ ~lines[i].blank /\ lines[i].indent = 0
            /\ lines[i].def \/ i < target} \cup {0})

\* Through the braces: the first that closes all, at the target or behind it,
\* wins; one that closes before the target begins the search anew.
FindIndentBlock(lines, first, target) ==
    LET left == {i \in first + 1 .. Len(lines) :
                    ~lines[i].blank /\ lines[i].indent <= lines[first].indent}
        end == Min(left \cup {Len(lines) + 1}) - 1 IN
    IF target <= end THEN [first |-> first, last |-> end] ELSE None

FindBraceBlock(lines, target) ==
    LET found == BlockStart(lines, target)
        first == IF found = 0 THEN target ELSE found
        step(s, b) ==
            IF s.end /= None THEN s
            ELSE IF b.brace = "{" THEN [s EXCEPT !.depth = @ + 1, !.opened = TRUE]
            ELSE IF ~s.opened \/ s.depth /= 1 THEN [s EXCEPT !.depth = @ - 1]
            ELSE IF target <= b.line THEN [s EXCEPT !.depth = 0, !.end = b.line]
            ELSE [s EXCEPT !.depth = 0, !.opened = FALSE]
        line(s, i) ==
            FoldLeft(LAMBDA t, b : step(t, [brace |-> b, line |-> i]), s, lines[i].braces)
        done == FoldLeft(line, [depth |-> 0, opened |-> FALSE, end |-> None],
                         [k \in 1 .. Len(lines) - first + 1 |-> first + k - 1]) IN
    IF done.end /= None THEN [first |-> first, last |-> done.end]
    ELSE IF ~done.opened THEN FindIndentBlock(lines, first, target)
    ELSE [first |-> first, last |-> Len(lines)]

CONSTANT Around     \* lines shown around a line in no block

ExtractBlock(lines, target) ==
    IF target \notin DOMAIN lines THEN None
    ELSE LET block == FindBraceBlock(lines, target) IN
         IF block /= None THEN block
         ELSE [first |-> Max({1, target - Around}), last |-> Min({Len(lines), target + Around})]

\* Mutant: the first definition around the line.
OutermostBlock(around) == Min(around)

InnermostBlock(around) == Max(around)

\* blocks: the definitions as the index knows them; the last that holds the line.
ExtractBlockCached(lines, target, blocks) ==
    LET around == {i \in DOMAIN blocks : blocks[i].line <= target /\ target <= blocks[i].end}
        b == blocks[InnermostBlock(around)] IN
    IF around = {} THEN ExtractBlock(lines, target)
    ELSE [first |-> b.line, last |-> Min({b.end, Len(lines)})]
=============================================================================
