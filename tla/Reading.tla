------------------------------ MODULE Reading ------------------------------
(***************************************************************************)
(* What `ig read` leaves of a source file (read.rs): the signatures, found *)
(* in the file or taken from the index, or the file without its comments   *)
(* and the bodies of its functions.  A line is a record of what the        *)
(* patterns of its language say of it:                                     *)
(*   blank, import, def (a definition), fn (of a function), comment, doc;  *)
(*   opens, closes: the comment over several lines that begins with it,    *)
(*   and those it ends; braces: its braces in order, but for a comment     *)
(*   behind code, which has none;                                          *)
(*   lone: it is a brace and nothing else; indent: the blanks in front.    *)
(***************************************************************************)
EXTENDS Integers, SequencesExt, FiniteSetsExt, Optional

CONSTANT MaxSymbols     \* definitions of a file that the index keeps

Braces(line, brace) == Len(SelectSeq(line.braces, LAMBDA b : b = brace))
Open(line) == Braces(line, "{")
Close(line) == Braces(line, "}")
HasBrace(line) == Open(line) > 0

Role(line) ==
    IF line.blank THEN "blank" ELSE IF line.import THEN "import"
    ELSE IF line.def THEN "def" ELSE "code"

-----------------------------------------------------------------------------
(* Signatures: lines by number; clean ones lose the brace at their end *)

Numbered(lines) == [i \in DOMAIN lines |-> [n |-> i, line |-> lines[i]]]
Entry(i, clean) == [n |-> i, clean |-> clean]

ReadSignatures(lines) ==
    FlattenSeq([i \in DOMAIN lines |->
        CASE Role(lines[i]) = "import" -> <<Entry(i, FALSE)>>
          [] Role(lines[i]) = "def" -> <<Entry(i, TRUE)>>
          [] OTHER -> <<>>])

\* What the index keeps of a file: the first definitions.
Symbols(lines) ==
    LET all == SelectSeq(Numbered(lines), LAMBDA l : l.line.def) IN
    [i \in 1 .. Min({Len(all), MaxSymbols}) |-> all[i].n]

\* Sorted by line, what was there first stays first; of one line only the first.
SortByLine(entries) ==
    FlattenSeq([n \in 1 .. Max({0} \cup {e.n : e \in ToSet(entries)}) |->
                   SelectSeq(entries, LAMBDA e : e.n = n)])

\* Mutant: a line that is an import and a definition is there twice.
KeepAllOfLine(entries) == entries

DedupByLine(entries) ==
    LET firsts == SelectSeq([i \in DOMAIN entries |-> i],
                            LAMBDA i : i = 1 \/ entries[i].n /= entries[i - 1].n) IN
    [k \in DOMAIN firsts |-> entries[firsts[k]]]

\* symbols: the lines of the definitions, as the index knows them.
ReadSignaturesCached(lines, symbols) ==
    LET imports == SelectSeq(Numbered(lines), LAMBDA l : l.line.import)
        known == SelectSeq(symbols, LAMBDA n : n <= Len(lines)) IN
    DedupByLine(SortByLine([i \in DOMAIN imports |-> Entry(imports[i].n, FALSE)]
                               \o [i \in DOMAIN known |-> Entry(known[i], TRUE)]))

-----------------------------------------------------------------------------
(* The aggressive mode: first the comments go *)

\* A line of a comment that goes on, its first line, and a comment of one line.
StripComments(lines) ==
    LET step(s, l) ==
            IF s.inside /= None
            THEN [s EXCEPT !.inside = IF @ \in l.line.closes THEN None ELSE @]
            ELSE IF l.line.opens /= None
            THEN [s EXCEPT !.inside = IF l.line.opens \in l.line.closes THEN None ELSE l.line.opens]
            ELSE IF l.line.comment /\ ~l.line.doc THEN s
            ELSE [s EXCEPT !.out = Append(@, l)] IN
    FoldLeft(step, [inside |-> None, out |-> <<>>], Numbered(lines)).out

-----------------------------------------------------------------------------
(* Then the bodies of functions.  The state goes from line to line:         *)
(*   depth of the braces; body, the depth outside the function whose lines  *)
(*   are left out; type, that outside the type whose lines are kept; outer, *)
(*   the type to go back to; pending, what a brace on the next line opens.  *)

Begin == [out |-> <<>>, depth |-> 0, body |-> None, type |-> None, outer |-> None,
          pending |-> None, blank |-> FALSE, elided |-> FALSE]

Emit(s, what, l) == [s EXCEPT !.out = Append(@, [n |-> l.n, what |-> what])]
Nest(s, line) == [s EXCEPT !.depth = @ + Open(line) - Close(line)]

OpenPending(s) ==
    [s EXCEPT !.depth = @ + 1, !.pending = None,
              !.body = IF s.pending = "body" THEN s.depth ELSE @,
              !.type = IF s.pending = "type" THEN s.depth ELSE @]

ReadImport(s, l) ==
    Nest(Emit([s EXCEPT !.body = None, !.type = None, !.blank = FALSE], "line", l), l.line)

Remember(s) == [s EXCEPT !.outer = s.type]

\* A method: the type waits until its body is over.
BeginMethod(s, line) ==
    IF Open(line) > Close(line) THEN [Remember(s) EXCEPT !.body = s.depth, !.type = None]
    ELSE IF ~HasBrace(line) THEN [Remember(s) EXCEPT !.pending = "body"]
    ELSE s

BeginFunction(s, line) ==
    IF Open(line) > Close(line) THEN [s EXCEPT !.body = s.depth]
    ELSE IF ~HasBrace(line) THEN [s EXCEPT !.pending = "body"] ELSE s

BeginType(s, line) ==
    IF Open(line) > Close(line) THEN [s EXCEPT !.type = s.depth]
    ELSE IF ~HasBrace(line) THEN [s EXCEPT !.pending = "type"] ELSE s

ReadDefinition(s, l) ==
    LET shown == Emit([s EXCEPT !.blank = FALSE, !.elided = FALSE], "line", l)
        fresh == [shown EXCEPT !.body = None, !.outer = None] IN
    Nest(IF s.type /= None THEN IF l.line.fn THEN BeginMethod(shown, l.line) ELSE shown
         ELSE IF l.line.fn THEN BeginFunction(fresh, l.line) ELSE BeginType(fresh, l.line),
         l.line)

\* Mutant: what closes an inner block closes the body.
AnyBlockOver(s) == s.depth <= s.body + 1

BodyOver(s) == s.depth <= s.body

\* A line of a body: the first stands for all, the one that closes it is kept.
ReadBody(s, l) ==
    IF BodyOver(s)
    THEN Emit([s EXCEPT !.body = None, !.elided = FALSE, !.outer = None,
                        !.type = IF s.outer /= None THEN s.outer ELSE @], "line", l)
    ELSE IF s.elided THEN s ELSE Emit([s EXCEPT !.elided = TRUE], "mark", l)

ReadPlain(s, l) ==
    IF ~l.line.blank THEN Emit([s EXCEPT !.blank = FALSE], "line", l)
    ELSE IF s.blank THEN s ELSE Emit([s EXCEPT !.blank = TRUE], "blank", l)

ReadOther(s, l) ==
    LET now == Nest(s, l.line) IN
    IF now.body /= None THEN ReadBody(now, l)
    ELSE IF now.type /= None /\ now.depth <= now.type THEN Emit([now EXCEPT !.type = None], "line", l)
    ELSE ReadPlain(now, l)

\* A brace alone, awaited or not; anything else ends the waiting.
ReadLine(s, l) ==
    LET on == [s EXCEPT !.pending = None] IN
    IF s.pending /= None /\ l.line.lone THEN OpenPending(s)
    ELSE CASE Role(l.line) = "import" -> ReadImport(on, l)
           [] Role(l.line) = "def" -> ReadDefinition(on, l)
           [] OTHER -> ReadOther(on, l)

ReadAggressive(lines) == FoldLeft(ReadLine, Begin, StripComments(lines)).out

-----------------------------------------------------------------------------
(* Within a line: the comment at its end, and long strings.  A line is a      *)
(* sequence of characters.                                                    *)

CONSTANT LongString     \* characters of the longest string that is kept, quotes included

QuoteMarks == {"'", "\""}

\* Mutant: a backslash is a character like any other.
OpenQuotesUnescaped(text) ==
    LET open[i \in 0 .. Len(text)] ==
            IF i = 0 THEN [quote |-> None, escaped |-> FALSE]
            ELSE LET before == open[i - 1]
                     c == text[i] IN
                 IF c \in QuoteMarks /\ before.quote = None THEN [before EXCEPT !.quote = c]
                 ELSE IF c = before.quote THEN [before EXCEPT !.quote = None]
                 ELSE before IN
    open

\* The quote that is open at each place; a backslash takes the next character along.
OpenQuotes(text) ==
    LET open[i \in 0 .. Len(text)] ==
            IF i = 0 THEN [quote |-> None, escaped |-> FALSE]
            ELSE LET before == open[i - 1]
                     c == text[i] IN
                 IF before.escaped THEN [before EXCEPT !.escaped = FALSE]
                 ELSE IF c = "\\" /\ i < Len(text) THEN [before EXCEPT !.escaped = TRUE]
                 ELSE IF c \in QuoteMarks /\ before.quote = None THEN [before EXCEPT !.quote = c]
                 ELSE IF c = before.quote THEN [before EXCEPT !.quote = None]
                 ELSE before IN
    open

TrimEnd(text) ==
    SubSeq(text, 1, Max({0} \cup {i \in DOMAIN text : text[i] /= " "}))

\* A mark of a comment counts where no quote is open once its character is read.
StripInlineComment(text, mark) ==
    LET open == OpenQuotes(text)
        at == {i \in 1 .. Len(text) - Len(mark) + 1 :
                  /\ SubSeq(text, i, i + Len(mark) - 1) = mark
                  /\ open[i].quote = None /\ ~open[i].escaped /\ ~open[i - 1].escaped} IN
    IF at = {} THEN text ELSE TrimEnd(SubSeq(text, 1, Min(at) - 1))

Dots == <<".", ".", ".">>

\* From a quote to the next of its kind, or to the end of the line.
StripLongStrings(text) ==
    LET n == Len(text)
        close[q \in QuoteMarks, i \in 1 .. n + 2] ==
            IF i > n THEN n + 1
            ELSE IF text[i] = q THEN i + 1
            ELSE IF text[i] = "\\" THEN close[q, i + 2]
            ELSE close[q, i + 1]
        strip[i \in 1 .. n + 2] ==
            IF i > n THEN <<>>
            ELSE IF text[i] \notin QuoteMarks THEN <<text[i]>> \o strip[i + 1]
            ELSE LET end == close[text[i], i + 1] IN
                 (IF end - i > LongString THEN <<text[i]>> \o Dots \o <<text[i]>>
                  ELSE SubSeq(text, i, end - 1)) \o strip[end] IN
    strip[1]
=============================================================================
