---------------------------- MODULE Cooccurrence ----------------------------
(***************************************************************************)
(* The words that stand near each other in a project (semantic/): names    *)
(* are split into words, and each pair of words on one line or on lines    *)
(* close to each other is counted.                                         *)
(***************************************************************************)
EXTENDS Integers, SequencesExt, FiniteSetsExt, Optional

CONSTANTS
    Small, Capital, Digits,     \* the letters of names, paired by Lower, and digits
    Lower,                      \* [Capital -> Small]
    MinLen,                     \* letters of the shortest word that is kept
    StopWords,                  \* words that say nothing
    Lookback, MaxLineTokens, MaxTokens, MaxPairs

ToLower(word) == [i \in DOMAIN word |-> IF word[i] \in Capital THEN Lower[word[i]] ELSE word[i]]

AllIn(word, set) == \A i \in DOMAIN word : word[i] \in set

\* Mutant: a capital after an acronym begins no word.
AcronymEnds(word, start, i) == FALSE

EndsAcronym(word, start, i) == i > start + 1 /\ i < Len(word) /\ word[i + 1] \in Small

\* A cut before a capital after a small letter, and before the last capital of
\* several when a small letter follows.
SplitIdentifier(word) ==
    LET cut(start, i) == /\ word[i] \in Capital
                         /\ (i > 1 /\ word[i - 1] \in Small) \/ EndsAcronym(word, start, i)
        done == FoldLeft(LAMBDA s, i :
                            IF cut(s.start, i)
                            THEN [out |-> Append(s.out, SubSeq(word, s.start, i - 1)), start |-> i]
                            ELSE s,
                         [out |-> <<>>, start |-> 1], [i \in DOMAIN word |-> i]) IN
    IF AllIn(word, Small \cup Digits) \/ AllIn(word, Capital \cup Digits) THEN <<word>>
    ELSE Append(done.out, SubSeq(word, done.start, Len(word)))

Words(line) ==
    LET letters == Small \cup Capital \cup Digits
        done == FoldLeft(LAMBDA s, c : IF c \in letters THEN [s EXCEPT !.word = Append(@, c)]
                                       ELSE [out |-> Append(s.out, s.word), word |-> <<>>],
                         [out |-> <<>>, word |-> <<>>], line) IN
    SelectSeq(Append(done.out, done.word), LAMBDA w : w /= <<>>)

\* Short words, stop words and numbers are dropped.
Tokenize(line) ==
    LET pieces == FlattenSeq([i \in DOMAIN Words(line) |-> SplitIdentifier(Words(line)[i])])
        lowered == [i \in DOMAIN pieces |-> ToLower(pieces[i])] IN
    SelectSeq(lowered, LAMBDA w : Len(w) >= MinLen /\ w \notin StopWords /\ ~AllIn(w, Digits))

-----------------------------------------------------------------------------
(* Counting: tokens in the order of their numbers, counts, and pairs *)

Nothing == [tokens |-> {}, counts |-> <<>>, pairs |-> <<>>]

Bump(counts, key) ==
    IF key \in DOMAIN counts THEN [counts EXCEPT ![key] = @ + 1] ELSE counts @@ (key :> 1)

\* When the table is full, only the pairs in it go on counting.
BumpPair(pairs, a, b) ==
    IF a = b \/ (Cardinality(DOMAIN pairs) >= MaxPairs /\ {a, b} \notin DOMAIN pairs) THEN pairs
    ELSE Bump(pairs, {a, b})

\* A token that finds no place is passed over.
InternAll(tokens, line) ==
    FoldLeft(LAMBDA s, t :
                IF t \in s.known THEN [s EXCEPT !.ids = Append(@, t)]
                ELSE IF Cardinality(s.known) >= MaxTokens THEN s
                ELSE [known |-> s.known \cup {t}, ids |-> Append(s.ids, t)],
             [known |-> tokens, ids |-> <<>>], line)

\* Each token with all of the lines before it, then those of the line among each other.
PairsOf(window, ids) ==
    LET before == FlattenSeq(window)
        ahead(i) == [k \in 1 .. Len(before) |-> <<before[k], ids[i]>>]
        among(i) == [k \in 1 .. Len(ids) - i |-> <<ids[i], ids[i + k]>>] IN
    FlattenSeq([i \in DOMAIN ids |-> ahead(i)]) \o FlattenSeq([i \in DOMAIN ids |-> among(i)])

\* Mutant: a line too many is remembered.
KeepOneMore(window) == IF Len(window) > Lookback + 1 THEN Tail(window) ELSE window

KeepWindow(window) == IF Len(window) > Lookback THEN Tail(window) ELSE window

\* Lines without words, and those with too many, are as if they were not there.
FeedLine(s, line) ==
    LET interned == InternAll(s.built.tokens, line)
        ids == interned.ids IN
    IF line = <<>> \/ Len(line) > MaxLineTokens THEN s
    ELSE [window |-> KeepWindow(Append(s.window, ids)),
          built |-> [tokens |-> interned.known,
                     counts |-> FoldLeft(Bump, s.built.counts, ids),
                     pairs |-> FoldLeft(LAMBDA p, ab : BumpPair(p, ab[1], ab[2]),
                                        s.built.pairs, PairsOf(s.window, ids))]]

FeedText(built, lines) == FoldLeft(FeedLine, [window |-> <<>>, built |-> built], lines).built
=============================================================================
