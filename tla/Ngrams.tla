-------------------------------- MODULE Ngrams --------------------------------
(***************************************************************************)
(* The sparse n-grams of src/src/index/ngram.rs.  A byte string of n bytes *)
(* has n - 1 bigrams; w is the sequence of their weights.  The n-gram from *)
(* bigram j to bigram i is written <<j, i>>: it starts at byte j and ends  *)
(* with byte i + 1.                                                        *)
(*                                                                         *)
(* Text is a sequence of numbers that stand for bytes; a mask is the set   *)
(* of its bits.  hash_ngram is taken to tell n-grams apart: a collision    *)
(* merges two posting lists, which adds candidates and removes none.       *)
(***************************************************************************)
EXTENDS Integers, Sequences, SequencesExt, FiniteSets

CONSTANTS
    Blooms,    \* bits of a next mask: 8
    Locs,      \* bits of a loc mask: 8
    Zones,     \* POSITION_ZONE_COUNT: 31
    Width      \* the range of a weight: 2^32

ASSUME MaskAssumption == {Blooms, Locs, Zones, Width} \subseteq Nat \ {0}

Top(stack) == stack[Len(stack)]

-----------------------------------------------------------------------------
(* Weights *)

\* hash_bigram's place is taken by base; frequent pairs are pushed down, rare
\* and structural ones up.
BigramWeight(base, kind) ==
    CASE kind \in {"camel", "snake"} -> (base * 2) % Width
      [] kind = "structural" -> ((base * 3) \div 2) % Width
      [] kind \in {"space_lower", "indent", "double_space", "common"} -> base \div 2
      [] OTHER -> base

\* idf_multiplier in quarters: df of docs hold the bigram.
IdfQuarters(df, docs) ==
    CASE docs = 0 -> 4
      [] 2 * df > docs -> 1
      [] 5 * df > docs -> 2
      [] 100 * df < docs -> 12
      [] 20 * df < docs -> 8
      [] OTHER -> 4

BigramWeightIdf(base, kind, df, docs) ==
    Max({1, (BigramWeight(base, kind) * IdfQuarters(df, docs)) \div 4})

-----------------------------------------------------------------------------
(* build_all_ngrams: what the index holds *)

\* Mutant: the equals of the popped bigram stay.
RECURSIVE PopOnlyTop(_, _, _)
PopOnlyTop(w, i, s) ==
    IF s.stack = <<>> \/ w[i] <= w[Top(s.stack)] THEN s
    ELSE PopOnlyTop(w, i, [out |-> Append(s.out, <<Top(s.stack), i>>), stack |-> Front(s.stack)])

\* The bigrams below the new one leave the stack; those of the top's weight go
\* with the top.
RECURSIVE PopSmaller(_, _, _)
PopSmaller(w, i, s) ==
    IF s.stack = <<>> \/ w[i] <= w[Top(s.stack)] THEN s
    ELSE LET top == Top(s.stack)
             others == {k \in 1 .. Len(s.stack) : w[s.stack[k]] /= w[top]}
         IN  PopSmaller(w, i, [out |-> Append(s.out, <<top, i>>),
                               stack |-> SubSeq(s.stack, 1, Max({0} \cup others))])

PushBigram(w, i, s) ==
    LET t == PopSmaller(w, i, s) IN
    [out |-> IF t.stack = <<>> THEN t.out ELSE Append(t.out, <<Top(t.stack), i>>),
     stack |-> Append(t.stack, i)]

BuildAll(w) ==
    IF Len(w) < 2 THEN <<>>
    ELSE FoldLeft(LAMBDA s, i : PushBigram(w, i, s), [out |-> <<>>, stack |-> <<>>],
                  [i \in 1 .. Len(w) |-> i]).out

-----------------------------------------------------------------------------
(* build_covering_ngrams: what a query asks for *)

\* From the back: each remaining bigram to the next one.
RECURSIVE Drain(_)
Drain(s) ==
    IF Len(s.deque) < 2 THEN s
    ELSE Drain([out |-> Append(s.out, <<s.deque[Len(s.deque) - 1], Top(s.deque)>>),
                deque |-> Front(s.deque)])

\* The front n-gram is emitted when the span grows to max.
Window(i, max, s) ==
    IF Len(s.deque) > 1 /\ i + 3 - s.deque[1] >= max
    THEN [out |-> Append(s.out, <<s.deque[1], s.deque[2]>>), deque |-> Tail(s.deque)]
    ELSE s

\* Mutant: the bigrams between equal ones are not emitted.
RECURSIVE PopBackQuietly(_, _, _)
PopBackQuietly(w, i, s) ==
    IF s.deque = <<>> \/ w[i] <= w[Top(s.deque)] THEN s
    ELSE PopBackQuietly(w, i, [s EXCEPT !.deque = Front(@)])

\* When all that remain weigh the same the back reaches the new bigram.
RECURSIVE PopBack(_, _, _)
PopBack(w, i, s) ==
    IF s.deque = <<>> \/ w[i] <= w[Top(s.deque)] THEN s
    ELSE LET back == Top(s.deque)
             t == IF w[s.deque[1]] = w[back]
                  THEN Drain([s EXCEPT !.out = Append(@, <<back, i>>)]) ELSE s
         IN  PopBack(w, i, [t EXCEPT !.deque = Front(@)])

PushCovering(w, i, max, s) ==
    LET t == PopBack(w, i, Window(i, max, s)) IN [t EXCEPT !.deque = Append(@, i)]

BuildCovering(w, max) ==
    IF Len(w) < 2 THEN <<>>
    ELSE Drain(FoldLeft(LAMBDA s, i : PushCovering(w, i, max, s),
                        [out |-> <<>>, deque |-> <<>>], [i \in 1 .. Len(w) |-> i])).out

-----------------------------------------------------------------------------
(* extract_sparse_ngrams_with_masks *)

BloomBit(c) == {(c * 31) % Blooms}
LocBit(position) == {position % Locs}
ZoneBit(position) == {IF position < Zones THEN position ELSE Zones}

Weights(text, weight) == [i \in 1 .. Len(text) - 1 |-> weight[text[i], text[i + 1]]]

\* Where an n-gram of the index occurs: every sparse n-gram and every bigram.
Occurrences(text, weight) ==
    ToSet(BuildAll(Weights(text, weight))) \cup {<<i, i>> : i \in 1 .. Len(text) - 1}

KeyAt(text, o) == SubSeq(text, o[1], o[2] + 1)

\* The masks of all occurrences of a key are united; positions count from 0.
MasksOf(text, occurrences, key) ==
    LET at == {o \in occurrences : KeyAt(text, o) = key} IN
    [next |-> UNION {IF o[2] + 2 <= Len(text) THEN BloomBit(text[o[2] + 2]) ELSE {} : o \in at},
     loc |-> UNION {LocBit(o[1] - 1) : o \in at},
     zone |-> UNION {ZoneBit(o[1] - 1) : o \in at}]

KeysOf(text, occurrences) == {KeyAt(text, o) : o \in occurrences}

-----------------------------------------------------------------------------
(* What the n-grams are for *)

\* The definition the stack computes: between its two ends an n-gram has only
\* lighter bigrams.
Sparse(w) ==
    {<<j, i>> \in (1 .. Len(w)) \X (1 .. Len(w)) :
        j < i /\ \A k \in j + 1 .. i - 1 : w[k] < w[j] /\ w[k] < w[i]}

Covered(ranges, n) == UNION {o[1] .. o[2] : o \in ranges} = 1 .. n
=============================================================================
