------------------------------- MODULE IndexData -------------------------------
(***************************************************************************)
(* The index's algorithms on growing inputs: a behaviour feeds one of them *)
(* one more bigram, posting, document, key or byte at a time, and the      *)
(* invariants compare what it computes with what it is to compute.         *)
(***************************************************************************)
EXTENDS Inputs, Postings, Segments, IndexQuery

CONSTANTS

    MaxWeights, WeightRange, Maxima,    \* bigrams, their weights, n-gram lengths
    MaxId,          \* documents of posting lists
    MaxDocs, MaxKey, MaskBits,          \* documents to invert
    MaxText, Bytes, ByteWeight      \* texts and literals of a query

IndexStart == [weights |-> <<>>, lists |-> <<<<>>, <<>>>>, entries |-> <<>>, docs |-> <<>>,
          keys |-> <<>>, query |-> [text |-> <<>>, lits |-> <<>>]]

IndexInit == part \in Parts \cap DOMAIN IndexStart /\ input = IndexStart[part]

MoreWeights ==
    /\ part = "weights" /\ Len(input) < MaxWeights
    /\ \E x \in 1 .. WeightRange : input' = Append(input, x)
    /\ UNCHANGED part

\* A sorted list grows at its end.
MoreIds ==
    /\ part = "lists"
    /\ \E i \in {1, 2} : \E id \in 0 .. MaxId :
          /\ \A k \in 1 .. Len(input[i]) : input[i][k] < id
          /\ input' = [input EXCEPT ![i] = Append(@, id)]
    /\ UNCHANGED part

MoreEntries ==
    /\ part = "entries"
    /\ \E id \in 0 .. MaxId, bit \in {0, 1} :
          /\ \A k \in 1 .. Len(input) : input[k].doc < id
          /\ input' = Append(input, [doc |-> id, next |-> bit, loc |-> 1 - bit, zone |-> bit])
    /\ UNCHANGED part

MoreDocs ==
    /\ part = "docs" /\ Len(input) < MaxDocs
    /\ \E keys \in SUBSET (1 .. MaxKey) : \E doc \in [keys -> {{b} : b \in MaskBits}] :
          input' = Append(input, doc)
    /\ UNCHANGED part

\* The merged keys come in order.
MoreKeys ==
    /\ part = "keys"
    /\ \E key \in 0 .. KeyRange - 2 :
          /\ \A k \in 1 .. Len(input) : input[k] < key
          /\ input' = Append(input, key)
    /\ UNCHANGED part

\* A text, which the base index holds as it is and the overlay reversed, and a
\* literal no longer than it or two short ones, the lighter first.
MoreQuery ==
    /\ part = "query"
    /\ \/ /\ Len(input.text) < MaxText /\ input.lits = <<>>
          /\ \E c \in Bytes : input' = [input EXCEPT !.text = Append(@, c)]
       \/ /\ Len(input.lits) < 2
          /\ \E n \in 2 .. Len(input.text) : \E lit \in [1 .. n -> Bytes] :
                /\ input.lits /= <<>> => /\ n = 2 /\ Len(input.lits[1]) = 2
                                         /\ lit[1] + lit[2] >= input.lits[1][1] + input.lits[1][2]
                /\ input' = [input EXCEPT !.lits = Append(@, lit)]
    /\ UNCHANGED part

IndexNext == MoreWeights \/ MoreIds \/ MoreEntries \/ MoreDocs \/ MoreKeys \/ MoreQuery


-----------------------------------------------------------------------------
\* The n-grams the stack finds are exactly those whose ends outweigh all they
\* enclose, each found once (build_all_ngrams).
StackFindsTheSparse ==
    part = "weights" =>
        /\ ToSet(BuildAll(input)) = Sparse(input)
        /\ Len(BuildAll(input)) = Cardinality(Sparse(input))

\* What a query asks for is in the index of every text that holds the literal,
\* whatever the length limit, and together covers the literal
\* (build_covering_ngrams against build_all_ngrams).
CoveringIsIndexed ==
    part = "weights" => \A max \in Maxima :
        LET asked == ToSet(BuildCovering(input, max)) IN
        /\ asked \subseteq Sparse(input)
        /\ Len(input) >= 2 => Covered(asked, Len(input))

\* Whichever way the lengths make it choose, an intersection has the common ids
\* and a union all of them, in order and once (postings.rs).
ListsAreCombined ==
    part = "lists" =>
        LET a == input[1] b == input[2]
            sorted(set) == SetToSortSeq(set, <) IN
        /\ Intersect(a, b) = sorted(ToSet(a) \cap ToSet(b))
        /\ IntersectIters(a, b) = sorted(ToSet(a) \cap ToSet(b))
        /\ Union(a, b) = sorted(ToSet(a) \cup ToSet(b))

\* Both encodings decode to what they encode, and the count that stands in the
\* header is the number of entries; of a list of ids that is cut short the first ids
\* are read, by the iterator as by the decoder (vbyte.rs).
EncodingsAreRead ==
    part = "entries" =>
        /\ Decode(Encode(input)) = input
        /\ EntryCount(Encode(input)) = Len(input)
        /\ LET ids == [i \in DOMAIN input |-> input[i].doc]
               data == EncodeIds(ids) IN
           /\ DecodeIds(data) = ids
           /\ \A n \in 0 .. Len(data) :
                 LET left == SubSeq(data, 1, n) IN
                 IsPrefix(DecodeIds(left), ids) /\ Iterated(left) = DecodeIds(left)

\* Skipping blocks loses no candidate: looked up in ascending order over the
\* encoded list, the candidates get the entries that decoding all would give
\* them (PostingEntrySkipper).
SkippingLosesNothing ==
    part = "entries" /\ Len(input) >= SkipMin =>
        \A wanted \in SUBSET (0 .. MaxId), next \in {0, 1} :
            SkipLookup(Encode(input), SetToSortSeq(wanted, <), next)
              = SelectSeq(input, LAMBDA e : e.doc \in wanted /\ (next = 0 \/ e.next * next /= 0))

\* What an index of all documents is to hold for a key.
Inverted(docs, key) ==
    LET ids == SetToSortSeq({i \in 1 .. Len(docs) : key \in DOMAIN docs[i]}, <) IN
    [n \in 1 .. Len(ids) |-> [doc |-> ids[n], mask |-> docs[ids[n]][key]]]

\* However the memory budget cuts the documents into segments, the merge gives
\* every key once, in order, with all its documents in order (spimi.rs, merge.rs).
MergeInvertsAll ==
    part = "docs" =>
        LET keys == SetToSortSeq(UNION {DOMAIN input[i] : i \in 1 .. Len(input)}, <) IN
        Merge(SegmentsOf(input))
          = [n \in 1 .. Len(keys) |-> [key |-> keys[n], list |-> Inverted(input, keys[n])]]

\* A table answers with a key's postings when the key was merged and with none
\* when it was not, though the base table may be full; the overlay's lookup, which
\* counts no rounds, always meets a slot to end at (merge.rs, reader.rs, overlay.rs).
TablesAnswer ==
    part = "keys" =>
        LET merged == [i \in 1 .. Len(input) |-> [key |-> input[i], list |-> <<input[i]>>]]
            sizes == {BaseTableSize(Len(input)), OverlayTableSize(Len(input))} IN
        /\ \A size \in sizes, key \in 0 .. KeyRange - 2 :
              Lookup(BuildTable(Entries(merged), size), size, PostingsOf(merged), key)
                = IF key \in ToSet(input) THEN <<key>> ELSE <<>>
        /\ LET size == OverlayTableSize(Len(input))
               table == BuildTable(Entries(merged), size) IN
           input /= <<>> => \A key \in 0 .. KeyRange - 2 : Stops(table, size, key) /= {}

\* The n-grams of a text and of a query are those they are defined to be, and the
\* text's are enough for the query (ngram.rs).
NgramsAgree == StackFindsTheSparse /\ CoveringIsIndexed

\* The lists of documents stay what they are through encoding, skipping, merging,
\* the hash tables and the set operations (vbyte.rs, postings.rs, merge.rs).
StoredListsAreExact ==
    /\ ListsAreCombined /\ EncodingsAreRead /\ SkippingLosesNothing
    /\ MergeInvertsAll /\ TablesAnswer

Index(tombs) == IndexOf(<<input.text>>, <<Reverse(input.text)>>, tombs, ByteWeight)

Unanchored(suf) == [pre |-> input.lits, suf |-> suf, caret |-> FALSE, anchored |-> {}]
Anchored == [pre |-> input.lits, suf |-> input.lits, caret |-> TRUE,
             anchored |-> 1 .. Len(input.lits)]

Misses(ix, p, ci) ==
    {d \in LiveDocs(ix) : MatchesPattern(DocText(ix, d), p, ci)} \ Candidates(ix, PlanQuery(ix, p, ci))

\* No file that matches is left out: not by the masks of the byte that follows,
\* the place modulo eight or the exact place, not by the cheaper of two queries,
\* not for the letters' case, not in the overlay; and no file that was replaced
\* or deleted comes back (extract.rs, reader.rs).
ResolveMissesNothing ==
    part = "query" /\ input.lits /= <<>> =>
        LET whole == Index({}) IN
        \A ix \in {whole, [whole EXCEPT !.tombs = {0}]}, ci \in BOOLEAN, p \in {Unanchored(input.lits), Unanchored(None), Anchored} :
            /\ Misses(ix, p, ci) = {}
            /\ Candidates(ix, PlanQuery(ix, p, ci)) \cap ix.tombs = {}

\* The tests of extract.rs: an anchor keeps its meaning.  An anchor that binds
\* to the first alternative alone must not be asked of the others.
AnchorBindsItsAlternative ==
    part = "query" /\ Len(input.lits) = 2 =>
        Misses(Index({}), [Anchored EXCEPT !.anchored = {1}], FALSE) = {}
=============================================================================
