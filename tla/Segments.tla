------------------------------- MODULE Segments -------------------------------
(***************************************************************************)
(* From documents to the index: the accumulator and the segment files of   *)
(* src/src/index/spimi.rs, their merge and the lexicon hash table of       *)
(* src/src/index/merge.rs, and the lookups of index/reader.rs and          *)
(* index/overlay.rs.                                                       *)
(*                                                                         *)
(* A key is a number below KeyRange, as an n-gram's hash is; a document is *)
(* a function from its keys to masks, which are sets of bits.              *)
(***************************************************************************)
EXTENDS Integers, Sequences, SequencesExt, FiniteSets

CONSTANTS
    KeyRange,    \* 2^64
    NewKeyCost,  \* 144: what a new key adds to the memory estimate
    PostingCost, \* 4
    Budget,      \* the memory budget of a build
    OffsetRange  \* 2^32: offsets into postings.bin

ASSUME SegmentsAssumption ==
    {KeyRange, NewKeyCost, PostingCost, Budget, OffsetRange} \subseteq Nat \ {0}

-----------------------------------------------------------------------------
(* SPIMI: documents gather in memory until the estimate reaches the budget *)

\* The postings of one more document; doc ids only grow, so each list is sorted.
Accumulate(map, id, doc) ==
    [k \in DOMAIN map \cup DOMAIN doc |->
        (IF k \in DOMAIN map THEN map[k] ELSE <<>>)
        \o (IF k \in DOMAIN doc THEN <<[doc |-> id, mask |-> doc[k]]>> ELSE <<>>)]

TrackPosting(size, map, doc) ==
    size + PostingCost * Cardinality(DOMAIN doc)
         + NewKeyCost * Cardinality(DOMAIN doc \ DOMAIN map)

\* A segment lists its keys in order.
Flush(map) ==
    LET keys == SetToSortSeq(DOMAIN map, <) IN
    [i \in 1 .. Len(keys) |-> [key |-> keys[i], list |-> map[keys[i]]]]

EmptyMap == [k \in {} |-> <<>>]

\* The documents in order; a full accumulator is flushed between two of them.
SegmentsOf(docs) ==
    LET end == FoldLeft(
            LAMBDA s, id :
                LET map == Accumulate(s.map, id, docs[id])
                    size == TrackPosting(s.size, s.map, docs[id])
                IN  IF size >= Budget /\ map /= EmptyMap
                    THEN [map |-> EmptyMap, size |-> 0, out |-> Append(s.out, Flush(map))]
                    ELSE [s EXCEPT !.map = map, !.size = size],
            [map |-> EmptyMap, size |-> 0, out |-> <<>>],
            [id \in 1 .. Len(docs) |-> id])
    IN  IF end.map = EmptyMap THEN end.out ELSE Append(end.out, Flush(end.map))

-----------------------------------------------------------------------------
(* The k-way merge *)

Pending(segments, at) == {s \in 1 .. Len(segments) : at[s] <= Len(segments[s])}

\* Mutant: the first segment that has the key is taken for the only one.
MergeListsOfOne(segments, at, here) == segments[Min(here)][at[Min(here)]].list

\* Postings of one key from all segments that are at it, by document.
MergeLists(segments, at, here) ==
    LET all == FoldLeft(LAMBDA l, s : IF s \in here THEN l \o segments[s][at[s]].list ELSE l,
                        <<>>, [s \in 1 .. Len(segments) |-> s])
        ids == SetToSortSeq({p.doc : p \in ToSet(all)}, <)
    IN  [i \in 1 .. Len(ids) |->
            [doc |-> ids[i], mask |-> UNION {p.mask : p \in {q \in ToSet(all) : q.doc = ids[i]}}]]

\* The least key of all heads is next; every segment that has it moves on.
RECURSIVE MergeFrom(_, _)
MergeFrom(segments, at) ==
    LET pending == Pending(segments, at)
        key == Min({segments[s][at[s]].key : s \in pending})
        here == {s \in pending : segments[s][at[s]].key = key}
    IN  IF pending = {} THEN <<>>
        ELSE <<[key |-> key, list |-> MergeLists(segments, at, here)]>>
             \o MergeFrom(segments, [s \in DOMAIN at |-> IF s \in here THEN at[s] + 1 ELSE at[s]])

Merge(segments) == MergeFrom(segments, [s \in 1 .. Len(segments) |-> 1])

\* The lexicon's entries: where each list begins in postings.bin, which counts
\* in 32 bits, and how long it is.
Entries(merged) ==
    LET before(i) == FoldLeft(LAMBDA sum, m : sum + Len(m.list), 0, SubSeq(merged, 1, i - 1))
    IN  [i \in 1 .. Len(merged) |->
            [key |-> merged[i].key, offset |-> before(i) % OffsetRange,
             length |-> Len(merged[i].list)]]

PostingsOf(merged) == FlattenSeq([i \in 1 .. Len(merged) |-> merged[i].list])

-----------------------------------------------------------------------------
(* The hash table: linear probing, the stored key is one more than the key *)

IsPrime(n) == n > 1 /\ \A d \in 2 .. n - 1 : n % d /= 0
NextPrime(n) == IF n <= 2 THEN 2 ELSE CHOOSE p \in n .. 2 * n : IsPrime(p) /\ \A q \in n .. p - 1 : ~IsPrime(q)

\* build_lexicon_mmap_from_file may fill its table; build_lexicon keeps a slot.
BaseTableSize(n) == NextPrime((13 * n) \div 10)
OverlayTableSize(n) == NextPrime(Max({n + 1, (13 * n) \div 10}))

EmptySlot == [key |-> 0, offset |-> 0, length |-> 0]
Stored(key) == (key + 1) % KeyRange
Probe(size, key, n) == (Stored(key) + n) % size

\* The first empty slot on the key's path takes the entry.
Insert(table, size, e) ==
    LET free == {n \in 0 .. size - 1 : table[Probe(size, e.key, n)].key = 0}
    IN  IF free = {} THEN table   \* "lexicon hash table full"
        ELSE [table EXCEPT ![Probe(size, e.key, Min(free))] = [e EXCEPT !.key = Stored(@)]]

BuildTable(entries, size) ==
    IF entries = <<>> THEN <<>>
    ELSE FoldLeft(LAMBDA table, e : Insert(table, size, e),
                  [slot \in 0 .. size - 1 |-> EmptySlot], entries)

\* The walk ends at the key or at an empty slot.  The base index also stops after
\* one round; the overlay does not, and needs one of the two to be there.
Stops(table, size, key) ==
    {n \in 0 .. size - 1 : table[Probe(size, key, n)].key \in {0, Stored(key)}}

Walk(table, size, key) ==
    IF Stops(table, size, key) = {} THEN EmptySlot
    ELSE table[Probe(size, key, Min(Stops(table, size, key)))]

\* lookup_raw and the slice it names; a list past the end of the postings is none.
Lookup(table, size, postings, key) ==
    IF size = 0 \/ table = <<>> THEN <<>>
    ELSE LET e == Walk(table, size, key) IN
         IF e.key = 0 \/ e.offset + e.length > Len(postings) THEN <<>>
         ELSE SubSeq(postings, e.offset + 1, e.offset + e.length)
=============================================================================
