------------------------------- MODULE Postings -------------------------------
(***************************************************************************)
(* Posting lists: the list algorithms of src/src/index/postings.rs, the    *)
(* byte formats and the skipping reader of src/src/index/vbyte.rs.         *)
(*                                                                         *)
(* A byte string is a sequence of cells.  A number in variable-byte form   *)
(* takes several cells, a mask byte or a fixed-width field takes one.  A   *)
(* posting entry is [doc, next, loc, zone]; its masks are one bit wide     *)
(* here, so that & is a product.                                           *)
(***************************************************************************)
EXTENDS Integers, Sequences, SequencesExt, FiniteSets, Optional

CONSTANTS
    GallopRatio,  \* GALLOP_RATIO: 4
    Radix,        \* 2^7, the values of a cell without its top bit
    MaxCells,     \* 5 cells of a u32
    SkipMin,      \* SKIP_MIN_ENTRIES: 256
    SkipBlock     \* SKIP_BLOCK_SIZE: 128

ASSUME PostingsAssumption ==
    {GallopRatio, Radix, MaxCells, SkipMin, SkipBlock} \subseteq Nat \ {0}

-----------------------------------------------------------------------------
(* intersect and union of sorted lists *)

\* How far two lists are read: the next position of each.
Heads(a, b) == (1 .. Len(a) + 1) \X (1 .. Len(b) + 1)

\* Two pointers; equal heads are taken once and both sides advance.
IntersectMerge(a, b) ==
    LET from[at \in Heads(a, b)] ==
            LET i == at[1]
                j == at[2] IN
            IF i > Len(a) \/ j > Len(b) THEN <<>>
            ELSE LET rest == from[<<IF a[i] <= b[j] THEN i + 1 ELSE i,
                                    IF a[i] >= b[j] THEN j + 1 ELSE j>>] IN
                 IF a[i] = b[j] THEN <<a[i]>> \o rest ELSE rest
    IN  from[<<1, 1>>]

\* Mutant: the search begins at the last position that was tried.
GallopPast(data, target, start) ==
    IF start > Len(data) THEN Len(data) + 1
    ELSE IF data[start] >= target THEN start
    ELSE LET bound[b \in Nat \ {0}] ==
                 IF start + b <= Len(data) /\ data[start + b] < target THEN bound[2 * b] ELSE b
         IN  Min({start + bound[1], Len(data) + 1})

\* The first position from start on that is not below target: the step doubles
\* while it lands below target, then the last step is searched.
Gallop(data, target, start) ==
    IF start > Len(data) THEN Len(data) + 1
    ELSE IF data[start] >= target THEN start
    ELSE LET bound[b \in Nat \ {0}] ==
                 IF start + b <= Len(data) /\ data[start + b] < target THEN bound[2 * b] ELSE b
             low == start + bound[1] \div 2
             high == Min({start + bound[1], Len(data) + 1})
         IN  low + Cardinality({k \in low .. high - 1 : data[k] < target})

\* Each id of the shorter list is searched for in what is left of the longer one.
IntersectGalloping(short, long) ==
    LET from[at \in Heads(short, long)] ==
            LET i == at[1]
                found == Gallop(long, short[i], at[2]) IN
            IF i > Len(short) THEN <<>>
            ELSE IF found <= Len(long) /\ long[found] = short[i]
                 THEN <<short[i]>> \o from[<<i + 1, found + 1>>]
                 ELSE from[<<i + 1, found>>]
    IN  from[<<1, 1>>]

Intersect(a, b) ==
    IF a = <<>> \/ b = <<>> THEN <<>>
    ELSE IF Len(a) * GallopRatio < Len(b) THEN IntersectGalloping(a, b)
    ELSE IF Len(b) * GallopRatio < Len(a) THEN IntersectGalloping(b, a)
    ELSE IntersectMerge(a, b)

Union(a, b) ==
    LET from[at \in Heads(a, b)] ==
            LET i == at[1]
                j == at[2] IN
            IF i > Len(a) \/ j > Len(b)
            THEN SubSeq(a, i, Len(a)) \o SubSeq(b, j, Len(b))
            ELSE <<IF a[i] <= b[j] THEN a[i] ELSE b[j]>>
                 \o from[<<IF a[i] <= b[j] THEN i + 1 ELSE i, IF a[i] >= b[j] THEN j + 1 ELSE j>>]
    IN  from[<<1, 1>>]

\* intersect_two_iters and intersect_vec_iter: lists read as streams, by
\* advance_to, which stops at the end of either.
AdvanceTo(list, at, target) ==
    Min({k \in at .. Len(list) : list[k] >= target} \cup {Len(list) + 1})

IntersectIters(a, b) ==
    LET from[at \in Heads(a, b)] ==
            LET i == at[1]
                j == at[2] IN
            IF i > Len(a) \/ j > Len(b) THEN <<>>
            ELSE IF a[i] = b[j] THEN <<a[i]>> \o from[<<i + 1, j + 1>>]
                 ELSE IF a[i] < b[j] THEN from[<<AdvanceTo(a, i, b[j]), j>>]
                      ELSE from[<<i, AdvanceTo(b, j, a[i])>>]
    IN  from[<<1, 1>>]

-----------------------------------------------------------------------------
(* Variable-byte numbers *)

\* Low digits first; the last cell has the top bit.
EncodeNumber(value) ==
    LET cells[v \in Nat] == IF v < Radix THEN <<Radix + v>>
                            ELSE <<v % Radix>> \o cells[v \div Radix]
    IN  cells[value]

Unreadable == [ok |-> FALSE, value |-> 0, pos |-> 0]

\* The value at pos and the position after it.  A cell past the end of data, or
\* a sixth one, is no number.
DecodeNumber(data, pos) ==
    LET final == {k \in pos .. Min({pos + MaxCells - 1, Len(data)}) : data[k] >= Radix} IN
    IF final = {} THEN Unreadable
    ELSE LET last == Min(final) IN
         [ok |-> TRUE, pos |-> last + 1,
          value |-> FoldRight(LAMBDA cell, sum : (cell % Radix) + Radix * sum,
                              SubSeq(data, pos, last), 0)]

\* encode_posting_list: ids alone, as differences.
EncodeIds(ids) ==
    EncodeNumber(Len(ids))
    \o FlattenSeq([i \in 1 .. Len(ids) |-> EncodeNumber(ids[i] - (IF i = 1 THEN 0 ELSE ids[i - 1]))])

\* decode_posting_list: as many ids as are said to be there, or can be read.
DecodeIds(data) ==
    LET count == DecodeNumber(data, 1)
        from[n \in 0 .. count.value, pos \in 1 .. Len(data) + 1, prev \in Nat] ==
            LET delta == DecodeNumber(data, pos) IN
            IF n = 0 \/ ~delta.ok THEN <<>>
            ELSE <<prev + delta.value>> \o from[n - 1, delta.pos, prev + delta.value]
    IN  IF count.ok THEN from[count.value, count.pos, 0] ELSE <<>>

\* PostingIterator over the same bytes: where it is, how many ids are left, the last
\* id read and the current one.
ReadNext(data, iter) ==
    LET delta == DecodeNumber(data, iter.pos)
        value == iter.prev + delta.value IN
    IF iter.remaining = 0 \/ iter.pos > Len(data) THEN [iter EXCEPT !.val = None]
    ELSE IF ~delta.ok THEN [iter EXCEPT !.val = None, !.remaining = @ - 1]
    ELSE [pos |-> delta.pos, remaining |-> iter.remaining - 1, prev |-> value, val |-> value]

NewIterator(data) ==
    LET count == DecodeNumber(data, 1) IN
    ReadNext(data, [pos |-> IF count.ok THEN count.pos ELSE Len(data) + 1, prev |-> 0,
                    remaining |-> IF count.ok THEN count.value ELSE 0, val |-> None])

\* All that the iterator comes to.
Iterated(data) ==
    LET from[iter \in [pos : Nat, remaining : Nat, prev : Nat, val : Nat \cup {None}]] ==
            IF iter.val = None THEN <<>> ELSE <<iter.val>> \o from[ReadNext(data, iter)]
    IN  from[NewIterator(data)]

-----------------------------------------------------------------------------
(* Entries *)

Simple == 0   \* POSTINGS_SIMPLE
Skip == 1     \* POSTINGS_SKIP
MetaSize == 7 \* the fields of a block: SKIP_META_SIZE

EncodePayload(entries) ==
    FlattenSeq([i \in 1 .. Len(entries) |->
        EncodeNumber(entries[i].doc - (IF i = 1 THEN 0 ELSE entries[i - 1].doc))
        \o <<entries[i].next, entries[i].loc, entries[i].zone>>])

EncodeSimple(entries) == <<Simple>> \o EncodeNumber(Len(entries)) \o EncodePayload(entries)

\* Mutant: whole blocks only.
WholeBlocks(entries) ==
    [b \in 1 .. Len(entries) \div SkipBlock |->
        SubSeq(entries, (b - 1) * SkipBlock + 1, b * SkipBlock)]

Blocks(entries) ==
    [b \in 1 .. (Len(entries) + SkipBlock - 1) \div SkipBlock |->
        SubSeq(entries, (b - 1) * SkipBlock + 1, Min({b * SkipBlock, Len(entries)}))]

\* fold with |: whether any entry of the block has the bit.
HasBit(block, field) == Max({block[k][field] : k \in 1 .. Len(block)})

EncodeSkip(entries) ==
    LET blocks == Blocks(entries)
        payloads == [b \in 1 .. Len(blocks) |-> EncodePayload(blocks[b])]
        offset(b) == Len(FlattenSeq(SubSeq(payloads, 1, b - 1)))
        Meta(b) == <<blocks[b][1].doc, Last(blocks[b]).doc, offset(b), Len(blocks[b]),
                     HasBit(blocks[b], "next"), HasBit(blocks[b], "loc"), HasBit(blocks[b], "zone")>>
    IN  <<Skip>> \o EncodeNumber(Len(entries)) \o EncodeNumber(Len(blocks))
        \o FlattenSeq([b \in 1 .. Len(blocks) |-> Meta(b)]) \o FlattenSeq(payloads)

Encode(entries) ==
    IF Len(entries) >= SkipMin THEN EncodeSkip(entries) ELSE EncodeSimple(entries)

\* count entries from pos, or as many as there are before the end: one without
\* its next and loc masks is dropped, one without its zone has none.
DecodePayload(data, start, end, count) ==
    LET from[n \in 0 .. count, pos \in 1 .. end + 1, prev \in Nat] ==
            LET delta == DecodeNumber(data, pos) IN
            IF n = 0 \/ pos > end \/ ~delta.ok \/ delta.pos + 1 > end THEN <<>>
            ELSE LET doc == prev + delta.value
                     zoned == delta.pos + 2 <= end
                 IN  <<[doc |-> doc, next |-> data[delta.pos], loc |-> data[delta.pos + 1],
                        zone |-> IF zoned THEN data[delta.pos + 2] ELSE 0]>>
                     \o from[n - 1, delta.pos + (IF zoned THEN 3 ELSE 2), doc]
    IN  from[count, start, 0]

NoHeader == [ok |-> FALSE]

\* SkipHeader::parse
Header(data) ==
    LET count == DecodeNumber(data, 2)
        blocks == DecodeNumber(data, count.pos)
    IN  IF data = <<>> \/ data[1] /= Skip \/ ~count.ok \/ ~blocks.ok
           \/ blocks.pos + blocks.value * MetaSize > Len(data) + 1
        THEN NoHeader
        ELSE [ok |-> TRUE, count |-> count.value, blocks |-> blocks.value, meta |-> blocks.pos,
              payload |-> blocks.pos + blocks.value * MetaSize]

BlockMeta(data, h, b) ==
    LET m == SubSeq(data, h.meta + (b - 1) * MetaSize, h.meta + b * MetaSize - 1) IN
    [first |-> m[1], last |-> m[2], offset |-> m[3], count |-> m[4],
     next |-> m[5], loc |-> m[6], zone |-> m[7]]

LoadBlock(data, h, b) ==
    LET m == BlockMeta(data, h, b) IN
    DecodePayload(data, h.payload + m.offset, Len(data), m.count)

\* decode_posting_entries on the bytes one lexicon slot points at.
Decode(data) ==
    LET count == DecodeNumber(data, 2)
        legacy == DecodeNumber(data, 1)
        h == Header(data)
    IN  CASE data = <<>> -> <<>>
          [] data[1] = Simple ->
                IF count.ok THEN DecodePayload(data, count.pos, Len(data), count.value) ELSE <<>>
          [] data[1] = Skip ->
                IF h.ok THEN FlattenSeq([b \in 1 .. h.blocks |-> LoadBlock(data, h, b)]) ELSE <<>>
          [] OTHER ->
                IF legacy.ok THEN DecodePayload(data, legacy.pos, Len(data), legacy.value) ELSE <<>>

\* posting_entry_count
EntryCount(data) ==
    LET count == DecodeNumber(data, 2) IN
    CASE data = <<>> -> 0
      [] data[1] = Simple -> count.value
      [] data[1] = Skip -> IF Header(data).ok THEN Header(data).count ELSE 0
      [] OTHER -> DecodeNumber(data, 1).value

-----------------------------------------------------------------------------
(* PostingEntrySkipper: looks up candidates in ascending order *)

\* Mutant: a block that ends with doc is passed.
FindBlockBeyond(data, h, current, doc) ==
    LET found == Min({b \in current .. h.blocks : BlockMeta(data, h, b).last > doc}
                     \cup {h.blocks + 1})
    IN  IF found <= h.blocks THEN found ELSE 0

\* The first block from the current one on that does not end below doc.
FindBlock(data, h, current, doc) ==
    LET found == Min({b \in current .. h.blocks : BlockMeta(data, h, b).last >= doc}
                     \cup {h.blocks + 1})
    IN  IF found <= h.blocks THEN found ELSE 0

MayMatch(m, next, loc, zone) ==
    /\ next = 0 \/ m.next * next /= 0
    /\ loc = 0 \/ m.loc * loc /= 0
    /\ zone = 0 \/ m.zone * zone /= 0

\* advance_to_masked: the entry found, if any, and the block that is now loaded.
AdvanceMasked(data, h, current, doc, next) ==
    LET b == FindBlock(data, h, current, doc)
        block == LoadBlock(data, h, b)
        at == {k \in 1 .. Len(block) : block[k].doc >= doc}
    IN  IF b = 0 \/ ~MayMatch(BlockMeta(data, h, b), next, 0, 0)
        THEN [found |-> {}, current |-> current]
        ELSE [found |-> IF at = {} THEN {} ELSE {block[Min(at)]}, current |-> b]

\* lookup_masked_entries_for_docs over the base index, without decoding the list.
SkipLookup(data, candidates, next) ==
    LET h == Header(data) IN
    IF ~h.ok THEN <<>>
    ELSE FoldLeft(LAMBDA s, doc :
             LET r == AdvanceMasked(data, h, s.current, doc, next) IN
             [current |-> r.current,
              out |-> s.out \o SetToSeq({e \in r.found :
                                    e.doc = doc /\ (next = 0 \/ e.next * next /= 0)})],
             [current |-> 1, out |-> <<>>], candidates).out
=============================================================================
