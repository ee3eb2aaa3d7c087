------------------------------ MODULE IndexQuery ------------------------------
(***************************************************************************)
(* From a pattern to candidate documents: regex_to_query_costed of         *)
(* src/src/query/extract.rs and resolve of src/src/index/reader.rs, over   *)
(* a base index with tombstones and an overlay.                            *)
(*                                                                         *)
(* A pattern is what regex-syntax's extractor makes of it: the literals    *)
(* one of which every match begins with (pre), those one of which it ends  *)
(* with (suf), each None when there is no finite set of them.  Postings    *)
(* explains why a leaf may read a list whole or by its blocks.             *)
(***************************************************************************)
EXTENDS Ngrams, Optional

CONSTANTS
    Fold,       \* [bytes -> bytes]: to_ascii_lowercase
    MaxLen      \* DEFAULT_MAX_NGRAM_LEN: 16

-----------------------------------------------------------------------------
(* Queries *)

All == [op |-> "all", key |-> <<>>, next |-> {}, rel |-> 0, exact |-> FALSE, subs |-> <<>>]
Leaf(key, next, rel, exact) ==
    [All EXCEPT !.op = "leaf", !.key = key, !.next = next, !.rel = rel, !.exact = exact]
And(subs) == [All EXCEPT !.op = "and", !.subs = subs]
Or(subs) == [All EXCEPT !.op = "or", !.subs = subs]

FoldText(text) == [i \in 1 .. Len(text) |-> Fold[text[i]]]

\* A literal's covering n-grams, each with the byte that follows and its offset.
LiteralQuery(lit, weight, exact) ==
    IF Len(lit) = 2 THEN Leaf(lit, {}, 0, exact)
    ELSE LET ranges == BuildCovering(Weights(lit, weight), MaxLen) IN
         And([i \in 1 .. Len(ranges) |->
                Leaf(KeyAt(lit, ranges[i]),
                     IF ranges[i][2] + 1 < Len(lit) THEN BloomBit(lit[ranges[i][2] + 2]) ELSE {},
                     ranges[i][1] - 1, exact)])

\* One literal of less than two bytes makes the whole set useless.
QueryFromLiterals(lits, ci, weight, exact) ==
    LET query(lit) == LiteralQuery(IF ci THEN FoldText(lit) ELSE lit, weight, exact) IN
    CASE lits = None \/ lits = <<>> -> None
      [] lits /= None /\ \E i \in 1 .. Len(lits) : Len(lits[i]) < 2 -> None
      [] Len(lits) = 1 -> query(lits[1])
      [] OTHER -> Or([i \in 1 .. Len(lits) |-> query(lits[i])])

\* Long literals and few of them.
LiteralQuality(lits) ==
    IF lits = None THEN 0
    ELSE ((FoldLeft(LAMBDA sum, l : sum + Len(l), 0, lits) \div Len(lits)) * 100)
         \div (Len(lits) + 1)

\* The cheaper by a quarter, else the one of better literals.
ChooseByEstimatedCost(p, s, pCost, sCost, pQuality, sQuality) ==
    CASE p = None /\ s = None -> All
      [] s = None -> p
      [] p = None -> s
      [] OTHER -> IF 4 * sCost < 3 * pCost \/ (~(4 * pCost < 3 * sCost) /\ sQuality > pQuality)
                  THEN s ELSE p

-----------------------------------------------------------------------------
(* The index: base documents, some of them tombstoned, and the overlay's *)

\* Both builders index a file's bytes and its folded bytes.
IndexedTexts(doc, weight) ==
    {[bytes |-> t, at |-> Occurrences(t, weight)] : t \in {doc, FoldText(doc)}}
Keys(texts) == UNION {KeysOf(t.bytes, t.at) : t \in texts}
Masks(texts, key) ==
    LET m == {MasksOf(t.bytes, t.at, key) : t \in texts} IN
    [next |-> UNION {x.next : x \in m}, loc |-> UNION {x.loc : x \in m},
     zone |-> UNION {x.zone : x \in m}]

\* The entries of docs for each key, by document; ids start at first.
Lists(docs, first, weight) ==
    LET read == {[doc |-> first + i - 1, texts |-> IndexedTexts(docs[i], weight)] : i \in 1 .. Len(docs)} IN
    [key \in UNION {Keys(d.texts) : d \in read} |->
        LET having == SetToSortSeq({d \in read : key \in Keys(d.texts)}, LAMBDA a, b : a.doc < b.doc) IN
        [n \in 1 .. Len(having) |->
            [doc |-> having[n].doc, masks |-> Masks(having[n].texts, key)]]]

IndexOf(base, overlay, tombs, weight) ==
    [base |-> Lists(base, 0, weight), overlay |-> Lists(overlay, Len(base), weight),
     docs |-> base \o overlay, tombs |-> tombs, weight |-> weight]

List(lists, key) == IF key \in DOMAIN lists THEN lists[key] ELSE <<>>

\* Base entries that are not tombstoned, then the overlay's.
LookupEntries(ix, key) ==
    SelectSeq(List(ix.base, key), LAMBDA e : e.doc \notin ix.tombs) \o List(ix.overlay, key)

\* An entry stays when it has the bit of the byte that follows, if one is asked for.
PassesNext(e, next) == next = {} \/ e.masks.next \cap next /= {}

LookupMasked(ix, leaf) ==
    SelectSeq(LookupEntries(ix, leaf.key), LAMBDA e : PassesNext(e, leaf.next))

\* Bytes of the base list, and six for each overlay entry; a next mask is taken
\* to leave a quarter.
NgramCost(ix, key) ==
    LET n == Len(List(ix.base, key)) IN
    (IF n = 0 THEN 0 ELSE 2 + 7 * n) + 6 * Len(List(ix.overlay, key))

LeafCost(ix, leaf) ==
    IF leaf.next = {} THEN NgramCost(ix, leaf.key) ELSE NgramCost(ix, leaf.key) \div 4 + 1

Unbounded == 1000000

RECURSIVE QueryCost(_, _)
QueryCost(ix, q) ==
    LET costs == [i \in 1 .. Len(q.subs) |-> QueryCost(ix, q.subs[i])]
        sum == FoldLeft(LAMBDA s, c : s + c, 0, costs)
    IN  CASE q.op = "leaf" -> LeafCost(ix, q)
          [] q.op = "and" -> IF q.subs = <<>> THEN 0 ELSE sum + Min(ToSet(costs))
          [] q.op = "or" -> sum
          [] OTHER -> Unbounded

-----------------------------------------------------------------------------
(* Resolving *)

Ids(list) == {e.doc : e \in ToSet(list)}

\* The leaves in order of cost.
ByCost(ix, leaves) ==
    LET cheaper(a, b) == LeafCost(ix, leaves[a]) < LeafCost(ix, leaves[b])
                         \/ (LeafCost(ix, leaves[a]) = LeafCost(ix, leaves[b]) /\ a < b)
        order == SetToSortSeq(1 .. Len(leaves), cheaper)
    IN  [n \in 1 .. Len(leaves) |-> leaves[order[n]]]

\* One after the other, until nothing is left: the remaining documents and the
\* lists they were found in.
IntersectLeaves(ix, leaves) ==
    FoldLeft(LAMBDA s, leaf :
                 IF s.lists /= <<>> /\ s.docs = {} THEN s
                 ELSE LET list == LookupMasked(ix, leaf) IN
                      [docs |-> IF s.lists = <<>> THEN Ids(list) ELSE s.docs \cap Ids(list),
                       lists |-> Append(s.lists, [leaf |-> leaf, entries |-> list])],
             [docs |-> {}, lists |-> <<>>], ByCost(ix, leaves))

PostingFor(list, doc) == {e \in ToSet(list.entries) : e.doc = doc}

\* Mutant: the offset is taken from the n-gram before.
LocCompatibleOff(doc, lists) ==
    \E base \in 0 .. Locs - 1 : \A i \in 1 .. Len(lists) :
        \E e \in PostingFor(lists[i], doc) :
            e.masks.loc = {} \/ (base + lists[1].leaf.rel) % Locs \in e.masks.loc

\* Some start, modulo Locs, puts every n-gram where the document has it.
LocCompatible(doc, lists) ==
    \E base \in 0 .. Locs - 1 : \A i \in 1 .. Len(lists) :
        \E e \in PostingFor(lists[i], doc) :
            e.masks.loc = {} \/ (base + lists[i].leaf.rel) % Locs \in e.masks.loc

\* The offset itself is among the positions; a mask with the overflow bit cannot
\* reject.
ZoneCompatible(doc, lists) ==
    \A i \in 1 .. Len(lists) : \E e \in PostingFor(lists[i], doc) :
        e.masks.zone = {} \/ Zones \in e.masks.zone \/ ZoneBit(lists[i].leaf.rel) \cap e.masks.zone /= {}

ResolveAnd(ix, leaves) ==
    LET s == IntersectLeaves(ix, leaves)
        placed == {d \in s.docs : LocCompatible(d, s.lists)}
    IN  IF Len(s.lists) < 2 THEN s.docs
        ELSE IF \A i \in 1 .. Len(s.lists) : s.lists[i].leaf.exact
             THEN {d \in placed : ZoneCompatible(d, s.lists)} ELSE placed

RECURSIVE Candidates(_, _)
Candidates(ix, q) ==
    CASE q.op = "leaf" -> Ids(LookupMasked(ix, q))
      [] q.op = "and" -> ResolveAnd(ix, q.subs)
      [] q.op = "or" -> UNION {Candidates(ix, q.subs[i]) : i \in 1 .. Len(q.subs)}
      [] OTHER -> 0 .. Len(ix.docs) - 1

-----------------------------------------------------------------------------
(* regex_to_query_costed *)

\* A pattern's text begins with ^: its prefix literals stand at the file's start.
AnchoredStart(p) == p.caret

PlanQuery(ix, p, ci) ==
    LET pre == QueryFromLiterals(p.pre, ci, ix.weight, AnchoredStart(p))
        suf == QueryFromLiterals(p.suf, ci, ix.weight, FALSE)
        cost(q) == IF q = None THEN 0 ELSE QueryCost(ix, q)
    IN  IF AnchoredStart(p) /\ pre /= None THEN pre
        ELSE ChooseByEstimatedCost(pre, suf, cost(pre), cost(suf),
                                   LiteralQuality(p.pre), LiteralQuality(p.suf))

-----------------------------------------------------------------------------
(* What a search must find *)

StartsAt(text, i, lit) == i + Len(lit) - 1 <= Len(text) /\ SubSeq(text, i, i + Len(lit) - 1) = lit

\* The regex has a match: one of pre, at the start when the pattern says so, and
\* after it one of suf.  anchored names the alternatives the caret binds to.
MatchesPattern(text, p, ci) ==
    LET t == IF ci THEN FoldText(text) ELSE text
        f(lit) == IF ci THEN FoldText(lit) ELSE lit
        Ends(i, l) == \/ p.suf = None \/ p.suf = p.pre
                      \/ \E n \in 1 .. Len(p.suf), j \in i .. Len(t) :
                             StartsAt(t, j, f(p.suf[n])) /\ j >= i + l
    IN  \E n \in 1 .. Len(p.pre), i \in 1 .. Len(t) :
            /\ StartsAt(t, i, f(p.pre[n])) /\ Ends(i, Len(p.pre[n]))
            /\ n \in p.anchored => i = 1

DocText(ix, d) == ix.docs[d + 1]
LiveDocs(ix) == (0 .. Len(ix.docs) - 1) \ ix.tombs
=============================================================================
