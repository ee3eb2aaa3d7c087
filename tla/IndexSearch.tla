----------------------------- MODULE IndexSearch -----------------------------
(***************************************************************************)
(* A search on the index that IndexBuilder keeps, while it keeps it:       *)
(* do_search of src/src/main.rs, IndexReader::open, OverlayReader::open    *)
(* and search_indexed.  A searcher takes no lock and opens one file after  *)
(* another; what it has opened stays as it was, the builder only renames   *)
(* over it (but for bigram_df.bin).                                        *)
(*                                                                         *)
(* A search is for one word.  Documents are numbered from 1, those of an   *)
(* overlay come after the base it was built for.                           *)
(***************************************************************************)
EXTENDS IndexBuilder

CONSTANT MaxSearches   \* bound: searches

VARIABLES
    s,        \* the searcher
    past      \* history of the search: when it began, whether the index was then up
              \* to date, and whether all it searched in was of one build

searchVars == <<vars, s, past>>

\* The searcher's locals: each artifact as it was when opened.
Asleep == [pc |-> "idle", count |-> 0, want |-> None, meta |-> None, lexicon |-> None,
           postings |-> None, ovMeta |-> None, ovLex |-> None, ovPost |-> None,
           tombs |-> None, df |-> None, weights |-> None, cands |-> {}, found |-> {}]

SearchInit ==
    /\ Init
    /\ s = Asleep
    /\ past = [clock |-> 0, fresh |-> FALSE, whole |-> FALSE]

Goto(label) == s' = [s EXCEPT !.pc = label]

\* Nothing that has been opened is looked at any more.
Forget(label) == s' = [Asleep EXCEPT !.pc = label, !.count = s.count, !.want = s.want]

\* A step of the searcher changes nothing but the searcher.
Reading(label) == s.pc = label /\ UNCHANGED <<vars, past>>

-----------------------------------------------------------------------------
(* do_search *)

BeginSearch(w) ==
    /\ s.pc \in {"idle", "done", "failed"} /\ s.count < MaxSearches
    /\ s' = [Asleep EXCEPT !.pc = "look", !.count = s.count + 1, !.want = w]
    /\ past' = [clock |-> clock, fresh |-> fresh, whole |-> TRUE]
    /\ UNCHANGED vars

\* The sizes of the artifacts fit the n-gram count: empty together with it.  (The
\* bounds on the lexicon's size only catch another order of magnitude.)
SizesFit(m) ==
    /\ lexicon # None /\ postings # None
    /\ lexicon.empty = (m.docs = <<>>) /\ (postings.words = <<>>) = (m.docs = <<>>)

\* index_ready.  Neither the index's age nor any file's mtime is looked at.
LookReady ==
    /\ Reading("look")
    /\ Goto(IF meta # None /\ SizesFit(meta) THEN "meta" ELSE "scan")

-----------------------------------------------------------------------------
(* IndexReader::open *)

ReadMeta ==
    /\ Reading("meta")
    /\ s' = [s EXCEPT !.pc = "sizes", !.meta = meta]

\* validate_artifact_sizes: otherwise the search fails.
StatSizes ==
    /\ Reading("sizes")
    /\ IF SizesFit(s.meta) THEN Goto("lexicon") ELSE Forget("failed")

MapLexicon ==
    /\ Reading("lexicon")
    /\ s' = [s EXCEPT !.pc = "postings", !.lexicon = lexicon]

\* Mutant of MapPostings: the metadata is read again.
MapPostingsAndMeta ==
    /\ Reading("postings")
    /\ s' = [s EXCEPT !.pc = "ov_meta", !.postings = postings, !.meta = meta]

MapPostings ==
    /\ Reading("postings")
    /\ s' = [s EXCEPT !.pc = "ov_meta", !.postings = postings]

\* Without an overlay, or when one of its files cannot be opened, the base alone.
BaseOnly ==
    s' = [s EXCEPT !.pc = "df", !.ovMeta = None, !.ovLex = None, !.ovPost = None]

ReadOvMeta ==
    /\ Reading("ov_meta")
    /\ IF ovMeta = None THEN BaseOnly
       ELSE s' = [s EXCEPT !.pc = "ov_exists", !.ovMeta = ovMeta]

OvExists ==
    /\ Reading("ov_exists")
    /\ IF ovLex = None \/ ovPost = None THEN BaseOnly ELSE Goto("ov_lexicon")

MapOvLexicon ==
    /\ Reading("ov_lexicon")
    /\ IF ovLex = None THEN BaseOnly
       ELSE s' = [s EXCEPT !.pc = "ov_postings", !.ovLex = ovLex]

MapOvPostings ==
    /\ Reading("ov_postings")
    /\ IF ovPost = None THEN BaseOnly
       ELSE s' = [s EXCEPT !.pc = "ov_tombs", !.ovPost = ovPost]

ReadTombs ==
    /\ Reading("ov_tombs")
    /\ s' = [s EXCEPT !.pc = "df", !.tombs = tombs]

-----------------------------------------------------------------------------
(* search_indexed *)

\* BigramDfTable::load: the frequencies, then metadata.bin once more for the total.
ReadDf ==
    /\ Reading("df")
    /\ s' = [s EXCEPT !.pc = IF s.meta.idf /\ df # None THEN "df_total" ELSE "resolve",
                      !.df = df]

ReadDfTotal ==
    /\ Reading("df_total")
    /\ s' = [s EXCEPT !.pc = "resolve",
                      !.weights = [freq |-> s.df, total |-> Len(meta.docs)]]

WithOverlay == s.ovMeta # None

\* More ids than documents: what a lexicon entry says of postings it is not about.
SomeIds == 1 .. 2 * Len(Order) + 1

\* The document ids a lexicon entry for the word can lead to: none in empty postings,
\* whose end every entry is past; anything in postings the lexicon is not about.  With
\* other weights than the index was built with, the query may ask for n-grams that
\* it does not hold.
Lookup(p, lex, first) ==
    LET ids == {first + i : i \in {j \in DOMAIN p.words : p.words[j] = s.want}}
    IN  IF p.words = <<>> THEN {{}}
        ELSE IF lex # p.run THEN SUBSET SomeIds
        ELSE IF s.weights # p.weights THEN SUBSET ids
        ELSE {ids}

\* Mutant of Live: the bit next to the document's.
LiveByNext(ids) == {d \in ids : s.tombs # None => d + 1 \notin s.tombs.ids}

Live(ids) == IF s.tombs = None THEN ids ELSE ids \ s.tombs.ids

\* total_file_count, from the overlay's metadata when there is one.
TotalFiles == IF WithOverlay THEN s.ovMeta.base + Len(s.ovMeta.paths) ELSE Len(s.meta.docs)

\* IndexReader::file_path: the base's file list indexed by whatever is not the
\* overlay's, out of its bounds when the overlay metadata knows fewer documents.
HasPath(d) ==
    \/ d <= Len(s.meta.docs)
    \/ WithOverlay /\ d <= Len(s.meta.docs) + Len(s.ovMeta.paths)
PathOf(d) ==
    IF d <= Len(s.meta.docs) THEN s.meta.docs[d].path
    ELSE s.ovMeta.paths[d - Len(s.meta.docs)]

\* The candidates; the escape hatch scans all files above 85 %, and an id without
\* a path is a panic, which aborts the process.
Resolve ==
    /\ Reading("resolve")
    /\ \E below \in Lookup(s.postings, s.lexicon.run, 0) :
       \E above \in IF WithOverlay THEN Lookup(s.ovPost, s.ovLex, s.ovPost.base) ELSE {{}} :
          LET cands == (IF WithOverlay THEN Live(below) ELSE below) \cup above
          IN  IF TotalFiles > 0 /\ (Cardinality(cands) * 100) \div TotalFiles > 85
              THEN Forget("scan")
              ELSE IF \E d \in cands : ~HasPath(d) THEN Goto("panicked")
              ELSE s' = [s EXCEPT !.pc = "verify", !.cands = {PathOf(d) : d \in cands}]

\* What the searcher holds of the base, and of the overlay, is of one build, the
\* overlay was built for this base, and the word was cut as both were.
OneBuild ==
    /\ s.postings.run = s.meta.run /\ s.lexicon.run = s.meta.run
    /\ WithOverlay => /\ s.ovPost.run = s.ovMeta.run /\ s.ovLex = s.ovMeta.run
                      /\ s.tombs # None => s.tombs.run = s.ovMeta.run
                      /\ s.ovMeta.baseRun = s.meta.run
OneCut ==
    /\ s.weights = s.postings.weights
    /\ WithOverlay => s.weights = s.ovPost.weights

Done(found) ==
    s' = [Asleep EXCEPT !.pc = "done", !.count = s.count, !.want = s.want, !.found = found]

\* match_file: each candidate is read from the disk.
Verify ==
    /\ s.pc = "verify"
    /\ Done({f \in s.cands : disk[f] = s.want})
    /\ past' = [past EXCEPT !.whole = OneBuild /\ OneCut]
    /\ UNCHANGED vars

\* search_brute_force: all text files are read from the disk.
Scan ==
    /\ Reading("scan")
    /\ Done({f \in File : disk[f] = s.want /\ disk[f] \notin Binary})

-----------------------------------------------------------------------------
Search ==
    \/ \E w \in Word : BeginSearch(w)
    \/ LookReady \/ ReadMeta \/ StatSizes \/ MapLexicon \/ MapPostings
    \/ ReadOvMeta \/ OvExists \/ MapOvLexicon \/ MapOvPostings \/ ReadTombs
    \/ ReadDf \/ ReadDfTotal \/ Resolve \/ Verify \/ Scan

SearchNext == Search \/ (Next /\ UNCHANGED <<s, past>>)

SearchSpec == SearchInit /\ [][SearchNext]_searchVars

-----------------------------------------------------------------------------
(* Properties *)

\* The files to find: those that hold the word, when none has changed since the
\* search began.
Holders == {f \in File : disk[f] = s.want /\ disk[f] \notin Binary}
Quiet == s.pc = "done" /\ clock = past.clock

\* The builder publishes metadata last and the searcher reads it first: whatever
\* the searcher maps after metadata.bin or overlay_meta.bin is at least as new, also
\* after crashes and while overlays are removed and rebuilt.
NeverOlderThanMetadata ==
    /\ s.lexicon # None => s.lexicon.run >= s.meta.run
    /\ s.postings # None => s.postings.run >= s.meta.run
    /\ s.ovLex # None => s.ovLex >= s.ovMeta.run
    /\ s.ovPost # None => s.ovPost.run >= s.ovMeta.run
    /\ s.tombs # None => s.tombs.run >= s.ovMeta.run

\* A search of a project whose last build is up to date, with builders at work,
\* finds every file that holds the word if what it opened is of one build.  A build
\* that compacts is left out: it removes the overlay before the base has what the
\* overlay had, and a search in between has the old base alone.
SearchIsComplete ==
    Quiet /\ past.fresh /\ past.whole => Holders \subseteq s.found

\* "corrupt data degrades to empty results, not UB" (src/src/index/reader.rs:73):
\* no search aborts, at least none whose lexicons belong to their postings.
NoPanic ==
    s.pc = "panicked" =>
        s.lexicon.run # s.postings.run \/ (WithOverlay /\ s.ovLex # s.ovPost.run)

\* "if the index is older than any source file ..., an inline rebuild runs before
\* the search" (README.md:438): a search sees edits made before it began.
SearchSeesEdits == Quiet /\ past.whole => Holders \subseteq s.found
=============================================================================
