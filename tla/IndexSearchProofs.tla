-------------------------- MODULE IndexSearchProofs --------------------------
(***************************************************************************)
(* The order in which a builder publishes and the order in which a search  *)
(* opens fit together: for any project, any number of builds, crashes and  *)
(* searches.  A search beside builders finds every file of an index that   *)
(* is up to date.                                                          *)
(***************************************************************************)
EXTENDS IndexSearch, IndexBuilderProofs

(* What is published next to metadata m is at least as new as m, and the overlay's *)
(* files next to overlay metadata m likewise, as far as they are there.            *)
BaseSince(m) ==
    /\ m.run \in Nat /\ m.run <= b.run
    /\ lexicon.run >= m.run /\ postings.run >= m.run
OverlaySince(m) ==
    /\ m.run \in Nat /\ m.run <= b.run
    /\ ovLex # None => ovLex >= m.run
    /\ ovPost # None => ovPost.run >= m.run
    /\ tombs # None => tombs.run >= m.run

(* Metadata comes last: while a build publishes, what it has published is its own. *)
MetadataLast ==
    /\ b.run \in Nat
    /\ PublishesBase => postings.run = b.run
    /\ b.pc \in {"df_open", "df_write", "meta"} => lexicon.run = b.run
    /\ PublishesOverlay => ovPost.run = b.run
    /\ b.pc \in {"ov_tombs", "ov_meta"} => ovLex = b.run
    /\ b.pc = "ov_meta" => tombs.run = b.run
    /\ meta # None => BaseSince(meta)
    /\ ovMeta # None => OverlaySince(ovMeta)

(* The builder's part of the inductive invariant. *)
PublishInv == OverlayInv /\ MetadataLast

(* The searcher has all its locals. *)
SearcherShape ==
    s = [pc |-> s.pc, count |-> s.count, want |-> s.want, meta |-> s.meta,
         lexicon |-> s.lexicon, postings |-> s.postings, ovMeta |-> s.ovMeta,
         ovLex |-> s.ovLex, ovPost |-> s.ovPost, tombs |-> s.tombs, df |-> s.df,
         weights |-> s.weights, cands |-> s.cands, found |-> s.found]

(* What the searcher has not come to yet it has not opened. *)
BeforeLexicon == s.pc \in {"meta", "sizes", "lexicon"}
BeforePostings == BeforeLexicon \/ s.pc = "postings"
BeforeOvLexicon == BeforePostings \/ s.pc \in {"ov_meta", "ov_exists", "ov_lexicon"}
BeforeOvPostings == BeforeOvLexicon \/ s.pc = "ov_postings"
BeforeTombs == BeforeOvPostings \/ s.pc = "ov_tombs"
NotYetOpened ==
    /\ BeforeLexicon \/ s.pc = "look" => s.lexicon = None
    /\ BeforePostings \/ s.pc = "look" => s.postings = None
    /\ BeforeOvLexicon \/ s.pc = "look" => s.ovLex = None
    /\ BeforeOvPostings \/ s.pc = "look" => s.ovPost = None
    /\ BeforeTombs \/ s.pc = "look" => s.tombs = None

(* What it is about to open is at least as new as the metadata it has. *)
AheadIsNewer ==
    /\ s.pc = "meta" => BaseSince(meta)
    /\ s.pc \in {"sizes", "lexicon", "postings"} => BaseSince(s.meta)
    /\ s.pc \in {"ov_exists", "ov_lexicon", "ov_postings", "ov_tombs"} =>
           OverlaySince(s.ovMeta)

(* The inductive invariant. *)
SearchInv ==
    /\ PublishInv
    /\ SearcherShape
    /\ NotYetOpened
    /\ AheadIsNewer
    /\ NeverOlderThanMetadata

-----------------------------------------------------------------------------
LEMMA InitPublishInv == Init => PublishInv
  BY InitOverlayInv DEF Init, Idle, PublishInv, MetadataLast, PublishesBase,
     PublishesOverlay

(* A step of the builder keeps MetadataLast, and does not make anything older than *)
(* metadata that a searcher may have read.                                         *)
LEMMA NextPublishInv ==
    ASSUME PublishInv, [Next]_vars
    PROVE  /\ PublishInv'
           /\ BaseSince(meta) => BaseSince(meta)'
           /\ \A m : BaseSince(m) => BaseSince(m)'
           /\ \A m : OverlaySince(m) => OverlaySince(m)'
  <1> DEFINE Goal == /\ MetadataLast'
                     /\ BaseSince(meta) => BaseSince(meta)'
                     /\ \A m : BaseSince(m) => BaseSince(m)'
                     /\ \A m : OverlaySince(m) => OverlaySince(m)'
  <1> SUFFICES Goal
    BY NextOverlayInv DEF PublishInv
  <1> USE DEF PublishInv, MetadataLast, BaseSince, OverlaySince, OverlayInv, BuilderShape,
              PublishesBase, PublishesOverlay, base, overlay, Idle
  <1>1. CASE Start
    BY <1>1 DEF Start
  <1>2. CASE DecideWithoutLooking
    BY <1>2 DEF DecideWithoutLooking, RebuildAll
  <1>3. CASE Decide
    BY <1>3 DEF Decide, RebuildAll
  <1>4. CASE ClearOverlay
    BY <1>4 DEF ClearOverlay
  <1>5. CASE ReadFile
    BY <1>5 DEF ReadFile, ReadsNext, AddDocument, Skip
  <1>6. CASE StatFile
    BY <1>6 DEF StatFile
  <1>7. CASE PublishPostings
    BY <1>7 DEF PublishPostings, Scanned
  <1>8. CASE PublishLexicon
    BY <1>8 DEF PublishLexicon
  <1>9. CASE TruncateDf
    BY <1>9 DEF TruncateDf
  <1>10. CASE WriteDf
    BY <1>10 DEF WriteDf
  <1>11. CASE PublishMeta
    BY <1>11 DEF PublishMeta
  <1>12. CASE PublishOvPostings
    BY <1>12 DEF PublishOvPostings, Scanned
  <1>13. CASE PublishOvLexicon
    BY <1>13 DEF PublishOvLexicon
  <1>14. CASE PublishTombs
    BY <1>14 DEF PublishTombs
  <1>15. CASE PublishOvMeta
    BY <1>15 DEF PublishOvMeta
  <1>16. CASE Crash
    BY <1>16 DEF Crash
  <1>17. CASE Environment
    <2>1. b' = [b EXCEPT !.quiet = FALSE] /\ UNCHANGED <<base, overlay>>
      BY <1>17 DEF Environment, Edit, Commit, Checkout, Touch
    <2> QED
      BY <2>1
  <1>18. CASE UNCHANGED vars
    BY <1>18 DEF vars
  <1> QED
    BY <1>1, <1>2, <1>3, <1>4, <1>5, <1>6, <1>7, <1>8, <1>9, <1>10, <1>11, <1>12,
       <1>13, <1>14, <1>15, <1>16, <1>17, <1>18 DEF Next, Build

-----------------------------------------------------------------------------
LEMMA InitSearchInv == SearchInit => SearchInv
  BY InitPublishInv DEF SearchInit, Asleep, SearchInv, SearcherShape, NotYetOpened,
     AheadIsNewer, NeverOlderThanMetadata, BeforeLexicon, BeforePostings,
     BeforeOvLexicon, BeforeOvPostings, BeforeTombs

(* Builders and users change nothing that a searcher has, and BaseSince and *)
(* OverlaySince last.                                                       *)
LEMMA BuilderKeepsSearchInv ==
    ASSUME SearchInv, [Next]_vars, UNCHANGED s
    PROVE  SearchInv'
  <1>1. PublishInv
    BY DEF SearchInv
  <1>2. /\ PublishInv'
        /\ BaseSince(meta) => BaseSince(meta)'
        /\ \A m : BaseSince(m) => BaseSince(m)'
        /\ \A m : OverlaySince(m) => OverlaySince(m)'
    BY <1>1, NextPublishInv
  <1>3. AheadIsNewer'
    <2>1. BaseSince(s.meta) => BaseSince(s.meta)'
      BY <1>2 DEF BaseSince
    <2>2. OverlaySince(s.ovMeta) => OverlaySince(s.ovMeta)'
      BY <1>2 DEF OverlaySince
    <2> QED
      BY <1>2, <2>1, <2>2 DEF SearchInv, AheadIsNewer
  <1> QED
    BY <1>2, <1>3 DEF SearchInv, SearcherShape, NotYetOpened, NeverOlderThanMetadata,
       BeforeLexicon, BeforePostings, BeforeOvLexicon, BeforeOvPostings, BeforeTombs

(* A step of the searcher: it opens nothing older than AheadIsNewer promises, and when *)
(* it is done or starts again it has forgotten all it had.                             *)
LEMMA NextSearchInv == SearchInv /\ [SearchNext]_searchVars => SearchInv'
  <1> SUFFICES ASSUME SearchInv, [SearchNext]_searchVars PROVE SearchInv'
    OBVIOUS
  <1>b. CASE [Next]_vars /\ UNCHANGED s
    BY <1>b, BuilderKeepsSearchInv
  <1>s. CASE Search
    <2>0. UNCHANGED vars
      BY <1>s DEF Search, BeginSearch, LookReady, ReadMeta, StatSizes, MapLexicon,
         MapPostings, ReadOvMeta, OvExists, MapOvLexicon, MapOvPostings, ReadTombs,
         ReadDf, ReadDfTotal, Resolve, Verify, Scan, Reading
    <2>p. PublishInv'
      BY <2>0, NextPublishInv DEF SearchInv
    <2>v. UNCHANGED <<base, overlay, b>>
      BY <2>0 DEF vars
    <2>r. ASSUME Resolve
          PROVE  /\ s.pc = "resolve"
                 /\ \/ Forget("scan") \/ Goto("panicked")
                    \/ \E c : s' = [s EXCEPT !.pc = "verify", !.cands = c]
      BY <2>r, Zenon DEF Resolve, Reading
    <2> USE DEF Reading, Goto, Asleep, base, overlay, SearchInv, SearcherShape,
                NotYetOpened, AheadIsNewer, NeverOlderThanMetadata, BaseSince,
                OverlaySince, BeforeLexicon, BeforePostings, BeforeOvLexicon,
                BeforeOvPostings, BeforeTombs
    <2>1. ASSUME NEW w \in Word, BeginSearch(w) PROVE SearchInv'
      BY <2>1, <2>p DEF BeginSearch
    <2>2. CASE LookReady
      BY <2>2, <2>p, <2>v DEF LookReady, PublishInv, MetadataLast
    <2>3. CASE ReadMeta
      BY <2>3, <2>p, <2>v DEF ReadMeta
    <2>4. CASE StatSizes
      BY <2>4, <2>p, <2>v DEF StatSizes, Forget
    <2>5. CASE MapLexicon
      BY <2>5, <2>p, <2>v DEF MapLexicon
    <2>6. CASE MapPostings
      BY <2>6, <2>p, <2>v DEF MapPostings
    <2>7. CASE ReadOvMeta
      BY <2>7, <2>p, <2>v, ZenonT(60) DEF ReadOvMeta, BaseOnly, PublishInv, MetadataLast
    <2>8. CASE OvExists
      BY <2>8, <2>p, <2>v DEF OvExists, BaseOnly
    <2>9. CASE MapOvLexicon
      BY <2>9, <2>p, <2>v DEF MapOvLexicon, BaseOnly
    <2>10. CASE MapOvPostings
      BY <2>10, <2>p, <2>v DEF MapOvPostings, BaseOnly
    <2>11. CASE ReadTombs
      BY <2>11, <2>p, <2>v DEF ReadTombs
    <2>12. CASE ReadDf
      BY <2>12, <2>p, <2>v DEF ReadDf
    <2>13. CASE ReadDfTotal
      BY <2>13, <2>p, <2>v DEF ReadDfTotal
    <2>14. CASE Resolve
      BY <2>14, <2>r, <2>p, <2>v, ZenonT(60) DEF Forget
    <2>15. CASE Verify
      BY <2>15, <2>p, <2>v DEF Verify, Done
    <2>16. CASE Scan
      BY <2>16, <2>p, <2>v DEF Scan, Done
    <2> QED
      BY <1>s, <2>1, <2>2, <2>3, <2>4, <2>5, <2>6, <2>7, <2>8, <2>9, <2>10, <2>11,
         <2>12, <2>13, <2>14, <2>15, <2>16 DEF Search
  <1> QED
    BY <1>b, <1>s DEF SearchNext, searchVars

(* Whatever builders do meanwhile, and wherever they die: a search maps no lexicon, *)
(* postings or overlay file older than the metadata it read before.                 *)
THEOREM NeverOlderThanMetadataHolds == SearchSpec => []NeverOlderThanMetadata
  <1>1. SearchInv => NeverOlderThanMetadata
    BY DEF SearchInv
  <1> QED
    BY <1>1, InitSearchInv, NextSearchInv, PTL DEF SearchSpec

-----------------------------------------------------------------------------
(* SearchIsComplete, where files are compared by mtime alone (Calm).                  *)

(* No overlay has grown past compaction when a build decides: compaction takes the   *)
(* overlay away, and a search has the base alone until the rebuild is published.     *)
Uncompacted == b.pc = "decide" /\ b.meta # None => ~NeedsCompaction(b.meta)

(* How the base and an overlay hold the files as they are now: the metadata has every *)
(* text file's mtime; the postings have what it says unchanged files hold; what it    *)
(* does not have the overlay has; the tombstones spare what it has.                   *)
AllInBase(m) == \A f \in File : disk[f] \in Text => InBase(m, f)
Holds(m, p) ==
    \A i \in DOMAIN m.docs : Stays(m.docs[i].path, m.docs[i].mtime) =>
        i \in DOMAIN p.words /\ p.words[i] = disk[m.docs[i].path]
InOverlay(o, p, f) ==
    \E i \in DOMAIN o.paths : o.paths[i] = f /\ i \in DOMAIN p.words /\ p.words[i] = disk[f]
Covers(m, o, p) == \A f \in File : disk[f] \in Text => InBase(m, f) \/ InOverlay(o, p, f)
Spares(m, t) ==
    \A i \in t.ids : i \in DOMAIN m.docs => ~Stays(m.docs[i].path, m.docs[i].mtime)

(* Postings are there before the metadata is, and number the documents of their build. *)
BaseIsNumbered ==
    /\ meta # None \/ PublishesBase => postings # None
    /\ meta # None /\ postings.run = meta.run => DOMAIN postings.words = DOMAIN meta.docs

(* What an undisturbed build has read is as it was, and an undisturbed overlay build *)
(* found few files changed.                                                          *)
Few(m) == Cardinality(StatChanged(m)) <= OverlayThreshold
QuietStats ==
    b.quiet => \A i \in DOMAIN b.docs :
        Stays(b.docs[i].path, b.docs[i].mtime) \/ (b.pc = "stat" /\ i = Len(b.docs))
QuietFew == b.quiet /\ (Scans("overlay") \/ PublishesOverlay) => Few(meta)

(* The index is searchable for as long as nothing changes: either the base has it all, *)
(* or an overlay is there, stays there, and has the rest.                              *)
Rebuilding == b.pc = "clear" \/ Scans("full") \/ PublishesBase
Settled ==
    /\ meta # None
    /\ b.pc # "idle" => b.quiet
    /\ AllInBase(meta) \/ (OverlayOpens /\ Few(meta) /\ ~Rebuilding)
    /\ ovMeta # None /\ ovPost # None /\ ovPost.run = ovMeta.run => Covers(meta, ovMeta, ovPost)

SettleInv ==
    /\ FreshInv
    /\ CommitInv
    /\ BaseIsNumbered
    /\ QuietStats /\ QuietFew
    /\ fresh => Settled

-----------------------------------------------------------------------------
LEMMA InitSettleInv == Calm /\ Init => SettleInv
  BY InitFreshInv, InitCommitInv DEF Init, Idle, SettleInv, BaseIsNumbered, QuietStats, QuietFew,
     Scans, PublishesBase, PublishesOverlay

(* What is published is there. *)
LEMMA PublishedIsThere ==
    ASSUME FreshInv
    PROVE  /\ PublishPostings => postings' # None
           /\ PublishMeta => meta' # None
  <1> USE DEF FreshInv, CourseInv, TypeInv, BuilderTyped
  <1>1. ASSUME PublishPostings PROVE postings' # None
    <2>1. postings' = [run |-> b.run, words |-> Words(b.docs), weights |-> b.weights]
      BY <1>1 DEF PublishPostings
    <2>2. Words(b.docs) \in Seq(Text) /\ Text \subseteq Word
      BY WordsAreSeq DEF Text
    <2>3. Words(b.docs) \in Seq(Word) /\ b.run \in Nat
      BY <2>2
    <2>4. postings' \in Postings
      BY <2>1, <2>3 DEF Postings
    <2> QED
      BY <2>4, NoneAssumption
  <1>2. ASSUME PublishMeta PROVE meta' # None
    <2> DEFINE docs == [i \in DOMAIN b.docs |-> Recorded(b.docs[i])]
    <2>1. meta' = [run |-> b.run, commit |-> b.head, idf |-> b.weights # None, docs |-> docs]
      BY <1>2 DEF PublishMeta, Recorded
    <2>2. docs \in Seq([path : File, mtime : Nat, size : Nat])
      BY RecordsAreSeq DEF Record
    <2> HIDE DEF docs
    <2>3. b.run \in Nat /\ b.head = None /\ (b.weights # None) \in BOOLEAN
      BY DEF GitFree
    <2>4. meta' \in Metadata
      BY <2>1, <2>2, <2>3 DEF Metadata
    <2> QED
      BY <2>4, NoneAssumption
  <1> QED
    BY <1>1, <1>2

(* Why Decide rebuilds, and when it does not. *)
LEMMA DecideCounts ==
    ASSUME SettleInv, Uncompacted, DecideWithoutLooking \/ Decide, b.meta # None
    PROVE  /\ b.meta = meta /\ b.pc = "decide" /\ StatChanged(meta) \subseteq File
           /\ b'.pc = "clear" => AllInBase(meta) \/ ~Few(meta)
           /\ b'.pc = "idle" => AllInBase(meta)
           /\ b'.pc = "read" => Few(meta)
  <1>1. /\ b.meta = meta /\ b.pc = "decide" /\ Decide /\ Changed = StatChanged(meta)
        /\ ~GoesByGit /\ Answers = {Changed} /\ StatChanged(meta) \subseteq File
    <2>1. b.meta = meta /\ b.pc = "decide" /\ Decide
      BY DEF SettleInv, FreshInv, CourseInv, TypeInv, OverlayInv, MetadataHeld, Uncompacted,
         DecideWithoutLooking, Decide
    <2>2. ~GoesByGit
      BY DEF SettleInv, FreshInv, GitFree, GoesByGit
    <2> QED
      BY <2>1, <2>2, StatChangedAreStale DEF SettleInv, FreshInv, Changed, Answers
  <1>2. Cardinality(StatChanged(meta)) \in Nat
    BY <1>1, FileAssumption, FS_Subset, FS_CardinalityType
  <1>3. Changed = {} => AllInBase(meta)
    BY <1>1, StatChangedAreStale DEF SettleInv, FreshInv, AllInBase
  <1>4. \/ UpToDate(Changed)
        \/ (Changed = {} \/ Cardinality(Changed) > OverlayThreshold) /\ b' = [b EXCEPT !.pc = "clear"]
        \/ /\ Cardinality(Changed) <= OverlayThreshold
           /\ ToOverlay(Changed, IF b.meta.idf THEN Weights ELSE None)
    <2>1. CASE UpToDate(Changed)
      BY <2>1
    <2>2. CASE (Changed = {} \/ Cardinality(Changed) > OverlayThreshold) /\ RebuildAll
      BY <2>2 DEF RebuildAll
    <2>3. CASE /\ Changed # {} /\ Cardinality(Changed) <= OverlayThreshold
               /\ b' = [b EXCEPT !.pc = "read", !.mode = "overlay", !.todo = Changed \cap File,
                                 !.asked = (Changed = Changed),
                                 !.weights = IF b.meta.idf THEN Weights ELSE None]
               /\ UNCHANGED fresh
      BY <2>3 DEF ToOverlay
    <2>4. \E changed \in Answers :
             \/ UpToDate(changed)
             \/ (changed = {} \/ Cardinality(changed) > OverlayThreshold) /\ RebuildAll
             \/ /\ changed # {} /\ Cardinality(changed) <= OverlayThreshold
                /\ b' = [b EXCEPT !.pc = "read", !.mode = "overlay", !.todo = changed \cap File,
                                  !.asked = (changed = Changed),
                                  !.weights = IF b.meta.idf THEN Weights ELSE None]
                /\ UNCHANGED fresh
      BY <1>1, Zenon DEF Decide, UpToDate
    <2> QED
      BY <1>1, <2>1, <2>2, <2>3, <2>4
  <1>5. CASE UpToDate(Changed)
    BY <1>1, <1>3, <1>5 DEF UpToDate, Idle
  <1>6. CASE (Changed = {} \/ Cardinality(Changed) > OverlayThreshold) /\ b' = [b EXCEPT !.pc = "clear"]
    <2>1. b'.pc = "clear"
      BY <1>6 DEF SettleInv, FreshInv, CourseInv, TypeInv, OverlayInv, BuilderShape
    <2>2. Cardinality(Changed) > OverlayThreshold => ~Few(meta)
      BY <1>1, <1>2, SizeAssumption DEF Few
    <2> QED
      BY <1>1, <1>3, <1>6, <2>1, <2>2
  <1>7. CASE /\ Cardinality(Changed) <= OverlayThreshold
             /\ ToOverlay(Changed, IF b.meta.idf THEN Weights ELSE None)
    <2>1. b'.pc = "read"
      BY <1>7 DEF ToOverlay, SettleInv, FreshInv, CourseInv, TypeInv, OverlayInv, BuilderShape
    <2>2. Few(meta)
      BY <1>1, <1>7 DEF Few
    <2> QED
      BY <1>1, <2>1, <2>2
  <1> QED
    BY <1>4, <1>5, <1>6, <1>7

-----------------------------------------------------------------------------
(* As long as no file changes, the base and an overlay hold what they held. *)
LEMMA FilesStay ==
    ASSUME UNCHANGED <<disk, mtime>>
    PROVE  /\ UNCHANGED meta => (AllInBase(meta)' <=> AllInBase(meta)) /\ (Few(meta)' <=> Few(meta))
           /\ UNCHANGED <<meta, ovMeta, ovPost>> => Covers(meta, ovMeta, ovPost)' = Covers(meta, ovMeta, ovPost)
  <1>1. ASSUME UNCHANGED meta PROVE AllInBase(meta)' <=> AllInBase(meta)
    BY <1>1 DEF AllInBase, InBase, Stays
  <1>2. ASSUME UNCHANGED meta PROVE Few(meta)' <=> Few(meta)
    <2>1. StatChanged(meta)' = StatChanged(meta)
      BY <1>2 DEF StatChanged, Present
    <2> QED
      BY <2>1 DEF Few
  <1>3. ASSUME UNCHANGED <<meta, ovMeta, ovPost>>
        PROVE  Covers(meta, ovMeta, ovPost)' = Covers(meta, ovMeta, ovPost)
    BY <1>3 DEF Covers, InBase, InOverlay, Stays
  <1> QED
    BY <1>1, <1>2, <1>3

LEMMA EnvironmentSettleInv ==
    ASSUME Calm, SettleInv, FreshInv', CommitInv', Environment PROVE SettleInv'
  <1>1. TypeInv /\ Unraced
    BY DEF SettleInv, FreshInv, CourseInv, Calm, Unraced
  <1>2. b'.quiet = FALSE /\ fresh' = FALSE /\ UNCHANGED base
    BY <1>1, EnvironmentKeeps
  <1>3. PublishesBase' <=> PublishesBase
    BY <1>1, EnvironmentKeeps DEF PublishesBase
  <1> QED
    BY <1>2, <1>3 DEF SettleInv, BaseIsNumbered, QuietStats, QuietFew, base

(* An index that is settled, or that a build leaves up to date, is settled after the step. *)
LEMMA DecidingSettles ==
    ASSUME SettleInv, FreshInv', CommitInv', Uncompacted,
           Start \/ DecideWithoutLooking \/ Decide \/ Crash
    PROVE  SettleInv' /\ (Settled => Settled')
  <1> USE DEF Scans, PublishesBase, PublishesOverlay, Rebuilding
  <1>0. TypeInv
    BY DEF SettleInv, FreshInv, CourseInv
  <1>1. UNCHANGED <<workspace, base, overlay>> /\ (Starts \/ Rebuilds \/ Overlays \/ Ends)
    BY <1>0, DecidingComesTo
  <1>2. UNCHANGED <<disk, mtime, postings, meta, ovPost, ovLex, ovMeta>>
    BY <1>1 DEF workspace, base, overlay
  <1>3. BaseIsNumbered'
    BY <1>1, <1>2 DEF SettleInv, BaseIsNumbered, Starts, Rebuilds, Overlays, Ends
  <1>4. QuietStats'
    <2>1. b'.docs = <<>>
      BY <1>1 DEF SettleInv, FreshInv, CourseInv, Phases, Starts, Rebuilds, Overlays, Ends
    <2> QED
      BY <2>1 DEF QuietStats
  <1>5. b.pc = "decide" => b.meta = meta
    BY <1>0 DEF TypeInv, OverlayInv, MetadataHeld
  <1>6. CASE Start
    <2>1. b'.quiet = TRUE /\ b'.pc = "decide" /\ fresh' = fresh
      BY <1>6 DEF Start, Idle
    <2>2. Settled => Settled'
      BY <1>2, <2>1, FilesStay DEF Settled, OverlayOpens
    <2> QED
      BY <1>3, <1>4, <2>1, <2>2 DEF SettleInv, QuietFew
  <1>7. CASE b.meta # None /\ (DecideWithoutLooking \/ Decide)
    <2>1. /\ b'.pc = "clear" => AllInBase(meta) \/ ~Few(meta)
          /\ b'.pc = "idle" => AllInBase(meta)
          /\ b'.pc = "read" => Few(meta)
      BY <1>7, DecideCounts
    <2>2. b.pc = "decide" /\ meta # None
      BY <1>5, <1>7 DEF DecideWithoutLooking, Decide
    <2>3. QuietFew'
      BY <1>1, <1>2, <2>1, <2>2, FilesStay DEF QuietFew, Starts, Rebuilds, Overlays, Ends
    <2>4. b'.pc = "clear" \/ (b'.pc = "read" /\ b'.mode = "overlay") \/ b'.pc = "idle"
      BY <1>1, <2>2 DEF Starts, Rebuilds, Overlays, Ends
    <2>5. b'.pc # "idle" => b'.quiet = b.quiet /\ fresh' = fresh
      BY <1>1, <1>7, <2>4, <2>2 DEF Starts, Rebuilds, Overlays, Ends, DecideWithoutLooking, Decide, Idle
    <2>6. Settled \/ b'.pc = "idle" => Settled'
      BY <1>2, <2>1, <2>4, <2>5, <2>2, FilesStay DEF Settled, OverlayOpens, Covers, AllInBase
    <2> QED
      BY <1>3, <1>4, <2>3, <2>5, <2>6 DEF SettleInv
  <1>8. CASE Crash
    <2>1. b'.pc = "idle" /\ fresh' = FALSE
      BY <1>8 DEF Crash, Idle
    <2> QED
      BY <1>2, <1>3, <1>4, <2>1, FilesStay DEF SettleInv, Settled, OverlayOpens, QuietFew
  <1>9. CASE b.meta = None /\ (DecideWithoutLooking \/ Decide)
    <2>1. Rebuilds /\ meta = None /\ fresh' = fresh
      BY <1>0, <1>1, <1>5, <1>9 DEF DecideWithoutLooking, RebuildAll, Decide, Rebuilds, TypeInv, OverlayInv,
         BuilderShape
    <2> QED
      BY <1>2, <1>3, <1>4, <2>1 DEF SettleInv, Settled, QuietFew, Rebuilds
  <1> QED
    BY <1>6, <1>7, <1>8, <1>9

LEMMA ClearSettles ==
    ASSUME SettleInv, FreshInv', CommitInv', ClearOverlay
    PROVE  SettleInv' /\ (Settled => Settled')
  <1> USE DEF Scans, PublishesBase, PublishesOverlay, Rebuilding
  <1>1. /\ UNCHANGED <<disk, mtime, postings, meta, fresh>> /\ b.pc = "clear" /\ b'.quiet = b.quiet
        /\ b'.docs = b.docs /\ (b'.pc = "clear" \/ (b'.pc = "read" /\ b'.mode = "full"))
    BY ClearComesTo DEF SettleInv, FreshInv, CourseInv, workspace, base
  <1>2. b'.docs = <<>>
    BY <1>1 DEF SettleInv, FreshInv, CourseInv, Phases
  <1>3. BaseIsNumbered' /\ QuietStats' /\ QuietFew'
    BY <1>1, <1>2 DEF SettleInv, BaseIsNumbered, QuietStats, QuietFew
  <1>4. Settled => Settled'
    BY <1>1, FilesStay DEF Settled, Covers, AllInBase
  <1> QED
    BY <1>1, <1>3, <1>4 DEF SettleInv

LEMMA ScanSettles ==
    ASSUME SettleInv, FreshInv', CommitInv', ReadFile \/ StatFile
    PROVE  SettleInv' /\ (Settled => Settled')
  <1> USE DEF Scans, PublishesBase, PublishesOverlay, Rebuilding
  <1>0. CourseInv /\ TypeInv /\ DocsFit
    BY DEF SettleInv, FreshInv, CourseInv
  <1>1. /\ UNCHANGED <<disk, mtime, postings, meta, ovPost, ovLex, ovMeta, fresh>>
        /\ b'.quiet = b.quiet /\ b'.mode = b.mode
        /\ b.pc \in {"read", "stat"} /\ b'.pc \in {"read", "stat"}
    BY <1>0, ScanKeeps DEF workspace, base, overlay
  <1>2. QuietStats'
    <2> SUFFICES ASSUME b.quiet, NEW i \in DOMAIN b'.docs
                 PROVE  Stays(b'.docs[i].path, b'.docs[i].mtime) \/ (b'.pc = "stat" /\ i = Len(b'.docs))
      BY <1>1 DEF QuietStats, Stays
    <2>1. CASE ReadFile
      BY <1>0, <2>1, ReadComesTo DEF SettleInv, QuietStats
    <2>2. CASE StatFile
      <3>1. CASE i = Len(b.docs)
        BY <1>0, <2>2, <3>1, StatComesTo DEF Stays
      <3>2. CASE i # Len(b.docs)
        BY <1>0, <2>2, <3>2, StatComesTo DEF SettleInv, QuietStats
      <3> QED
        BY <3>1, <3>2
    <2> QED
      BY <2>1, <2>2
  <1>3. BaseIsNumbered'
    BY <1>1 DEF SettleInv, BaseIsNumbered
  <1>4. QuietFew'
    BY <1>1, FilesStay DEF SettleInv, QuietFew
  <1>5. Settled => Settled'
    BY <1>1, FilesStay DEF Settled, OverlayOpens
  <1> QED
    BY <1>1, <1>2, <1>3, <1>4, <1>5 DEF SettleInv

LEMMA PublishSettles ==
    ASSUME SettleInv, FreshInv', CommitInv',
           \/ PublishPostings \/ PublishLexicon \/ TruncateDf \/ WriteDf
           \/ PublishOvPostings \/ PublishOvLexicon \/ PublishTombs
    PROVE  SettleInv' /\ (Settled => Settled')
  <1>0. TypeInv
    BY DEF SettleInv, FreshInv, CourseInv
  <1>1. /\ UNCHANGED <<disk, mtime, meta, ovMeta, fresh>>
        /\ b'.quiet = b.quiet /\ b'.docs = b.docs /\ b'.mode = b.mode
        /\ \/ (Scanned("full") \/ PublishesBase) /\ PublishesBase' /\ UNCHANGED overlay
           \/ (Scanned("overlay") \/ PublishesOverlay) /\ PublishesOverlay' /\ UNCHANGED base
    BY <1>0, PublishKeeps DEF workspace
  <1>2. b.pc # "idle" /\ b.pc # "stat" /\ b'.pc # "stat"
    BY <1>1 DEF Scanned, PublishesBase, PublishesOverlay
  <1>3. QuietStats'
    BY <1>1, <1>2 DEF SettleInv, QuietStats, Stays
  <1>4. QuietFew'
    BY <1>1, FilesStay DEF SettleInv, QuietFew, Scans, Scanned, PublishesBase, PublishesOverlay
  <1>5. BaseIsNumbered'
    <2>1. CASE PublishPostings
      <3>1. postings' # None /\ postings'.run = b.run
        BY <2>1, PublishedIsThere DEF PublishPostings, SettleInv
      <3>2. meta # None => meta.run \in Nat /\ b.run \in Nat /\ meta.run < b.run
        BY <1>0, <1>2 DEF SettleInv, FreshInv, CourseInv, RunsAscend, TypeInv, BaseTyped, BuilderTyped
      <3> QED
        BY <1>1, <3>1, <3>2 DEF BaseIsNumbered
    <2>2. CASE ~PublishPostings
      <3>1. UNCHANGED postings /\ (PublishesBase' => PublishesBase)
        <4>1. CASE PublishLexicon \/ TruncateDf \/ WriteDf
          BY <4>1 DEF PublishLexicon, TruncateDf, WriteDf, PublishesBase
        <4>2. CASE PublishOvPostings \/ PublishOvLexicon \/ PublishTombs
          <5>1. UNCHANGED base
            BY <4>2 DEF PublishOvPostings, PublishOvLexicon, PublishTombs
          <5>2. ~PublishesBase'
            BY <1>0, <4>2 DEF PublishOvPostings, PublishOvLexicon, PublishTombs, PublishesBase, TypeInv,
               OverlayInv, BuilderShape
          <5> QED
            BY <5>1, <5>2 DEF base
        <4> QED
          BY <2>2, <4>1, <4>2
      <3> QED
        BY <1>1, <3>1 DEF SettleInv, BaseIsNumbered
    <2> QED
      BY <2>1, <2>2
  <1>6. ASSUME Settled PROVE Settled'
    <2>1. CASE (Scanned("full") \/ PublishesBase) /\ PublishesBase'
      <3>1. AllInBase(meta)
        BY <1>6, <2>1 DEF Settled, Rebuilding, Scanned, Scans
      <3> QED
        BY <1>1, <1>2, <1>6, <3>1, FilesStay DEF Settled, Covers, AllInBase
    <2>2. CASE (Scanned("overlay") \/ PublishesOverlay) /\ PublishesOverlay'
      <3>1. ~Rebuilding'
        BY <2>2 DEF Rebuilding, Scans, PublishesBase, PublishesOverlay
      <3>2. OverlayOpens => OverlayOpens'
        <4>1. ovPost' # None /\ (b'.pc \in {"ov_tombs", "ov_meta"} => ovLex' # None)
          BY <2>2 DEF FreshInv, CourseInv, Published
        <4>2. b'.pc \in {"ov_tombs", "ov_meta"} \/ UNCHANGED ovLex
          BY <1>0, <1>1, <2>2 DEF PublishPostings, PublishLexicon, TruncateDf, WriteDf, PublishOvPostings,
             overlay, PublishOvLexicon, PublishTombs, TypeInv, OverlayInv, BuilderShape
        <4> QED
          BY <1>1, <4>1, <4>2 DEF OverlayOpens
      <3>3. ovMeta' # None /\ ovPost' # None /\ ovPost'.run = ovMeta'.run => UNCHANGED ovPost
        <4>1. CASE PublishOvPostings
          <5>1. ovPost'.run = b.run
            BY <4>1 DEF PublishOvPostings
          <5>2. ovMeta # None => ovMeta.run \in Nat /\ b.run \in Nat /\ ovMeta.run < b.run
            BY <1>0, <1>2 DEF SettleInv, CommitInv, OverlayPredates, TypeInv, BuilderTyped
          <5> QED
            BY <1>1, <5>1, <5>2
        <4>2. CASE ~PublishOvPostings
          BY <4>2 DEF PublishPostings, PublishLexicon, TruncateDf, WriteDf, PublishOvLexicon,
             PublishTombs, overlay
        <4> QED
          BY <4>1, <4>2
      <3> QED
        BY <1>1, <1>2, <1>6, <3>1, <3>2, <3>3, FilesStay DEF Settled
    <2> QED
      BY <1>1, <2>1, <2>2
  <1> QED
    BY <1>1, <1>3, <1>4, <1>5, <1>6 DEF SettleInv

(* A base that was built undisturbed has every text file. *)
LEMMA PublishMetaSettles ==
    ASSUME SettleInv, FreshInv', CommitInv', PublishMeta
    PROVE  SettleInv' /\ (Settled => Settled')
  <1>0. TypeInv /\ b.docs \in Seq(Document)
    BY DEF SettleInv, FreshInv, CourseInv, TypeInv, BuilderTyped
  <1>1. /\ b.pc = "meta" /\ UNCHANGED <<disk, mtime, postings, ovMeta>> /\ fresh' = b.quiet
        /\ b'.pc = "idle" /\ b'.docs = <<>> /\ meta' # None /\ DOMAIN meta'.docs = DOMAIN b.docs
        /\ \A i \in DOMAIN b.docs : /\ meta'.docs[i].path = b.docs[i].path
                                    /\ meta'.docs[i].mtime = b.docs[i].mtime
    BY <1>0, PublishMetaComesTo, PublishedIsThere DEF SettleInv, workspace, overlay
  <1>2. PublishesBase
    BY <1>1 DEF PublishesBase
  <1>3. QuietStats' /\ QuietFew'
    BY <1>1 DEF QuietStats, QuietFew, Scans, PublishesOverlay
  <1>4. BaseIsNumbered'
    <2>1. postings.words = Words(b.docs) /\ postings # None
      BY <1>2 DEF SettleInv, BaseIsNumbered, FreshInv, CourseInv, Published
    <2> QED
      BY <1>0, <1>1, <2>1, WordsAreSeq DEF BaseIsNumbered
  <1>5. ASSUME b.quiet PROVE Settled'
    <2>1. ASSUME NEW f \in File, disk[f] \in Text PROVE InBase(meta, f)'
      <3>1. Taken(f) /\ b.todo = {}
        BY <1>1, <1>2, <1>5, <2>1 DEF SettleInv, FreshInv, QuietCovers, Building, CourseInv, Phases
      <3>2. PICK i \in DOMAIN b.docs : b.docs[i].path = f
        BY <3>1 DEF Taken
      <3>3. b.docs[i].mtime = mtime[f]
        BY <1>1, <1>5, <3>2 DEF SettleInv, QuietStats, Stays
      <3> QED
        BY <1>1, <3>2, <3>3 DEF InBase, Stays
    <2>2. AllInBase(meta)'
      BY <1>1, <2>1 DEF AllInBase
    <2>3. ovMeta' = None
      BY <1>0, <1>1, <1>2 DEF TypeInv, OverlayInv, OverlayGone
    <2> QED
      BY <1>1, <2>2, <2>3 DEF Settled
  <1>6. Settled => b.quiet
    BY <1>1 DEF Settled
  <1> QED
    BY <1>1, <1>3, <1>4, <1>5, <1>6 DEF SettleInv

(* An overlay that was built undisturbed has every text file that the base has not. *)
LEMMA PublishOvMetaSettles ==
    ASSUME SettleInv, FreshInv', CommitInv', PublishOvMeta
    PROVE  SettleInv' /\ (Settled => Settled')
  <1>0. TypeInv /\ Published /\ b.docs \in Seq(Document)
    BY DEF SettleInv, FreshInv, CourseInv, TypeInv, BuilderTyped
  <1>1. /\ b.pc = "ov_meta" /\ UNCHANGED <<disk, mtime, postings, meta, ovPost>> /\ fresh' = b.quiet
        /\ b'.pc = "idle" /\ b'.docs = <<>> /\ b.meta # None /\ b.meta = meta
        /\ OverlayOpens' /\ DOMAIN ovMeta'.paths = DOMAIN b.docs
        /\ \A i \in DOMAIN b.docs : ovMeta'.paths[i] = b.docs[i].path
    BY <1>0, PublishOvMetaComesTo DEF workspace, base
  <1>2. PublishesOverlay
    BY <1>1 DEF PublishesOverlay
  <1>3. QuietStats' /\ QuietFew' /\ BaseIsNumbered'
    BY <1>1 DEF SettleInv, QuietStats, QuietFew, Scans, PublishesOverlay, BaseIsNumbered, PublishesBase
  <1>4. ASSUME b.quiet PROVE Settled'
    <2>1. ASSUME NEW f \in File, disk[f] \in Text
          PROVE  InBase(meta, f)' \/ InOverlay(ovMeta, ovPost, f)'
      <3>1. (Taken(f) \/ InBase(meta, f)) /\ b.todo = {}
        BY <1>1, <1>2, <1>4, <2>1 DEF SettleInv, FreshInv, QuietCovers, Building, CourseInv, Phases
      <3>2. CASE InBase(meta, f)
        BY <1>1, <3>2 DEF InBase, Stays
      <3>3. CASE Taken(f)
        <4>1. PICK i \in DOMAIN b.docs : b.docs[i].path = f /\ b.docs[i].word = disk[f]
          BY <3>1, <3>3 DEF Taken
        <4>2. ovPost.words = Words(b.docs)
          BY <1>0, <1>2 DEF Published
        <4>3. i \in DOMAIN ovPost.words /\ ovPost.words[i] = disk[f]
          BY <1>0, <4>1, <4>2, WordsAreSeq
        <4> QED
          BY <1>1, <4>1, <4>3 DEF InOverlay
      <3> QED
        BY <3>1, <3>2, <3>3
    <2>2. Covers(meta, ovMeta, ovPost)'
      BY <1>1, <2>1 DEF Covers
    <2>3. Few(meta)'
      BY <1>1, <1>2, <1>4, FilesStay DEF SettleInv, QuietFew
    <2> QED
      BY <1>1, <2>2, <2>3 DEF Settled, Rebuilding, Scans, PublishesBase
  <1>5. Settled => b.quiet
    BY <1>1 DEF Settled
  <1> QED
    BY <1>1, <1>3, <1>4, <1>5 DEF SettleInv

(* Only an edit unsettles an index. *)
LEMMA NextSettleInv ==
    ASSUME Calm, SettleInv, [Next]_vars, Uncompacted
    PROVE  SettleInv' /\ (Settled => Settled' \/ Environment)
  <1>0. FreshInv' /\ CommitInv'
    BY NextFreshInv, NextCommitInv DEF SettleInv, Calm, Unraced
  <1>1. CASE UNCHANGED vars
    <2>1. UNCHANGED <<disk, mtime, postings, meta, ovPost, ovLex, ovMeta, b, fresh>>
      BY <1>1 DEF vars, workspace, base, overlay
    <2>2. BaseIsNumbered' /\ QuietStats'
      BY <2>1 DEF SettleInv, BaseIsNumbered, PublishesBase, QuietStats, Stays
    <2>3. QuietFew' /\ (Settled => Settled')
      BY <2>1, FilesStay DEF SettleInv, QuietFew, Settled, OverlayOpens, Rebuilding, Scans, PublishesBase,
         PublishesOverlay
    <2> QED
      BY <1>0, <2>1, <2>2, <2>3 DEF SettleInv
  <1>2. CASE Build
    BY <1>0, <1>2, DecidingSettles, ClearSettles, ScanSettles, PublishSettles, PublishMetaSettles,
       PublishOvMetaSettles DEF Build
  <1>3. CASE Environment
    BY <1>0, <1>3, EnvironmentSettleInv
  <1> QED
    BY <1>1, <1>2, <1>3 DEF Next

-----------------------------------------------------------------------------
(* Nothing has changed since the search began, and the index was up to date then. *)
Still == past.fresh /\ clock = past.clock

(* Where the searcher stands, and what it has read there. *)
InBaseFiles == s.pc \in {"sizes", "lexicon", "postings"}
InOvFiles == s.pc \in {"ov_exists", "ov_lexicon", "ov_postings", "ov_tombs"}
InQuery == s.pc \in {"df", "df_total", "resolve", "verify"}
HasMeta == InBaseFiles \/ s.pc = "ov_meta" \/ InOvFiles \/ InQuery
HasOverlay == InOvFiles \/ (InQuery /\ WithOverlay)

ReadTyped ==
    /\ past = [clock |-> past.clock, fresh |-> past.fresh, whole |-> past.whole]
    /\ past.clock \in Nat /\ past.clock <= clock
    /\ s.pc # "idle" => s.want \in Word
    /\ s.pc = "meta" => meta # None
    /\ HasOverlay => s.ovMeta # None
    /\ HasOverlay /\ ~BeforeOvPostings => s.ovPost # None /\ s.ovPost.words \in Seq(Text)

(* The searcher's metadata is that of the base or an older one's, its overlay metadata *)
(* is of a build that has ended.                                                       *)
ReadRuns ==
    /\ HasMeta => /\ meta # None /\ s.meta.docs \in Seq(Record) /\ s.meta.run \in Nat
                  /\ s.meta.run <= meta.run /\ (s.meta.run = meta.run => s.meta = meta)
    /\ HasOverlay => /\ s.ovMeta.run \in Nat /\ s.ovMeta.run <= b.run
                     /\ b.pc # "idle" => s.ovMeta.run < b.run

(* While all is still: what the searcher has opened, or will open next to the metadata *)
(* it has, is complete if it is of the metadata's build.                               *)
BaseRead ==
    Still /\ HasMeta =>
        /\ s.meta = meta \/ AllInBase(s.meta)
        /\ LET p == IF InBaseFiles THEN postings ELSE s.postings
           IN  p.run = s.meta.run => Holds(s.meta, p)
OverlayRead ==
    Still /\ HasOverlay =>
        /\ LET p == IF BeforeOvPostings THEN ovPost ELSE s.ovPost
           IN  p # None /\ p.run = s.ovMeta.run =>
                  /\ Covers(s.meta, s.ovMeta, p)
                  /\ s.ovMeta.baseRun = s.meta.run => p.base = Len(s.meta.docs)
        /\ LET t == IF BeforeTombs THEN tombs ELSE s.tombs
           IN  t # None /\ t.run = s.ovMeta.run /\ s.ovMeta.baseRun = s.meta.run => Spares(s.meta, t)
AloneIsAll == Still /\ InQuery /\ ~WithOverlay => AllInBase(s.meta)
CandsAreAll == Still /\ s.pc = "verify" /\ OneBuild /\ OneCut => Holders \subseteq s.cands

CompleteInv ==
    /\ SettleInv /\ SearchInv
    /\ Still => Settled
    /\ ReadTyped /\ ReadRuns
    /\ BaseRead /\ OverlayRead /\ AloneIsAll
    /\ CandsAreAll
    /\ SearchIsComplete

LEMMA InitCompleteInv == Calm /\ SearchInit => CompleteInv
  <1> SUFFICES ASSUME Calm, SearchInit PROVE CompleteInv
    OBVIOUS
  <1>1. SettleInv /\ SearchInv
    BY InitSettleInv, InitSearchInv DEF SearchInit
  <1>2. s.pc = "idle" /\ ~past.fresh /\ past = [clock |-> 0, fresh |-> FALSE, whole |-> FALSE] /\ clock = 0
    BY DEF SearchInit, Asleep, Init
  <1>3. ~Still /\ ~HasMeta /\ ~HasOverlay /\ ~InQuery
    BY <1>2 DEF Still, HasMeta, HasOverlay, InBaseFiles, InOvFiles, InQuery
  <1> QED
    BY <1>1, <1>2, <1>3 DEF CompleteInv, ReadTyped, ReadRuns, BaseRead, OverlayRead, AloneIsAll, CandsAreAll,
       SearchIsComplete, Quiet

-----------------------------------------------------------------------------
(* An edit is seen by the clock; nothing but an edit happens around the builder. *)
LEMMA EditsTick ==
    ASSUME Calm, TypeInv, Environment PROVE clock' = clock + 1
  BY DEF Calm, Environment, Edit, Touch, Commit, Checkout

(* What a builder's step may publish under a searcher is of the build that runs. *)
LEMMA BuilderPublishes ==
    ASSUME SettleInv, [Next]_vars, ~Environment
    PROVE  /\ UNCHANGED <<disk, mtime, clock>> /\ b'.run >= b.run
           /\ b'.pc # "idle" => b'.run > b.run \/ (b.pc # "idle" /\ b'.run = b.run)
           /\ postings' = postings \/ (postings'.run = b.run /\ b.pc # "idle")
           /\ meta' = meta \/ (meta' # None /\ meta'.run = b.run /\ b.pc = "meta")
           /\ ovPost' \in {ovPost, None} \/ (ovPost'.run = b.run /\ b.pc # "idle")
           /\ tombs' \in {tombs, None} \/ (tombs'.run = b.run /\ b.pc # "idle")
  <1> DEFINE Goal ==
           /\ UNCHANGED <<disk, mtime, clock>> /\ b'.run >= b.run
           /\ b'.pc # "idle" => b'.run > b.run \/ (b.pc # "idle" /\ b'.run = b.run)
           /\ postings' = postings \/ (postings'.run = b.run /\ b.pc # "idle")
           /\ meta' = meta \/ (meta' # None /\ meta'.run = b.run /\ b.pc = "meta")
           /\ ovPost' \in {ovPost, None} \/ (ovPost'.run = b.run /\ b.pc # "idle")
           /\ tombs' \in {tombs, None} \/ (tombs'.run = b.run /\ b.pc # "idle")
  <1>0. TypeInv /\ CourseInv /\ b.run \in Nat /\ BuilderShape
    BY DEF SettleInv, FreshInv, CourseInv, TypeInv, BuilderTyped, OverlayInv
  <1> USE DEF workspace, base, overlay
  <1>1. CASE UNCHANGED vars
    BY <1>0, <1>1 DEF vars
  <1>2. CASE Start
    BY <1>0, <1>2 DEF Start, Idle
  <1>3. CASE DecideWithoutLooking \/ Decide \/ Crash
    <2>1. b.pc # "idle"
      BY <1>3 DEF DecideWithoutLooking, Decide, Crash
    <2>2. UNCHANGED <<workspace, base, overlay>> /\ b'.run = b.run
      BY <1>0, <1>3, <2>1, DecidingComesTo DEF Starts, Rebuilds, Overlays, Ends
    <2> QED
      BY <1>0, <2>1, <2>2
  <1>4. CASE ClearOverlay
    <2>1. UNCHANGED <<workspace, base>> /\ b'.run = b.run /\ b.pc = "clear"
      BY <1>0, <1>4 DEF ClearOverlay, BuilderShape
    <2>2. ovPost' \in {ovPost, None} /\ tombs' \in {tombs, None}
      BY <1>4 DEF ClearOverlay
    <2> QED
      BY <1>0, <2>1, <2>2
  <1>5. CASE ReadFile \/ StatFile
    BY <1>0, <1>5, ScanKeeps
  <1>6. CASE \/ PublishPostings \/ PublishLexicon \/ TruncateDf \/ WriteDf
             \/ PublishOvPostings \/ PublishOvLexicon \/ PublishTombs
    <2>1. b.pc # "idle" /\ UNCHANGED <<workspace, meta>> /\ b'.run = b.run
      BY <1>0, <1>6, PublishKeeps DEF Scanned, PublishesBase, PublishesOverlay
    <2>2. UNCHANGED postings \/ postings'.run = b.run
      BY <1>6 DEF PublishPostings, PublishLexicon, TruncateDf, WriteDf, PublishOvPostings,
         PublishOvLexicon, PublishTombs
    <2>3. UNCHANGED ovPost \/ ovPost'.run = b.run
      BY <1>6 DEF PublishPostings, PublishLexicon, TruncateDf, WriteDf, PublishOvPostings,
         PublishOvLexicon, PublishTombs
    <2>4. UNCHANGED tombs \/ tombs'.run = b.run
      BY <1>6 DEF PublishPostings, PublishLexicon, TruncateDf, WriteDf, PublishOvPostings,
         PublishOvLexicon, PublishTombs
    <2> QED
      BY <1>0, <2>1, <2>2, <2>3, <2>4
  <1>7. CASE PublishMeta
    BY <1>0, <1>7, PublishMetaComesTo, PublishedIsThere DEF SettleInv
  <1>8. CASE PublishOvMeta
    BY <1>0, <1>8, PublishOvMetaComesTo DEF CourseInv
  <1> QED
    BY <1>1, <1>2, <1>3, <1>4, <1>5, <1>6, <1>7, <1>8 DEF Next, Build

LEMMA BuilderKeepsComplete ==
    ASSUME Calm, CompleteInv, [Next]_vars, Uncompacted, UNCHANGED <<s, past>>
    PROVE  CompleteInv'
  <1>1. SettleInv' /\ SearchInv' /\ (Settled => Settled' \/ Environment)
    BY NextSettleInv, BuilderKeepsSearchInv DEF CompleteInv
  <1>2. /\ TypeInv /\ RunsAscend /\ clock \in Nat /\ b.run \in Nat
        /\ meta # None => meta.run \in Nat
        /\ past.clock \in Nat /\ past.clock <= clock
    BY SizeAssumption DEF CompleteInv, SettleInv, FreshInv, CourseInv, TypeInv, WorkspaceTyped, BuilderTyped,
       BaseTyped, ReadTyped
  <1>3. /\ (HasMeta' <=> HasMeta) /\ (HasOverlay' <=> HasOverlay) /\ (InQuery' <=> InQuery)
        /\ (InBaseFiles' <=> InBaseFiles) /\ (BeforeOvPostings' <=> BeforeOvPostings)
        /\ (BeforeTombs' <=> BeforeTombs) /\ (WithOverlay' <=> WithOverlay)
    BY DEF HasMeta, HasOverlay, InQuery, InBaseFiles, InOvFiles, WithOverlay, BeforeOvPostings, BeforeTombs,
       BeforeOvLexicon, BeforePostings, BeforeLexicon
  <1>4. CASE Environment
    <2>1. clock' = clock + 1 /\ UNCHANGED meta /\ b'.run = b.run /\ b'.pc = b.pc
      BY <1>2, <1>4, EditsTick, EnvironmentKeeps DEF Calm, Unraced, base
    <2>2. ~Still' /\ clock' # past.clock /\ past.clock <= clock'
      BY <1>2, <2>1 DEF Still
    <2>3. ReadTyped' /\ ReadRuns'
      BY <1>3, <2>1, <2>2 DEF CompleteInv, ReadTyped, ReadRuns
    <2> QED
      BY <1>1, <2>2, <2>3 DEF CompleteInv, BaseRead, OverlayRead, AloneIsAll, CandsAreAll, SearchIsComplete,
         Quiet
  <1>5. CASE ~Environment
    <2>1. /\ UNCHANGED <<disk, mtime, clock>> /\ b'.run >= b.run
          /\ b'.pc # "idle" => b'.run > b.run \/ (b.pc # "idle" /\ b'.run = b.run)
          /\ postings' = postings \/ (postings'.run = b.run /\ b.pc # "idle")
          /\ meta' = meta \/ (meta' # None /\ meta'.run = b.run /\ b.pc = "meta")
          /\ ovPost' \in {ovPost, None} \/ (ovPost'.run = b.run /\ b.pc # "idle")
          /\ tombs' \in {tombs, None} \/ (tombs'.run = b.run /\ b.pc # "idle")
      BY <1>5, BuilderPublishes DEF CompleteInv
    <2>2. (Still' <=> Still) /\ (Still' => Settled')
      BY <1>1, <1>5, <2>1 DEF CompleteInv, Still
    <2>3. b'.run \in Nat
      BY <1>1 DEF SettleInv, FreshInv, CourseInv, TypeInv, BuilderTyped
    <2>4. ReadTyped'
      BY <1>3, <2>1 DEF CompleteInv, ReadTyped
    <2>5. ReadRuns'
      <3>1. CASE meta' = meta
        BY <1>2, <1>3, <2>1, <2>3, <3>1 DEF CompleteInv, ReadRuns
      <3>2. CASE meta' # None /\ meta'.run = b.run /\ b.pc = "meta"
        BY <1>2, <1>3, <2>1, <2>3, <3>2 DEF CompleteInv, ReadRuns, RunsAscend
      <3> QED
        BY <2>1, <3>1, <3>2
    <2>6. BaseRead'
      <3> SUFFICES ASSUME Still', HasMeta' PROVE BaseRead'
        BY DEF BaseRead
      <3>1. Settled /\ HasMeta /\ meta # None /\ s.meta.run \in Nat /\ s.meta.run <= meta.run
        BY <1>3, <2>2 DEF CompleteInv, ReadRuns
      <3>2. s'.meta = meta' \/ AllInBase(s.meta)'
        <4>1. CASE meta' = meta
          BY <2>1, <2>2, <3>1, <4>1 DEF CompleteInv, BaseRead, AllInBase, InBase, Stays
        <4>2. CASE b.pc = "meta"
          <5>1. AllInBase(meta)
            BY <3>1, <4>2 DEF Settled, Rebuilding, PublishesBase
          <5> QED
            BY <2>1, <2>2, <3>1, <5>1 DEF CompleteInv, BaseRead, AllInBase, InBase, Stays
        <4> QED
          BY <2>1, <4>1, <4>2
      <3>3. LET p == IF InBaseFiles THEN postings ELSE s.postings
            IN  p.run = s.meta.run => Holds(s.meta, p)
        BY <2>2, <3>1 DEF CompleteInv, BaseRead
      <3>4. b.pc # "idle" => s.meta.run # b.run
        BY <1>2, <3>1 DEF RunsAscend
      <3>5. LET p == IF InBaseFiles' THEN postings' ELSE s'.postings
            IN  p.run = s'.meta.run => Holds(s.meta, p)
        BY <1>3, <2>1, <3>3, <3>4
      <3>6. ASSUME NEW p PROVE Holds(s.meta, p) => Holds(s.meta, p)'
        BY <2>1 DEF Holds, Stays
      <3> QED
        BY <2>1, <3>2, <3>5, <3>6 DEF BaseRead, Holds, Stays
    <2>7. OverlayRead'
      <3> SUFFICES ASSUME Still', HasOverlay' PROVE OverlayRead'
        BY DEF OverlayRead
      <3>1. b.pc # "idle" => s.ovMeta.run # b.run
        BY <1>2, <1>3 DEF CompleteInv, ReadRuns
      <3>2. /\ LET p == IF BeforeOvPostings THEN ovPost ELSE s.ovPost
               IN  p # None /\ p.run = s.ovMeta.run =>
                      /\ Covers(s.meta, s.ovMeta, p)
                      /\ s.ovMeta.baseRun = s.meta.run => p.base = Len(s.meta.docs)
            /\ LET t == IF BeforeTombs THEN tombs ELSE s.tombs
               IN  t # None /\ t.run = s.ovMeta.run /\ s.ovMeta.baseRun = s.meta.run => Spares(s.meta, t)
        BY <1>3, <2>2 DEF CompleteInv, OverlayRead
      <3>3. LET p == IF BeforeOvPostings' THEN ovPost' ELSE s'.ovPost
            IN  p # None /\ p.run = s.ovMeta.run =>
                   /\ Covers(s.meta, s.ovMeta, p)
                   /\ s.ovMeta.baseRun = s.meta.run => p.base = Len(s.meta.docs)
        BY <1>3, <2>1, <3>1, <3>2
      <3>4. LET t == IF BeforeTombs' THEN tombs' ELSE s'.tombs
            IN  t # None /\ t.run = s.ovMeta.run /\ s.ovMeta.baseRun = s.meta.run => Spares(s.meta, t)
        BY <1>3, <2>1, <3>1, <3>2
      <3> QED
        BY <2>1, <3>3, <3>4 DEF OverlayRead, Covers, InBase, InOverlay, Spares, Stays
    <2>8. AloneIsAll' /\ CandsAreAll' /\ SearchIsComplete'
      <3>1. AloneIsAll'
        BY <1>3, <2>1, <2>2 DEF CompleteInv, AloneIsAll, AllInBase, InBase, Stays
      <3>2. CandsAreAll'
        BY <2>1, <2>2 DEF CompleteInv, CandsAreAll, OneBuild, OneCut, WithOverlay, Holders
      <3>3. SearchIsComplete'
        BY <2>1 DEF CompleteInv, SearchIsComplete, Quiet, Holders
      <3> QED
        BY <3>1, <3>2, <3>3
    <2> QED
      BY <1>1, <2>2, <2>4, <2>5, <2>6, <2>7, <2>8 DEF CompleteInv
  <1> QED
    BY <1>4, <1>5

-----------------------------------------------------------------------------
(* What a searcher's step finds as it was. *)
LEMMA SearcherLeaves ==
    ASSUME Calm, CompleteInv, Search, Uncompacted
    PROVE  /\ UNCHANGED <<vars, disk, mtime, clock, fresh, meta, postings, ovMeta, ovPost, ovLex, tombs, b>>
           /\ SettleInv' /\ SearchInv' /\ (Settled => Settled')
  <1>1. UNCHANGED vars
    BY DEF Search, BeginSearch, LookReady, ReadMeta, StatSizes, MapLexicon, MapPostings, ReadOvMeta,
       OvExists, MapOvLexicon, MapOvPostings, ReadTombs, ReadDf, ReadDfTotal, Resolve, Verify, Scan, Reading
  <1>2. UNCHANGED <<disk, mtime, clock, fresh, meta, postings, ovMeta, ovPost, ovLex, tombs, b>>
    BY <1>1 DEF vars, workspace, base, overlay
  <1>3. clock \in Nat /\ TypeInv
    BY SizeAssumption DEF CompleteInv, SettleInv, FreshInv, CourseInv, TypeInv, WorkspaceTyped
  <1>4. ~Environment
    BY <1>2, <1>3, EditsTick
  <1>5. SettleInv' /\ (Settled => Settled')
    BY <1>1, <1>4, NextSettleInv DEF CompleteInv
  <1>6. SearchInv'
    BY NextSearchInv DEF CompleteInv, SearchNext
  <1> QED
    BY <1>1, <1>2, <1>5, <1>6

(* A search begins, fails, turns to a scan or ends: it holds no metadata any more. *)
LEMMA SearcherRestarts ==
    ASSUME Calm, CompleteInv, Search, Uncompacted,
           s'.pc \in {"look", "meta", "scan", "failed", "done", "panicked"},
           \/ past'.fresh = past.fresh /\ past'.clock = past.clock
           \/ past'.fresh = fresh /\ past'.clock = clock,
           past' = [clock |-> past'.clock, fresh |-> past'.fresh, whole |-> past'.whole],
           s'.want \in Word, s'.pc = "meta" => meta # None, SearchIsComplete'
    PROVE  CompleteInv'
  <1>1. /\ UNCHANGED <<vars, disk, mtime, clock, fresh, meta, postings, ovMeta, ovPost, ovLex, tombs, b>>
        /\ SettleInv' /\ SearchInv' /\ (Settled => Settled')
    BY SearcherLeaves
  <1>2. clock \in Nat
    BY SizeAssumption DEF CompleteInv, SettleInv, FreshInv, CourseInv, TypeInv, WorkspaceTyped
  <1>3. Still' => Settled'
    BY <1>1 DEF CompleteInv, SettleInv, Still
  <1>4. ~HasMeta' /\ ~HasOverlay' /\ ~InQuery'
    BY DEF HasMeta, HasOverlay, InQuery, InOvFiles, InBaseFiles
  <1>5. ReadTyped' /\ ReadRuns'
    BY <1>1, <1>2, <1>4 DEF CompleteInv, ReadTyped, ReadRuns
  <1> QED
    BY <1>1, <1>3, <1>4, <1>5 DEF CompleteInv, BaseRead, OverlayRead, AloneIsAll, CandsAreAll, InQuery

(* The metadata is read: next to it are postings that fit it. *)
LEMMA SearcherReadsMeta ==
    ASSUME Calm, CompleteInv, ReadMeta, Uncompacted PROVE CompleteInv'
  <1>1. /\ UNCHANGED <<vars, disk, mtime, clock, fresh, meta, postings, ovMeta, ovPost, ovLex, tombs, b>>
        /\ SettleInv' /\ SearchInv' /\ (Settled => Settled')
    BY SearcherLeaves DEF Search
  <1>2. /\ s'.pc = "sizes" /\ s'.meta = meta /\ s'.want = s.want /\ s.pc = "meta" /\ meta # None
        /\ UNCHANGED past
    BY DEF ReadMeta, Reading, CompleteInv, SearchInv, SearcherShape, ReadTyped
  <1>3. HasMeta' /\ InBaseFiles' /\ ~HasOverlay' /\ ~InQuery'
    BY <1>2 DEF HasMeta, HasOverlay, InQuery, InOvFiles, InBaseFiles
  <1>4. meta.docs \in Seq(Record) /\ meta.run \in Nat
    BY <1>2 DEF CompleteInv, SettleInv, FreshInv, CourseInv, TypeInv, BaseTyped
  <1>5. ReadTyped' /\ ReadRuns'
    BY <1>1, <1>2, <1>3, <1>4 DEF CompleteInv, ReadTyped, ReadRuns
  <1>6. postings.run = meta.run => Holds(meta, postings)
    BY <1>2 DEF CompleteInv, SettleInv, BaseIsNumbered, FreshInv, CourseInv, BaseFits, Holds
  <1>7. BaseRead'
    BY <1>1, <1>2, <1>3, <1>6 DEF BaseRead, Holds, Stays
  <1>8. Still' <=> Still
    BY <1>1, <1>2 DEF Still
  <1> QED
    BY <1>1, <1>2, <1>3, <1>5, <1>7, <1>8 DEF CompleteInv, OverlayRead, AloneIsAll, CandsAreAll,
       SearchIsComplete, Quiet

(* The next file of the base or of the overlay is opened, or frequencies are read. *)
LEMMA SearcherOpens ==
    ASSUME Calm, CompleteInv, Search, Uncompacted, UNCHANGED past,
           s'.want = s.want, s'.meta = s.meta, s'.ovMeta = s.ovMeta,
           s'.pc # "verify", s'.pc # "done",
           HasMeta, (HasOverlay' <=> HasOverlay), (InQuery' => InQuery \/ HasOverlay'),
           s'.postings = s.postings \/ s'.postings = postings,
           InBaseFiles' => InBaseFiles,
           ~InBaseFiles' => IF InBaseFiles THEN s'.postings = postings ELSE s'.postings = s.postings,
           ~BeforeOvPostings' => IF BeforeOvPostings THEN s'.ovPost = ovPost /\ ovPost # None
                                                     ELSE s'.ovPost = s.ovPost,
           BeforeOvPostings' => BeforeOvPostings,
           ~BeforeTombs' => IF BeforeTombs THEN s'.tombs = tombs ELSE s'.tombs = s.tombs,
           BeforeTombs' => BeforeTombs,
           HasMeta'
    PROVE  CompleteInv'
  <1>1. /\ UNCHANGED <<vars, disk, mtime, clock, fresh, meta, postings, ovMeta, ovPost, ovLex, tombs, b>>
        /\ SettleInv' /\ SearchInv' /\ (Settled => Settled')
    BY SearcherLeaves
  <1>2. (Still' <=> Still) /\ (Still' => Settled')
    BY <1>1 DEF CompleteInv, Still
  <1>3. ovPost # None => ovPost.words \in Seq(Text)
    BY DEF CompleteInv, SettleInv, FreshInv, CourseInv, TypeInv, OverlayTyped
  <1>4. ReadTyped'
    BY <1>1, <1>3 DEF CompleteInv, ReadTyped, HasMeta, InBaseFiles, InOvFiles, InQuery
  <1>5. ReadRuns'
    BY <1>1 DEF CompleteInv, ReadRuns
  <1>6. BaseRead'
    BY <1>1, <1>2 DEF CompleteInv, BaseRead, AllInBase, InBase, Holds, Stays
  <1>7. OverlayRead'
    BY <1>1, <1>2 DEF CompleteInv, OverlayRead, Covers, InBase, InOverlay, Spares, Stays
  <1>8. AloneIsAll'
    <2> SUFFICES ASSUME Still', InQuery', ~WithOverlay' PROVE AllInBase(s.meta)'
      BY DEF AloneIsAll
    <2>1. ~HasOverlay'
      BY DEF HasOverlay, InOvFiles, InQuery
    <2>2. InQuery /\ ~WithOverlay
      BY <2>1 DEF WithOverlay
    <2> QED
      BY <1>1, <1>2, <2>2 DEF CompleteInv, AloneIsAll, AllInBase, InBase, Stays
  <1>9. CandsAreAll' /\ SearchIsComplete'
    BY DEF CandsAreAll, SearchIsComplete, Quiet
  <1> QED
    BY <1>1, <1>2, <1>4, <1>5, <1>6, <1>7, <1>8, <1>9 DEF CompleteInv

(* The overlay's metadata is read: next to it are an overlay that has what the base has *)
(* not, and tombstones that spare what it has.                                          *)
LEMMA SearcherReadsOvMeta ==
    ASSUME Calm, CompleteInv, ReadOvMeta, ovMeta # None, Uncompacted PROVE CompleteInv'
  <1>1. /\ UNCHANGED <<vars, disk, mtime, clock, fresh, meta, postings, ovMeta, ovPost, ovLex, tombs, b>>
        /\ SettleInv' /\ SearchInv' /\ (Settled => Settled')
    BY SearcherLeaves DEF Search
  <1>2. /\ s'.pc = "ov_exists" /\ s'.meta = s.meta /\ s'.want = s.want /\ s'.postings = s.postings
        /\ s'.ovMeta = ovMeta /\ s.pc = "ov_meta" /\ UNCHANGED past
    BY DEF ReadOvMeta, Reading, CompleteInv, SearchInv, SearcherShape
  <1>3. /\ HasMeta' /\ HasMeta /\ ~InBaseFiles' /\ ~InBaseFiles /\ HasOverlay' /\ ~InQuery'
        /\ BeforeOvPostings' /\ BeforeTombs'
    BY <1>2 DEF HasMeta, HasOverlay, InQuery, InOvFiles, InBaseFiles, BeforeOvPostings, BeforeTombs,
       BeforeOvLexicon
  <1>4. (Still' <=> Still) /\ (Still' => Settled')
    BY <1>1, <1>2 DEF CompleteInv, Still
  <1>5. ReadTyped'
    BY <1>1, <1>2, <1>3 DEF CompleteInv, ReadTyped
  <1>6. ReadRuns'
    BY <1>1, <1>2, <1>3 DEF CompleteInv, ReadRuns, SettleInv, CommitInv, OverlayPredates
  <1>7. BaseRead'
    BY <1>1, <1>2, <1>3, <1>4 DEF CompleteInv, BaseRead, AllInBase, InBase, Holds, Stays
  <1>8. OverlayRead'
    <2> SUFFICES ASSUME Still PROVE OverlayRead'
      BY <1>4 DEF OverlayRead
    <2>1. s.meta = meta \/ AllInBase(s.meta)
      BY <1>3 DEF CompleteInv, BaseRead
    <2>2. meta # None /\ (s.meta.run = meta.run => s.meta = meta)
      BY <1>3 DEF CompleteInv, ReadRuns
    <2>3. OverlayFitsBase /\ ovMeta.baseRun = meta.run
      BY DEF CompleteInv, SettleInv, FreshInv, CourseInv, TypeInv, OverlayInv, OverlayFitsBase
    <2>4. ovPost # None /\ ovPost.run = ovMeta.run => Covers(s.meta, ovMeta, ovPost)
      BY <2>1 DEF CompleteInv, Settled, Covers, AllInBase
    <2>5. ovPost # None /\ ovMeta.baseRun = s.meta.run => ovPost.base = Len(s.meta.docs)
      BY <2>2, <2>3 DEF OverlayFitsBase
    <2>6. tombs # None => Spares(meta, tombs)
      <3> SUFFICES ASSUME tombs # None, NEW i \in tombs.ids, i \in DOMAIN meta.docs
                   PROVE  ~Stays(meta.docs[i].path, meta.docs[i].mtime)
        BY DEF Spares
      <3>1. meta.docs[i].mtime < mtime[meta.docs[i].path]
        BY DEF CompleteInv, SettleInv, FreshInv, TombsAreStale
      <3>2. meta.docs[i].mtime \in Nat /\ mtime[meta.docs[i].path] \in Nat
        BY <2>2, DocumentsAreTyped DEF CompleteInv, SettleInv, FreshInv, CourseInv
      <3> QED
        BY <3>1, <3>2 DEF Stays
    <2>7. tombs # None /\ ovMeta.baseRun = s.meta.run => Spares(s.meta, tombs)
      BY <2>2, <2>3, <2>6
    <2> QED
      BY <1>1, <1>2, <1>3, <2>4, <2>5, <2>7 DEF OverlayRead, Covers, InBase, InOverlay, Spares, Stays
  <1> QED
    BY <1>1, <1>2, <1>3, <1>4, <1>5, <1>6, <1>7, <1>8 DEF CompleteInv, AloneIsAll, CandsAreAll,
       SearchIsComplete, Quiet

(* The base alone is searched when there is no overlay to open: then it has it all. *)
LEMMA SearcherGoesAlone ==
    ASSUME Calm, CompleteInv, Search, Uncompacted, BaseOnly, UNCHANGED past, ~OverlayOpens,
           s.pc = "ov_meta" \/ InOvFiles
    PROVE  CompleteInv'
  <1>1. /\ UNCHANGED <<vars, disk, mtime, clock, fresh, meta, postings, ovMeta, ovPost, ovLex, tombs, b>>
        /\ SettleInv' /\ SearchInv' /\ (Settled => Settled')
    BY SearcherLeaves
  <1>2. /\ s'.pc = "df" /\ s'.meta = s.meta /\ s'.want = s.want /\ s'.postings = s.postings
        /\ s'.ovMeta = None
    BY DEF BaseOnly, CompleteInv, SearchInv, SearcherShape
  <1>3. HasMeta' /\ HasMeta /\ ~InBaseFiles' /\ ~InBaseFiles /\ ~HasOverlay' /\ InQuery'
    BY <1>2 DEF HasMeta, HasOverlay, InQuery, InOvFiles, InBaseFiles, WithOverlay
  <1>4. (Still' <=> Still) /\ (Still' => Settled')
    BY <1>1, <1>2 DEF CompleteInv, Still
  <1>5. ReadTyped' /\ ReadRuns'
    BY <1>1, <1>2, <1>3 DEF CompleteInv, ReadTyped, ReadRuns, InOvFiles
  <1>6. BaseRead'
    BY <1>1, <1>2, <1>3, <1>4 DEF CompleteInv, BaseRead, AllInBase, InBase, Holds, Stays
  <1>7. AloneIsAll'
    <2>1. Still => AllInBase(s.meta)
      BY <1>3 DEF CompleteInv, BaseRead, Settled
    <2> QED
      BY <1>1, <1>2, <1>4, <2>1 DEF AloneIsAll, AllInBase, InBase, Stays
  <1> QED
    BY <1>1, <1>2, <1>3, <1>4, <1>5, <1>6, <1>7 DEF CompleteInv, OverlayRead, CandsAreAll,
       SearchIsComplete, Quiet

(* What is of one build and cut as the word is leads to every file that holds the word. *)
LEMMA ResolveFindsAll ==
    ASSUME CompleteInv, s.pc = "resolve", Still, OneBuild, OneCut,
           NEW below \in Lookup(s.postings, s.lexicon.run, 0),
           NEW above \in IF WithOverlay THEN Lookup(s.ovPost, s.ovLex, s.ovPost.base) ELSE {{}},
           NEW f \in Holders
    PROVE  \E d \in (IF WithOverlay THEN Live(below) ELSE below) \cup above : PathOf(d) = f
  <1>1. InQuery /\ HasMeta /\ ~InBaseFiles /\ ~BeforeOvPostings /\ ~BeforeTombs
    BY DEF InQuery, HasMeta, InBaseFiles, BeforeTombs, BeforeOvPostings, BeforeOvLexicon, BeforePostings,
       BeforeLexicon
  <1>2. f \in File /\ disk[f] = s.want /\ disk[f] \in Text
    BY DEF Holders, CompleteInv, ReadTyped, Text
  <1>3. Holds(s.meta, s.postings)
    BY <1>1 DEF CompleteInv, BaseRead, OneBuild
  <1>4. DOMAIN s.meta.docs = 1 .. Len(s.meta.docs) /\ Len(s.meta.docs) \in Nat
    BY <1>1, LenProperties DEF CompleteInv, ReadRuns
  <1>5. CASE InBase(s.meta, f)
    <2>1. PICK i \in DOMAIN s.meta.docs : s.meta.docs[i].path = f /\ Stays(f, s.meta.docs[i].mtime)
      BY <1>5 DEF InBase
    <2>2. i \in DOMAIN s.postings.words /\ s.postings.words[i] = s.want
      BY <1>2, <1>3, <2>1 DEF Holds
    <2>3. i \in 1 .. Len(s.meta.docs) /\ 0 + i = i
      BY <1>4, <2>1
    <2>4. s.postings.words # <<>>
      BY <2>2
    <2>5. i \in below
      BY <2>2, <2>3, <2>4 DEF Lookup, OneBuild, OneCut
    <2>6. WithOverlay => i \in Live(below)
      BY <1>1, <2>1, <2>5 DEF Live, CompleteInv, OverlayRead, HasOverlay, WithOverlay, Spares, OneBuild
    <2>7. PathOf(i) = f
      BY <1>4, <2>1, <2>3 DEF PathOf
    <2> QED
      BY <2>5, <2>6, <2>7
  <1>6. CASE WithOverlay /\ InOverlay(s.ovMeta, s.ovPost, f)
    <2>1. HasOverlay /\ s.ovPost.words \in Seq(Text) /\ s.ovPost # None
      BY <1>1, <1>6 DEF HasOverlay, CompleteInv, ReadTyped
    <2>2. s.ovPost.base = Len(s.meta.docs)
      BY <1>1, <1>6, <2>1 DEF CompleteInv, OverlayRead, OneBuild
    <2>3. PICK i \in DOMAIN s.ovMeta.paths : /\ s.ovMeta.paths[i] = f /\ i \in DOMAIN s.ovPost.words
                                             /\ s.ovPost.words[i] = s.want
      BY <1>2, <1>6 DEF InOverlay
    <2>4. i \in Nat /\ i >= 1
      BY <2>1, <2>3, LenProperties
    <2>5. s.ovPost.words # <<>>
      BY <2>3
    <2>6. Len(s.meta.docs) + i \in above
      BY <1>6, <2>2, <2>3, <2>5 DEF Lookup, OneBuild, OneCut
    <2>7. PathOf(Len(s.meta.docs) + i) = f
      BY <1>4, <2>3, <2>4 DEF PathOf
    <2> QED
      BY <2>6, <2>7
  <1>7. InBase(s.meta, f) \/ (WithOverlay /\ InOverlay(s.ovMeta, s.ovPost, f))
    <2>1. CASE WithOverlay
      <3>1. HasOverlay /\ s.ovPost # None
        BY <1>1, <2>1 DEF HasOverlay, CompleteInv, ReadTyped
      <3>2. Covers(s.meta, s.ovMeta, s.ovPost)
        BY <1>1, <2>1, <3>1 DEF CompleteInv, OverlayRead, OneBuild
      <3> QED
        BY <1>2, <2>1, <3>2 DEF Covers
    <2>2. CASE ~WithOverlay
      BY <1>1, <1>2, <2>2 DEF CompleteInv, AloneIsAll, AllInBase
    <2> QED
      BY <2>1, <2>2
  <1> QED
    BY <1>5, <1>6, <1>7

LEMMA SearcherResolves ==
    ASSUME Calm, CompleteInv, Resolve, Uncompacted PROVE CompleteInv'
  <1> DEFINE Cands(below, above) == (IF WithOverlay THEN Live(below) ELSE below) \cup above
  <1>1. /\ UNCHANGED <<vars, disk, mtime, clock, fresh, meta, postings, ovMeta, ovPost, ovLex, tombs, b>>
        /\ SettleInv' /\ SearchInv' /\ (Settled => Settled')
    BY SearcherLeaves DEF Search
  <1>2. s.pc = "resolve" /\ UNCHANGED past /\ SearcherShape /\ s.want \in Word
    BY DEF Resolve, Reading, CompleteInv, SearchInv, ReadTyped
  <1>3. PICK below \in Lookup(s.postings, s.lexicon.run, 0),
             above \in IF WithOverlay THEN Lookup(s.ovPost, s.ovLex, s.ovPost.base) ELSE {{}} :
           \/ Forget("scan") \/ Goto("panicked")
           \/ s' = [s EXCEPT !.pc = "verify", !.cands = {PathOf(d) : d \in Cands(below, above)}]
    BY Zenon DEF Resolve
  <1>4. CASE Forget("scan") \/ Goto("panicked")
    <2>1. s'.pc \in {"scan", "panicked"} /\ s'.want = s.want
      BY <1>2, <1>4 DEF Forget, Goto, Asleep, SearcherShape
    <2> QED
      BY <1>2, <2>1, SearcherRestarts DEF Search, CompleteInv, ReadTyped, SearchIsComplete, Quiet
  <1>5. CASE s' = [s EXCEPT !.pc = "verify", !.cands = {PathOf(d) : d \in Cands(below, above)}]
    <2>1. /\ s'.pc = "verify" /\ s'.cands = {PathOf(d) : d \in Cands(below, above)}
          /\ s'.want = s.want /\ s'.meta = s.meta /\ s'.lexicon = s.lexicon /\ s'.postings = s.postings
          /\ s'.ovMeta = s.ovMeta /\ s'.ovLex = s.ovLex /\ s'.ovPost = s.ovPost /\ s'.tombs = s.tombs
          /\ s'.weights = s.weights
      BY <1>2, <1>5 DEF SearcherShape
    <2> HIDE DEF Cands
    <2>2. /\ HasMeta' /\ HasMeta /\ ~InBaseFiles' /\ ~InBaseFiles /\ InQuery /\ InQuery'
          /\ (HasOverlay' <=> HasOverlay) /\ (WithOverlay' <=> WithOverlay)
          /\ ~BeforeOvPostings /\ ~BeforeOvPostings' /\ ~BeforeTombs /\ ~BeforeTombs'
      BY <1>2, <2>1 DEF HasMeta, HasOverlay, InQuery, InOvFiles, InBaseFiles, WithOverlay, BeforeTombs,
         BeforeOvPostings, BeforeOvLexicon, BeforePostings, BeforeLexicon
    <2>3. (Still' <=> Still) /\ (Still' => Settled')
      BY <1>1, <1>2 DEF CompleteInv, Still
    <2>4. ReadTyped' /\ ReadRuns'
      BY <1>1, <1>2, <2>1, <2>2 DEF CompleteInv, ReadTyped, ReadRuns
    <2>5. BaseRead'
      BY <1>1, <2>1, <2>2, <2>3 DEF CompleteInv, BaseRead, AllInBase, InBase, Holds, Stays
    <2>6. OverlayRead'
      BY <1>1, <2>1, <2>2, <2>3 DEF CompleteInv, OverlayRead, Covers, InBase, InOverlay, Spares, Stays
    <2>7. AloneIsAll'
      BY <1>1, <2>1, <2>2, <2>3 DEF CompleteInv, AloneIsAll, AllInBase, InBase, Stays
    <2>8. CandsAreAll'
      <3> SUFFICES ASSUME Still, OneBuild', OneCut', NEW f \in Holders' PROVE f \in s'.cands
        BY <2>3 DEF CandsAreAll
      <3>1. OneBuild /\ OneCut /\ f \in Holders
        BY <1>1, <2>1 DEF OneBuild, OneCut, WithOverlay, Holders
      <3>2. \E d \in Cands(below, above) : PathOf(d) = f
        BY <1>2, <3>1, ResolveFindsAll DEF Cands
      <3> QED
        BY <2>1, <3>2
    <2> QED
      BY <1>1, <2>1, <2>3, <2>4, <2>5, <2>6, <2>7, <2>8 DEF CompleteInv, SearchIsComplete, Quiet
  <1> QED
    BY <1>3, <1>4, <1>5

(* The candidates are read as they are now, which is as they were. *)
LEMMA SearcherVerifies ==
    ASSUME Calm, CompleteInv, Verify, Uncompacted PROVE CompleteInv'
  <1>1. /\ s.pc = "verify" /\ s'.pc = "done" /\ s'.want = s.want /\ s.want \in Word
        /\ s'.found = {f \in s.cands : disk[f] = s.want} /\ UNCHANGED <<disk, clock>>
    BY DEF Verify, Done, Asleep, CompleteInv, ReadTyped, vars, workspace
  <1>2. /\ past'.whole = (OneBuild /\ OneCut) /\ past'.fresh = past.fresh /\ past'.clock = past.clock
        /\ past' = [clock |-> past'.clock, fresh |-> past'.fresh, whole |-> past'.whole]
    BY DEF Verify, CompleteInv, ReadTyped
  <1>3. SearchIsComplete'
    <2> SUFFICES ASSUME Still, OneBuild, OneCut PROVE Holders' \subseteq s'.found
      BY <1>1, <1>2 DEF SearchIsComplete, Quiet, Still
    <2>1. Holders \subseteq s.cands
      BY <1>1 DEF CompleteInv, CandsAreAll
    <2> QED
      BY <1>1, <2>1 DEF Holders
  <1> QED
    BY <1>1, <1>2, <1>3, SearcherRestarts DEF Search

LEMMA SearcherKeepsComplete ==
    ASSUME Calm, CompleteInv, Search, Uncompacted PROVE CompleteInv'
  <1>0. /\ SearcherShape /\ NotYetOpened /\ (s.pc # "idle" => s.want \in Word)
        /\ past = [clock |-> past.clock, fresh |-> past.fresh, whole |-> past.whole]
        /\ (HasOverlay => s.ovMeta # None)
    BY DEF CompleteInv, SearchInv, ReadTyped
  <1>1. ASSUME NEW w \in Word, BeginSearch(w) PROVE CompleteInv'
    BY <1>1, SearcherRestarts DEF Search, BeginSearch, Asleep, SearchIsComplete, Quiet
  <1>2. CASE LookReady
    BY <1>0, <1>2, SearcherRestarts DEF Search, LookReady, Reading, Goto, SearcherShape, SearchIsComplete, Quiet
  <1>3. CASE ReadMeta
    BY <1>3, SearcherReadsMeta
  <1>4. CASE StatSizes
    <2>1. CASE Forget("failed")
      BY <1>0, <1>4, <2>1, SearcherRestarts DEF Search, StatSizes, Reading, Forget, Asleep,
         SearchIsComplete, Quiet
    <2>2. CASE Goto("lexicon")
      <3>1. s' = [s EXCEPT !.pc = "lexicon"] /\ s.pc = "sizes" /\ UNCHANGED past
        BY <1>4, <2>2 DEF StatSizes, Reading, Goto
      <3> QED
        BY <1>0, <1>4, <3>1, SearcherOpens DEF Search, SearcherShape, HasMeta, HasOverlay, InQuery, InOvFiles,
           InBaseFiles, BeforeTombs, BeforeOvPostings, BeforeOvLexicon, BeforePostings, BeforeLexicon
    <2> QED
      BY <1>4, <2>1, <2>2 DEF StatSizes
  <1>5. CASE MapLexicon
    BY <1>0, <1>5, SearcherOpens DEF MapLexicon, Reading, Search, SearcherShape, HasMeta, HasOverlay, InQuery,
       InOvFiles, InBaseFiles, BeforeTombs, BeforeOvPostings, BeforeOvLexicon, BeforePostings, BeforeLexicon
  <1>6. CASE MapPostings
    BY <1>0, <1>6, SearcherOpens DEF MapPostings, Reading, Search, SearcherShape, HasMeta, HasOverlay, InQuery,
       InOvFiles, InBaseFiles, BeforeTombs, BeforeOvPostings, BeforeOvLexicon, BeforePostings, BeforeLexicon
  <1>7. CASE ReadOvMeta
    BY <1>7, SearcherReadsOvMeta, SearcherGoesAlone DEF ReadOvMeta, Reading, Search, OverlayOpens
  <1>8. CASE OvExists
    <2>1. CASE BaseOnly /\ ~OverlayOpens
      BY <1>8, <2>1, SearcherGoesAlone DEF OvExists, Reading, Search, InOvFiles
    <2>2. CASE Goto("ov_lexicon")
      BY <1>0, <1>8, <2>2, SearcherOpens DEF OvExists, Goto, Reading, Search, SearcherShape, HasMeta,
         HasOverlay, InQuery, InOvFiles, InBaseFiles, BeforeTombs, BeforeOvPostings, BeforeOvLexicon,
         BeforePostings, BeforeLexicon
    <2> QED
      BY <1>8, <2>1, <2>2 DEF OvExists, OverlayOpens
  <1>9. CASE MapOvLexicon
    <2>1. CASE BaseOnly /\ ~OverlayOpens
      BY <1>9, <2>1, SearcherGoesAlone DEF MapOvLexicon, Reading, Search, InOvFiles
    <2>2. CASE s' = [s EXCEPT !.pc = "ov_postings", !.ovLex = ovLex]
      BY <1>0, <1>9, <2>2, SearcherOpens DEF MapOvLexicon, Reading, Search, SearcherShape, HasMeta,
         HasOverlay, InQuery, InOvFiles, InBaseFiles, BeforeTombs, BeforeOvPostings, BeforeOvLexicon,
         BeforePostings, BeforeLexicon
    <2> QED
      BY <1>9, <2>1, <2>2 DEF MapOvLexicon, OverlayOpens
  <1>10. CASE MapOvPostings
    <2>1. CASE BaseOnly /\ ~OverlayOpens
      BY <1>10, <2>1, SearcherGoesAlone DEF MapOvPostings, Reading, Search, InOvFiles
    <2>2. CASE ovPost # None /\ s' = [s EXCEPT !.pc = "ov_tombs", !.ovPost = ovPost]
      BY <1>0, <1>10, <2>2, SearcherOpens DEF MapOvPostings, Reading, Search, SearcherShape, HasMeta,
         HasOverlay, InQuery, InOvFiles, InBaseFiles, BeforeTombs, BeforeOvPostings, BeforeOvLexicon,
         BeforePostings, BeforeLexicon
    <2> QED
      BY <1>10, <2>1, <2>2 DEF MapOvPostings, OverlayOpens
  <1>11. CASE ReadTombs
    BY <1>0, <1>11, SearcherOpens DEF ReadTombs, Reading, Search, SearcherShape, WithOverlay, HasMeta,
       HasOverlay, InQuery, InOvFiles, InBaseFiles, BeforeTombs, BeforeOvPostings, BeforeOvLexicon,
       BeforePostings, BeforeLexicon
  <1>12. CASE ReadDf \/ ReadDfTotal
    <2>1. /\ s.pc \in {"df", "df_total"} /\ s'.pc \in {"df_total", "resolve"} /\ UNCHANGED past
          /\ s'.want = s.want /\ s'.meta = s.meta /\ s'.postings = s.postings /\ s'.ovMeta = s.ovMeta
          /\ s'.ovPost = s.ovPost /\ s'.tombs = s.tombs
      BY <1>0, <1>12 DEF ReadDf, ReadDfTotal, Reading, SearcherShape
    <2> QED
      BY <1>12, <2>1, SearcherOpens DEF Search, WithOverlay, HasMeta, HasOverlay, InQuery, InOvFiles,
         InBaseFiles, BeforeTombs, BeforeOvPostings, BeforeOvLexicon, BeforePostings, BeforeLexicon
  <1>13. CASE Resolve
    BY <1>13, SearcherResolves
  <1>14. CASE Verify
    BY <1>14, SearcherVerifies
  <1>15. CASE Scan
    <2>1. /\ s.pc = "scan" /\ s'.pc = "done" /\ s'.want = s.want /\ UNCHANGED <<disk, past>>
          /\ s'.found = Holders
      BY <1>15 DEF Scan, Reading, Done, Asleep, Holders, vars, workspace
    <2>2. SearchIsComplete'
      BY <2>1 DEF SearchIsComplete, Holders
    <2> QED
      BY <1>0, <1>15, <2>1, <2>2, SearcherRestarts DEF Search
  <1> QED
    BY <1>1, <1>2, <1>3, <1>4, <1>5, <1>6, <1>7, <1>8, <1>9, <1>10, <1>11, <1>12, <1>13, <1>14, <1>15 DEF Search

(* For any project whose files are compared by mtime and do not change between the     *)
(* builder's read and its stat, any number of builds, crashes and searches: a search   *)
(* that began on an up-to-date index, and found files of one build, finds every file   *)
(* that holds the word, builders at work or not.  No build may want compaction: that   *)
(* takes the overlay away before the base has what the overlay had, and a search in    *)
(* between has the old base alone, which is of one build and not complete.             *)
THEOREM SearchIsCompleteHolds ==
    ASSUME Calm PROVE SearchSpec /\ []Uncompacted => []SearchIsComplete
  <1>1. SearchInit => CompleteInv
    BY InitCompleteInv
  <1>2. CompleteInv /\ Uncompacted /\ [SearchNext]_searchVars => CompleteInv'
    BY SearcherKeepsComplete, BuilderKeepsComplete DEF SearchNext, searchVars
  <1>3. CompleteInv => SearchIsComplete
    BY DEF CompleteInv
  <1> QED
    BY <1>1, <1>2, <1>3, PTL DEF SearchSpec
=============================================================================
