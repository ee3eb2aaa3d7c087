------------------------- MODULE IndexBuilderProofs -------------------------
(***************************************************************************)
(* What holds of the on-disk index for any files, words and commits, any   *)
(* thresholds, and an environment that edits, crashes and moves HEAD.      *)
(***************************************************************************)
EXTENDS IndexBuilder, TLAPS, SequenceTheorems, FiniteSetTheorems

(* The program counters of the overlay build after its scan, and of the full *)
(* build after its scan.                                                     *)
PublishesOverlay == b.pc \in {"ov_lexicon", "ov_tombs", "ov_meta"}
PublishesBase == b.pc \in {"lexicon", "df_open", "df_write", "meta"}
Scans(mode) == b.pc \in {"read", "stat"} /\ b.mode = mode

(* The builder has all its locals. *)
BuilderShape ==
    b = [pc |-> b.pc, run |-> b.run, meta |-> b.meta, head |-> b.head,
         quiet |-> b.quiet, asked |-> b.asked, mode |-> b.mode, todo |-> b.todo, docs |-> b.docs,
         gone |-> b.gone, weights |-> b.weights]

(* Nobody else publishes: the metadata the builder has read is the one on disk. *)
MetadataHeld == b.pc # "idle" => b.meta = meta

(* Files are scanned for one of the two kinds of build, and an overlay is only *)
(* built over a base.                                                          *)
ScanHasMode == b.pc \in {"read", "stat"} => b.mode \in {"full", "overlay"}
OverlayHasBase == Scans("overlay") \/ PublishesOverlay => b.meta # None

(* A full build works with the overlay gone. *)
OverlayGone == Scans("full") \/ PublishesBase => ovMeta = None /\ ovPost = None /\ tombs = None

(* The inductive invariant. *)
OverlayInv ==
    /\ BuilderShape
    /\ MetadataHeld
    /\ ScanHasMode
    /\ OverlayHasBase
    /\ OverlayGone
    /\ OverlayFitsBase

-----------------------------------------------------------------------------
LEMMA InitOverlayInv == Init => OverlayInv
  BY DEF Init, Idle, OverlayInv, BuilderShape, MetadataHeld, ScanHasMode, OverlayHasBase,
         OverlayGone, OverlayFitsBase, Scans, PublishesBase, PublishesOverlay

(* An edit, a commit and a checkout only tell the builder that it was not quiet. *)
LEMMA TouchOverlayInv ==
    ASSUME OverlayInv, b' = [b EXCEPT !.quiet = FALSE], UNCHANGED <<base, overlay>>
    PROVE  OverlayInv'
  BY DEF base, overlay, OverlayInv, BuilderShape, MetadataHeld, ScanHasMode,
         OverlayHasBase, OverlayGone, OverlayFitsBase, Scans, PublishesBase,
         PublishesOverlay

LEMMA NextOverlayInv == OverlayInv /\ [Next]_vars => OverlayInv'
  <1> SUFFICES ASSUME OverlayInv, [Next]_vars PROVE OverlayInv'
    OBVIOUS
  <1> USE DEF OverlayInv, BuilderShape, MetadataHeld, ScanHasMode, OverlayHasBase,
              OverlayGone, OverlayFitsBase, Scans, PublishesBase, PublishesOverlay,
              base, overlay, Idle
  <1>1. CASE Start
    BY <1>1 DEF Start
  <1>2. CASE DecideWithoutLooking
    BY <1>2 DEF DecideWithoutLooking, RebuildAll
  <1>3. CASE Decide
    BY <1>3 DEF Decide, RebuildAll
  <1>4. CASE ClearOverlay
    BY <1>4 DEF ClearOverlay
  <1>5. CASE ReadFile
    BY <1>5 DEF ReadFile, ReadsNext, AddDocument, Skip
  <1>6. CASE StatFile
    BY <1>6 DEF StatFile
  <1>7. CASE PublishPostings
    BY <1>7 DEF PublishPostings, Scanned
  <1>8. CASE PublishLexicon
    BY <1>8 DEF PublishLexicon
  <1>9. CASE TruncateDf
    BY <1>9 DEF TruncateDf
  <1>10. CASE WriteDf
    BY <1>10 DEF WriteDf
  <1>11. CASE PublishMeta
    BY <1>11 DEF PublishMeta
  <1>12. CASE PublishOvPostings
    BY <1>12 DEF PublishOvPostings, Scanned
  <1>13. CASE PublishOvLexicon
    BY <1>13 DEF PublishOvLexicon
  <1>14. CASE PublishTombs
    BY <1>14 DEF PublishTombs, Tombstones
  <1>15. CASE PublishOvMeta
    BY <1>15 DEF PublishOvMeta
  <1>16. CASE Crash
    BY <1>16 DEF Crash
  <1>17. CASE Environment
    <2>1. b' = [b EXCEPT !.quiet = FALSE] /\ UNCHANGED <<base, overlay>>
      BY <1>17 DEF Environment, Edit, Commit, Checkout, Touch
    <2> QED
      BY <2>1, TouchOverlayInv
  <1>18. CASE UNCHANGED vars
    BY <1>18 DEF vars
  <1> QED
    BY <1>1, <1>2, <1>3, <1>4, <1>5, <1>6, <1>7, <1>8, <1>9, <1>10, <1>11, <1>12,
       <1>13, <1>14, <1>15, <1>16, <1>17, <1>18 DEF Next, Build

(* An overlay on disk, whole or in part, always belongs to the base whose metadata *)
(* is there, whatever crashed in clear_overlay, in a rebuild or in an overlay build. *)
THEOREM OverlayFitsBaseHolds == Spec => []OverlayFitsBase
  <1>1. OverlayInv => OverlayFitsBase
    BY DEF OverlayInv
  <1> QED
    BY <1>1, InitOverlayInv, NextOverlayInv, PTL DEF Spec

---------------------------------------------------------------------------
(* An index that is up to date holds every text file. *)

Text == Word \ Binary
Document == [path : File, word : Text, mtime : Nat]
Record == [path : File, mtime : Nat, size : Nat]

(* The state is well formed, what the builder holds included. *)
WorkspaceTyped ==
    /\ disk \in [File -> Content] /\ clock \in 0 .. MaxEdits /\ mtime \in [File -> 0 .. clock]
    /\ trees \in Seq([File -> Content]) /\ head \in DOMAIN trees \cup {None}
BaseTyped ==
    /\ postings # None => postings.words \in Seq(Text)
    /\ lexicon # None => lexicon.run \in 1 .. b.run
    /\ df \in [Word -> Nat] \cup {None}
    /\ meta # None => meta.docs \in Seq(Record) /\ meta.run \in Nat
OverlayTyped ==
    /\ ovPost # None => ovPost.words \in Seq(Text)
    /\ ovLex \in 1 .. b.run \cup {None}
BuilderTyped ==
    /\ b.run \in 0 .. MaxBuilds /\ b.quiet \in BOOLEAN /\ b.asked \in BOOLEAN
    /\ b.pc # "idle" => b.run # 0
    /\ b.docs \in Seq(Document) /\ (b.pc = "stat" => b.docs # <<>>)
    /\ b.todo \subseteq File /\ b.gone \subseteq File
    /\ b.weights \in WeightTable \cup {None}
TypeInv ==
    /\ OverlayInv
    /\ WorkspaceTyped
    /\ BaseTyped
    /\ OverlayTyped
    /\ BuilderTyped
    /\ fresh \in BOOLEAN

-----------------------------------------------------------------------------
LEMMA FunctionIsSeq ==
    ASSUME NEW T, NEW n \in Nat, NEW f \in [1 .. n -> T]
    PROVE  f \in Seq(T) /\ Len(f) = n /\ DOMAIN f = 1 .. n
  OBVIOUS

LEMMA WordsAreSeq ==
    ASSUME NEW docs \in Seq(Document)
    PROVE  /\ Words(docs) \in Seq(Text) /\ Len(Words(docs)) = Len(docs)
           /\ DOMAIN Words(docs) = DOMAIN docs
           /\ \A i \in DOMAIN docs : Words(docs)[i] = docs[i].word
  <1>1. DOMAIN docs = 1 .. Len(docs) /\ Len(docs) \in Nat /\ \A i \in DOMAIN docs : docs[i] \in Document
    BY LenProperties, ElementOfSeq
  <1>2. Words(docs) \in [1 .. Len(docs) -> Text]
    BY <1>1 DEF Words, Document
  <1> QED
    BY <1>1, <1>2, FunctionIsSeq DEF Words

Recorded(d) == [path |-> d.path, mtime |-> d.mtime, size |-> Size[d.word]]

LEMMA RecordsAreSeq ==
    ASSUME NEW docs \in Seq(Document)
    PROVE  LET r == [i \in DOMAIN docs |-> Recorded(docs[i])]
           IN  /\ r \in Seq(Record) /\ Len(r) = Len(docs) /\ DOMAIN r = DOMAIN docs
               /\ \A i \in DOMAIN docs : r[i].path = docs[i].path /\ r[i].mtime = docs[i].mtime
  <1> DEFINE r == [i \in DOMAIN docs |-> Recorded(docs[i])]
  <1>1. DOMAIN docs = 1 .. Len(docs) /\ Len(docs) \in Nat /\ \A i \in DOMAIN docs : docs[i] \in Document
    BY LenProperties, ElementOfSeq
  <1>2. r \in [1 .. Len(docs) -> Record]
    <2>1. \A i \in DOMAIN docs : Recorded(docs[i]) \in Record
      BY <1>1, LengthAssumption DEF Document, Record, Recorded, Text
    <2> QED
      BY <1>1, <2>1
  <1>3. \A i \in DOMAIN docs : r[i].path = docs[i].path /\ r[i].mtime = docs[i].mtime
    BY DEF Recorded
  <1> HIDE DEF r
  <1>4. r \in Seq(Record) /\ Len(r) = Len(docs) /\ DOMAIN r = DOMAIN docs
    BY <1>1, <1>2, FunctionIsSeq
  <1> QED
    BY <1>3, <1>4 DEF r

LEMMA PathsAreSeq ==
    ASSUME NEW docs \in Seq(Document)
    PROVE  LET p == [i \in DOMAIN docs |-> docs[i].path]
           IN  p \in Seq(File) /\ DOMAIN p = DOMAIN docs
  <1> DEFINE p == [i \in DOMAIN docs |-> docs[i].path]
  <1>1. DOMAIN docs = 1 .. Len(docs) /\ Len(docs) \in Nat /\ \A i \in DOMAIN docs : docs[i] \in Document
    BY LenProperties, ElementOfSeq
  <1>2. p \in [1 .. Len(docs) -> File]
    BY <1>1 DEF Document
  <1> HIDE DEF p
  <1>3. p \in Seq(File) /\ DOMAIN p = DOMAIN docs
    BY <1>1, <1>2, FunctionIsSeq
  <1> QED
    BY <1>3 DEF p

LEMMA FrequenciesAreNumbers ==
    ASSUME NEW docs \in Seq(Document) PROVE Frequencies(docs) \in [Word -> Nat]
  <1>1. DOMAIN docs = 1 .. Len(docs) /\ Len(docs) \in Nat
    BY LenProperties
  <1>2. IsFiniteSet(DOMAIN docs)
    BY <1>1, FS_Interval
  <1>3. \A w : Cardinality({i \in DOMAIN docs : docs[i].word = w}) \in Nat
    BY <1>2, FS_Subset, FS_CardinalityType
  <1> QED
    BY <1>3 DEF Frequencies

LEMMA WeightsAreTyped ==
    ASSUME BaseTyped PROVE Weights \in WeightTable \cup {None}
  <1>1. CASE df = None \/ meta = None
    BY <1>1 DEF Weights
  <1>2. CASE df # None /\ meta # None
    <2>1. Len(meta.docs) \in Nat /\ df \in [Word -> Nat]
      BY <1>2, LenProperties DEF BaseTyped
    <2> QED
      BY <1>2, <2>1 DEF Weights, WeightTable
  <1> QED
    BY <1>1, <1>2

-----------------------------------------------------------------------------
(* What the environment can do: no file changes, or some get new contents and with *)
(* them an mtime that no file has had.                                             *)
LEMMA TouchedFiles ==
    ASSUME WorkspaceTyped, NEW changes, Touch(changes),
           \A f \in DOMAIN changes : changes[f] \in Content
    PROVE  /\ disk' \in [File -> Content]
           /\ clock' = clock + 1 /\ clock' \in 0 .. MaxEdits /\ mtime' \in [File -> 0 .. clock']
           /\ \A f \in File : mtime'[f] = clock' \/ (mtime'[f] = mtime[f] /\ disk'[f] = disk[f])
           /\ "race" \in Env \/ b.pc # "stat"
  BY SizeAssumption DEF WorkspaceTyped, Touch, MidFile

LEMMA EnvironmentActs ==
    ASSUME WorkspaceTyped, Environment
    PROVE  /\ WorkspaceTyped'
           /\ b' = [b EXCEPT !.quiet = FALSE] /\ fresh' = FALSE /\ UNCHANGED <<base, overlay>>
           /\ \/ UNCHANGED <<disk, mtime, clock>>
              \/ /\ clock' = clock + 1 /\ ("race" \in Env \/ b.pc # "stat")
                 /\ \A f \in File : \/ mtime'[f] = clock'
                                    \/ mtime'[f] = mtime[f] /\ disk'[f] = disk[f]
  <1>1. ASSUME NEW f \in File, Edit(f)
        PROVE  \E changes : /\ Touch(changes) /\ UNCHANGED <<trees, head>>
                            /\ \A g \in DOMAIN changes : changes[g] \in Content
    <2>1. PICK c \in Content : Touch([g \in {f} |-> c]) /\ UNCHANGED <<trees, head>>
      BY <1>1 DEF Edit
    <2> DEFINE changes == [g \in {f} |-> c]
    <2>2. \A g \in DOMAIN changes : changes[g] \in Content
      OBVIOUS
    <2> HIDE DEF changes
    <2>3. Touch(changes) /\ UNCHANGED <<trees, head>>
      BY <2>1 DEF changes
    <2> QED
      BY <2>2, <2>3
  <1>2. ASSUME NEW c \in DOMAIN trees, Checkout(c)
        PROVE  \E changes : /\ Touch(changes) /\ UNCHANGED trees /\ head' = c
                            /\ \A g \in DOMAIN changes : changes[g] \in Content
    <2> DEFINE moved == {f \in File : trees[c][f] # trees[head][f]}
               changes == [f \in moved |-> trees[c][f]]
    <2>1. Touch(changes) /\ UNCHANGED trees /\ head' = c
      BY <1>2 DEF Checkout
    <2>2. c \in 1 .. Len(trees)
      BY LenProperties DEF WorkspaceTyped
    <2>3. trees[c] \in [File -> Content]
      BY <2>2, ElementOfSeq DEF WorkspaceTyped
    <2>4. \A g \in DOMAIN changes : changes[g] \in Content
      BY <2>3
    <2> HIDE DEF changes
    <2> QED
      BY <2>1, <2>4
  <1>3. CASE Commit
    <2>1. trees' = Append(trees, disk) /\ head' = Len(trees) + 1 /\ UNCHANGED <<disk, mtime, clock>>
      BY <1>3 DEF Commit
    <2>2. trees' \in Seq([File -> Content]) /\ Len(trees') = Len(trees) + 1 /\ Len(trees) \in Nat
      BY <2>1, LenProperties, AppendProperties DEF WorkspaceTyped
    <2>3. head' \in DOMAIN trees'
      BY <2>1, <2>2, LenProperties
    <2> QED
      BY <1>3, <2>1, <2>2, <2>3 DEF Commit, WorkspaceTyped
  <1>4. ASSUME NEW changes, Touch(changes), \A g \in DOMAIN changes : changes[g] \in Content,
               UNCHANGED trees, head' \in DOMAIN trees \cup {None}
        PROVE  /\ WorkspaceTyped'
               /\ clock' = clock + 1 /\ ("race" \in Env \/ b.pc # "stat")
               /\ \A f \in File : \/ mtime'[f] = clock'
                                  \/ mtime'[f] = mtime[f] /\ disk'[f] = disk[f]
               /\ b' = [b EXCEPT !.quiet = FALSE] /\ fresh' = FALSE /\ UNCHANGED <<base, overlay>>
    <2>1. b' = [b EXCEPT !.quiet = FALSE] /\ fresh' = FALSE /\ UNCHANGED <<base, overlay>>
      BY <1>4 DEF Touch
    <2> QED
      BY <1>4, <2>1, TouchedFiles DEF WorkspaceTyped
  <1>5. ASSUME NEW f \in File, Edit(f)
        PROVE  /\ WorkspaceTyped'
               /\ clock' = clock + 1 /\ ("race" \in Env \/ b.pc # "stat")
               /\ \A g \in File : \/ mtime'[g] = clock'
                                  \/ mtime'[g] = mtime[g] /\ disk'[g] = disk[g]
               /\ b' = [b EXCEPT !.quiet = FALSE] /\ fresh' = FALSE /\ UNCHANGED <<base, overlay>>
    <2>1. PICK changes : /\ Touch(changes) /\ UNCHANGED <<trees, head>>
                         /\ \A g \in DOMAIN changes : changes[g] \in Content
      BY <1>1, <1>5
    <2>2. head' \in DOMAIN trees \cup {None}
      BY <2>1 DEF WorkspaceTyped
    <2> QED
      BY <2>1, <2>2, <1>4
  <1>6. ASSUME NEW c \in DOMAIN trees, Checkout(c)
        PROVE  /\ WorkspaceTyped'
               /\ clock' = clock + 1 /\ ("race" \in Env \/ b.pc # "stat")
               /\ \A g \in File : \/ mtime'[g] = clock'
                                  \/ mtime'[g] = mtime[g] /\ disk'[g] = disk[g]
               /\ b' = [b EXCEPT !.quiet = FALSE] /\ fresh' = FALSE /\ UNCHANGED <<base, overlay>>
    <2>1. PICK changes : /\ Touch(changes) /\ UNCHANGED trees /\ head' = c
                         /\ \A g \in DOMAIN changes : changes[g] \in Content
      BY <1>2, <1>6
    <2> QED
      BY <2>1, <1>4
  <1> QED
    BY <1>3, <1>5, <1>6 DEF Environment, Commit

-----------------------------------------------------------------------------
(* What Decide comes to: nothing to do, a rebuild, or an overlay for what changed. *)
UpToDate(changed) ==
    changed = {} /\ b' = [Idle EXCEPT !.run = b.run, !.asked = (changed = Changed)] /\ fresh' = b.quiet
ToOverlay(changed, w) ==
    /\ b' = [b EXCEPT !.pc = "read", !.mode = "overlay", !.todo = changed \cap File,
                      !.asked = (changed = Changed), !.weights = w]
    /\ fresh' = fresh

LEMMA DecideComesTo ==
    ASSUME Decide
    PROVE  /\ b.pc = "decide" /\ b.meta # None /\ UNCHANGED <<workspace, base, overlay>>
           /\ \/ b' = [b EXCEPT !.pc = "clear"] /\ UNCHANGED fresh
              \/ \E changed \in Answers :
                    UpToDate(changed) \/ ToOverlay(changed, IF b.meta.idf THEN Weights ELSE None)
  <1>1. CASE RebuildAll /\ UNCHANGED fresh
    BY <1>1 DEF Decide, RebuildAll
  <1>2. ASSUME NEW changed \in Answers, UpToDate(changed)
        PROVE  \E c \in Answers : UpToDate(c) \/ ToOverlay(c, IF b.meta.idf THEN Weights ELSE None)
    BY <1>2
  <1>3. ASSUME NEW changed \in Answers,
               b' = [b EXCEPT !.pc = "read", !.mode = "overlay", !.todo = changed \cap File,
                              !.asked = (changed = Changed),
                              !.weights = IF b.meta.idf THEN Weights ELSE None],
               UNCHANGED fresh
        PROVE  \E c \in Answers : UpToDate(c) \/ ToOverlay(c, IF b.meta.idf THEN Weights ELSE None)
    BY <1>3 DEF ToOverlay
  <1>4. b.pc = "decide" /\ b.meta # None /\ UNCHANGED <<workspace, base, overlay>>
    BY DEF Decide
  <1>5. \/ RebuildAll /\ UNCHANGED fresh
        \/ \E changed \in Answers :
             \/ UpToDate(changed)
             \/ /\ b' = [b EXCEPT !.pc = "read", !.mode = "overlay", !.todo = changed \cap File,
                                   !.asked = (changed = Changed),
                                   !.weights = IF b.meta.idf THEN Weights ELSE None]
                /\ UNCHANGED fresh
    BY Zenon DEF Decide, UpToDate
  <1> QED
    BY <1>1, <1>2, <1>3, <1>4, <1>5

LEMMA InitTypeInv == Init => TypeInv
  <1> SUFFICES ASSUME Init PROVE TypeInv
    OBVIOUS
  <1>1. WorkspaceTyped
    <2>1. disk \in [File -> Content] /\ clock \in 0 .. MaxEdits /\ mtime \in [File -> 0 .. clock]
      BY SizeAssumption DEF Init
    <2>2. CASE "git" \in Env
      <3>1. <<disk>> \in Seq([File -> Content]) /\ 1 \in DOMAIN <<disk>>
        BY <2>1
      <3> QED
        BY <2>1, <2>2, <3>1 DEF Init, WorkspaceTyped
    <2>3. CASE "git" \notin Env
      BY <2>1, <2>3 DEF Init, WorkspaceTyped
    <2> QED
      BY <2>2, <2>3
  <1>2. BuilderTyped
    BY SizeAssumption DEF Init, Idle, BuilderTyped
  <1> QED
    BY <1>1, <1>2, InitOverlayInv DEF Init, TypeInv, BaseTyped, OverlayTyped

LEMMA EnvironmentTypeInv ==
    ASSUME TypeInv, OverlayInv', Environment PROVE TypeInv'
  <1>1. /\ WorkspaceTyped' /\ b' = [b EXCEPT !.quiet = FALSE] /\ fresh' = FALSE
        /\ UNCHANGED <<base, overlay>>
    BY EnvironmentActs DEF TypeInv
  <1> QED
    BY <1>1 DEF TypeInv, BaseTyped, OverlayTyped, BuilderTyped, OverlayInv, BuilderShape, base, overlay

(* A step that leaves the workspace and the disk's artifacts alone. *)
LEMMA DecidingTypeInv ==
    ASSUME TypeInv, OverlayInv', Start \/ DecideWithoutLooking \/ Decide \/ Crash
    PROVE  TypeInv'
  <1> USE DEF TypeInv, OverlayInv, BuilderShape
  <1>1. UNCHANGED <<workspace, base, overlay>>
    BY DEF Start, DecideWithoutLooking, Decide, Crash
  <1>2. Weights \in WeightTable \cup {None}
    BY WeightsAreTyped
  <1>3. b.run \in Nat
    BY DEF BuilderTyped
  <1>4. BuilderTyped' /\ b'.run >= b.run
    <2>1. CASE Start
      <3>1. PICK commit : b' = [Idle EXCEPT !.pc = "decide", !.run = b.run + 1, !.meta = meta,
                                            !.head = commit, !.quiet = TRUE]
        BY <2>1 DEF Start
      <3>2. b.run < MaxBuilds
        BY <2>1 DEF Start
      <3> QED
        BY <1>3, <3>1, <3>2, SizeAssumption DEF Idle, BuilderTyped
    <2>2. CASE DecideWithoutLooking
      BY <2>2, <1>3 DEF DecideWithoutLooking, RebuildAll, BuilderTyped
    <2>3. CASE Decide
      <3>1. (IF b.meta.idf THEN Weights ELSE None) \in WeightTable \cup {None}
        BY <1>2
      <3>2. ASSUME NEW changed, UpToDate(changed) PROVE BuilderTyped' /\ b'.run >= b.run
        BY <1>3, <3>2 DEF Idle, BuilderTyped, UpToDate
      <3>3. CASE b' = [b EXCEPT !.pc = "clear"]
        BY <1>3, <2>3, <3>3, DecideComesTo DEF BuilderTyped
      <3>4. ASSUME NEW changed, NEW w \in WeightTable \cup {None}, ToOverlay(changed, w)
            PROVE  BuilderTyped' /\ b'.run >= b.run
        <4>1. b.pc = "decide" /\ (changed = Changed) \in BOOLEAN /\ changed \cap File \subseteq File
          BY <2>3, DecideComesTo
        <4>2. b' = [b EXCEPT !.pc = "read", !.mode = "overlay", !.todo = changed \cap File,
                             !.asked = (changed = Changed), !.weights = w]
          BY <3>4 DEF ToOverlay
        <4>3. PICK asked : asked = (changed = Changed)
          OBVIOUS
        <4> QED
          BY <1>3, <4>1, <4>2, <4>3 DEF BuilderTyped
      <3> QED
        BY <2>3, <3>1, <3>2, <3>3, <3>4, DecideComesTo
    <2>4. CASE Crash
      BY <2>4, <1>3 DEF Crash, Idle, BuilderTyped
    <2> QED
      BY <2>1, <2>2, <2>3, <2>4
  <1>5. fresh' \in BOOLEAN
    <2>1. CASE Decide
      BY <2>1, DecideComesTo DEF UpToDate, ToOverlay, BuilderTyped
    <2> QED
      BY <2>1 DEF Start, DecideWithoutLooking, Crash
  <1>6. BaseTyped' /\ OverlayTyped' /\ WorkspaceTyped'
    BY <1>1, <1>3, <1>4 DEF workspace, base, overlay, BaseTyped, OverlayTyped, WorkspaceTyped,
       BuilderTyped
  <1> QED
    BY <1>4, <1>5, <1>6

LEMMA ClearTypeInv ==
    ASSUME TypeInv, OverlayInv', ClearOverlay PROVE TypeInv'
  <1> USE DEF TypeInv, OverlayInv, BuilderShape
  <1>1. UNCHANGED <<workspace, base, fresh>>
    BY DEF ClearOverlay
  <1>2. Weights \in WeightTable \cup {None}
    BY WeightsAreTyped
  <1>3. BuilderTyped' /\ b'.run = b.run
    BY <1>2 DEF ClearOverlay, BuilderTyped, Walk
  <1>4. OverlayTyped'
    BY <1>3 DEF ClearOverlay, OverlayTyped
  <1> QED
    BY <1>1, <1>3, <1>4 DEF workspace, base, BaseTyped, WorkspaceTyped

LEMMA ReadTypeInv ==
    ASSUME TypeInv, OverlayInv', ReadFile PROVE TypeInv'
  <1> USE DEF TypeInv, OverlayInv, BuilderShape
  <1>1. PICK f \in b.todo : /\ b.pc = "read"
                            /\ \/ Present(f) /\ disk[f] \notin Binary /\ AddDocument(f)
                               \/ Skip(f)
    BY DEF ReadFile, ReadsNext
  <1>2. UNCHANGED <<workspace, base, overlay, fresh>> /\ f \in File
    BY DEF ReadFile, BuilderTyped
  <1>3. BuilderTyped' /\ b'.run = b.run
    <2>1. CASE Skip(f)
      <3>1. b' = [b EXCEPT !.todo = @ \ {f}, !.gone = IF Present(f) THEN @ ELSE @ \cup {f}]
        BY <2>1 DEF Skip
      <3>2. (IF Present(f) THEN b.gone ELSE b.gone \cup {f}) \subseteq File
        BY <1>2 DEF BuilderTyped
      <3> QED
        BY <1>1, <3>1, <3>2 DEF BuilderTyped
    <2>2. CASE Present(f) /\ disk[f] \notin Binary /\ AddDocument(f)
      <3> DEFINE d == [path |-> f, word |-> disk[f], mtime |-> 0]
      <3>1. d \in Document
        BY <1>2, <2>2 DEF WorkspaceTyped, Content, Present, Document, Text
      <3>2. b' = [b EXCEPT !.pc = "stat", !.todo = @ \ {f}, !.docs = Append(@, d)]
        BY <2>2 DEF AddDocument
      <3> HIDE DEF d
      <3>3. /\ Append(b.docs, d) \in Seq(Document) /\ Len(Append(b.docs, d)) = Len(b.docs) + 1
            /\ Len(b.docs) \in Nat
        BY <3>1, AppendProperties, LenProperties DEF BuilderTyped
      <3>4. Append(b.docs, d) # <<>>
        BY <3>3
      <3> QED
        BY <1>1, <3>2, <3>3, <3>4 DEF BuilderTyped
    <2> QED
      BY <1>1, <2>1, <2>2
  <1> QED
    BY <1>2, <1>3 DEF workspace, base, overlay, BaseTyped, OverlayTyped, WorkspaceTyped

LEMMA StatTypeInv ==
    ASSUME TypeInv, OverlayInv', StatFile PROVE TypeInv'
  <1> USE DEF TypeInv, OverlayInv, BuilderShape
  <1> DEFINE last == Len(b.docs)
             f == b.docs[last].path
             d == [b.docs[last] EXCEPT !.mtime = mtime[f]]
  <1>1. UNCHANGED <<workspace, base, overlay, fresh>> /\ b.pc = "stat"
    BY DEF StatFile
  <1>2. b.docs \in Seq(Document) /\ b.docs # <<>>
    BY <1>1 DEF BuilderTyped
  <1>3. last \in 1 .. Len(b.docs) /\ last \in Nat
    BY <1>2, EmptySeq, LenProperties
  <1>4. b.docs[last] \in Document
    BY <1>2, <1>3, ElementOfSeq
  <1>5. d \in Document
    <2>1. f \in File
      BY <1>4 DEF Document
    <2>2. mtime[f] \in Nat
      BY <2>1, SizeAssumption DEF WorkspaceTyped
    <2> QED
      BY <1>4, <2>2 DEF Document
  <1>6. [b.docs EXCEPT ![last] = d] \in Seq(Document)
    BY <1>2, <1>3, <1>5, ExceptSeq
  <1>7. Front(b.docs) \in Seq(Document)
    <2>1. \A i \in 1 .. last - 1 : b.docs[i] \in Document
      BY <1>2, <1>3, ElementOfSeq
    <2> HIDE DEF last
    <2>2. SubSeq(b.docs, 1, last - 1) \in Seq(Document)
      BY <1>3, <2>1, SubSeqProperties
    <2> QED
      BY <2>2 DEF Front, last
  <1>8. /\ [b.docs EXCEPT ![last].mtime = mtime[f]] = [b.docs EXCEPT ![last] = d]
    OBVIOUS
  <1>9. PICK docs \in Seq(Document) : b' = [b EXCEPT !.pc = "read", !.docs = docs]
    <2>1. b' = [b EXCEPT !.pc = "read",
                         !.docs = IF Present(f) THEN [b.docs EXCEPT ![last].mtime = mtime[f]]
                                  ELSE IF b.mode = "full" THEN Front(b.docs) ELSE b.docs]
      BY DEF StatFile
    <2> HIDE DEF last, f, d
    <2> QED
      BY <1>2, <1>6, <1>7, <1>8, <2>1
  <1> HIDE DEF last, f, d
  <1>10. BuilderTyped' /\ b'.run = b.run
    BY <1>1, <1>9 DEF BuilderTyped
  <1> QED
    BY <1>1, <1>10 DEF workspace, base, overlay, BaseTyped, OverlayTyped, WorkspaceTyped

LEMMA PublishTypeInv ==
    ASSUME TypeInv, OverlayInv',
           \/ PublishPostings \/ PublishLexicon \/ TruncateDf \/ WriteDf \/ PublishMeta
           \/ PublishOvPostings \/ PublishOvLexicon \/ PublishTombs \/ PublishOvMeta
    PROVE  TypeInv'
  <1> USE DEF TypeInv, OverlayInv, BuilderShape
  <1>0. /\ b.docs \in Seq(Document) /\ Words(b.docs) \in Seq(Text)
        /\ Frequencies(b.docs) \in [Word -> Nat] /\ b.run \in Nat /\ b.quiet \in BOOLEAN
    BY WordsAreSeq, FrequenciesAreNumbers DEF BuilderTyped
  <1>1. UNCHANGED workspace
    BY DEF PublishPostings, PublishLexicon, TruncateDf, WriteDf, PublishMeta, PublishOvPostings,
       PublishOvLexicon, PublishTombs, PublishOvMeta
  <1>2. \/ \E pc : b' = [b EXCEPT !.pc = pc] /\ pc \notin {"idle", "stat"} /\ b.pc # "idle"
        \/ b' = [Idle EXCEPT !.run = b.run]
        \/ \E asked \in BOOLEAN : b' = [Idle EXCEPT !.run = b.run, !.asked = asked]
    <2>1. CASE PublishMeta
      BY <2>1 DEF PublishMeta
    <2>2. CASE PublishOvMeta
      BY <2>2 DEF PublishOvMeta, BuilderTyped
    <2> QED
      <3>1. CASE PublishPostings
        BY <3>1 DEF PublishPostings, Scanned
      <3>2. CASE PublishLexicon
        BY <3>2 DEF PublishLexicon
      <3>3. CASE TruncateDf
        BY <3>3 DEF TruncateDf
      <3>4. CASE WriteDf
        BY <3>4 DEF WriteDf
      <3>5. CASE PublishOvPostings
        BY <3>5 DEF PublishOvPostings, Scanned
      <3>6. CASE PublishOvLexicon
        BY <3>6 DEF PublishOvLexicon
      <3>7. CASE PublishTombs
        BY <3>7 DEF PublishTombs
      <3> QED
        BY <2>1, <2>2, <3>1, <3>2, <3>3, <3>4, <3>5, <3>6, <3>7
  <1>3. BuilderTyped' /\ b'.run = b.run
    <2>1. ASSUME NEW pc, b' = [b EXCEPT !.pc = pc], pc \notin {"idle", "stat"}, b.pc # "idle"
          PROVE  BuilderTyped' /\ b'.run = b.run
      BY <2>1 DEF BuilderTyped
    <2>2. ASSUME NEW asked \in BOOLEAN, b' = [Idle EXCEPT !.run = b.run, !.asked = asked]
          PROVE  BuilderTyped' /\ b'.run = b.run
      BY <2>2 DEF BuilderTyped, Idle
    <2>3. CASE b' = [Idle EXCEPT !.run = b.run]
      BY <2>3 DEF BuilderTyped, Idle
    <2> QED
      BY <1>2, <2>1, <2>2, <2>3
  <1>4. b.run \in 1 .. b.run
    <2>1. b.pc # "idle"
      BY DEF PublishPostings, PublishLexicon, TruncateDf, WriteDf, PublishMeta, PublishOvPostings,
         PublishOvLexicon, PublishTombs, PublishOvMeta, Scanned
    <2> QED
      BY <1>0, <2>1 DEF BuilderTyped
  <1>5. fresh' \in BOOLEAN
    BY <1>0 DEF PublishPostings, PublishLexicon, TruncateDf, WriteDf, PublishMeta,
       PublishOvPostings, PublishOvLexicon, PublishTombs, PublishOvMeta
  <1>6. BaseTyped'
    <2>1. CASE PublishPostings
      BY <1>0, <1>3, <2>1 DEF PublishPostings, BaseTyped
    <2>2. CASE PublishLexicon
      BY <1>3, <1>4, <2>2 DEF PublishLexicon, BaseTyped
    <2>3. CASE TruncateDf
      BY <1>3, <2>3 DEF TruncateDf, BaseTyped
    <2>4. CASE WriteDf
      BY <1>0, <1>3, <2>4 DEF WriteDf, BaseTyped
    <2>5. CASE PublishMeta
      <3> DEFINE docs == [i \in DOMAIN b.docs |-> Recorded(b.docs[i])]
      <3>1. docs \in Seq(Record)
        BY <1>0, RecordsAreSeq
      <3>2. meta'.docs = docs /\ meta'.run = b.run /\ UNCHANGED <<postings, lexicon, df>>
        BY <2>5 DEF PublishMeta, Recorded
      <3> HIDE DEF docs
      <3> QED
        BY <1>0, <1>3, <3>1, <3>2 DEF BaseTyped
    <2>6. CASE UNCHANGED base
      BY <1>3, <2>6 DEF base, BaseTyped
    <2> QED
      BY <2>1, <2>2, <2>3, <2>4, <2>5, <2>6 DEF PublishOvPostings, PublishOvLexicon,
         PublishTombs, PublishOvMeta
  <1>7. OverlayTyped'
    <2>1. CASE PublishOvPostings
      BY <1>0, <1>3, <2>1 DEF PublishOvPostings, OverlayTyped
    <2>2. CASE PublishOvLexicon
      BY <1>3, <1>4, <2>2 DEF PublishOvLexicon, OverlayTyped
    <2>3. CASE UNCHANGED <<ovPost, ovLex>>
      BY <1>3, <2>3 DEF OverlayTyped
    <2> QED
      BY <2>1, <2>2, <2>3 DEF PublishPostings, PublishLexicon, TruncateDf, WriteDf, PublishMeta,
         PublishTombs, PublishOvMeta, overlay
  <1> QED
    BY <1>1, <1>3, <1>5, <1>6, <1>7 DEF workspace, WorkspaceTyped

LEMMA NextTypeInv == TypeInv /\ [Next]_vars => TypeInv'
  <1> SUFFICES ASSUME TypeInv, [Next]_vars PROVE TypeInv'
    OBVIOUS
  <1>0. OverlayInv'
    BY NextOverlayInv DEF TypeInv
  <1>1. CASE UNCHANGED vars
    BY <1>0, <1>1 DEF vars, workspace, base, overlay, TypeInv, WorkspaceTyped, BaseTyped,
       OverlayTyped, BuilderTyped
  <1>2. CASE Build
    BY <1>0, <1>2, DecidingTypeInv, ClearTypeInv, ReadTypeInv, StatTypeInv, PublishTypeInv DEF Build
  <1>3. CASE Environment
    BY <1>0, <1>3, EnvironmentTypeInv
  <1> QED
    BY <1>1, <1>2, <1>3 DEF Next

(* For any project and environment: the state is well formed. *)
THEOREM IndexTypeCorrect == Spec => []TypeOK
  <1>1. TypeInv => TypeOK
    <2> SUFFICES ASSUME TypeInv PROVE TypeOK
      OBVIOUS
    <2>1. meta # None => \A i \in DOMAIN meta.docs : meta.docs[i].path \in File
      <3> SUFFICES ASSUME meta # None, NEW i \in DOMAIN meta.docs PROVE meta.docs[i].path \in File
        OBVIOUS
      <3>1. meta.docs[i] \in Record
        BY LenProperties, ElementOfSeq DEF TypeInv, BaseTyped
      <3> QED
        BY <3>1 DEF Record
    <2> QED
      BY <2>1 DEF TypeOK, TypeInv, WorkspaceTyped, BaseTyped, OverlayTyped, BuilderTyped, Text
  <1> QED
    BY <1>1, InitTypeInv, NextTypeInv, PTL DEF Spec

-----------------------------------------------------------------------------
(* The course of the builds, where no file changes between the builder's read and its stat. *)
Unraced == "race" \notin Env

(* Runs ascend: postings of a build that has not published its metadata yet are of *)
(* another run than the metadata.                                                  *)
RunsAscend == meta # None => meta.run <= b.run /\ (b.pc # "idle" => meta.run < b.run)

(* An mtime that a file still has tells that it is there, of the length that was     *)
(* recorded, and that it holds what was read, by the builder now or by the one that  *)
(* built the base.                                                                   *)
Stays(path, time) == time = mtime[path]
MetaFits ==
    meta # None => \A i \in DOMAIN meta.docs :
        LET d == meta.docs[i]
        IN  /\ d.mtime <= mtime[d.path]
            /\ Stays(d.path, d.mtime) => Present(d.path) /\ d.size = Size[disk[d.path]]
BaseFits ==
    meta # None /\ postings # None /\ postings.run = meta.run =>
        \A i \in DOMAIN meta.docs :
            LET d == meta.docs[i]
            IN  Stays(d.path, d.mtime) => disk[d.path] = postings.words[i]
DocFits(d) == d.mtime <= mtime[d.path] /\ (Stays(d.path, d.mtime) => disk[d.path] = d.word)
DocsFit ==
    /\ \A i \in DOMAIN b.docs : DocFits(b.docs[i]) \/ (b.pc = "stat" /\ i = Len(b.docs))
    /\ b.pc = "stat" => disk[b.docs[Len(b.docs)].path] = b.docs[Len(b.docs)].word

(* Each phase works on what the ones before have left. *)
Phases ==
    /\ b.pc \in {"decide", "clear"} => b.docs = <<>> /\ b.gone = {}
    /\ PublishesBase => b.mode = "full" /\ b.todo = {}
    /\ PublishesOverlay => b.mode = "overlay" /\ b.todo = {}
Published ==
    /\ PublishesBase => postings.run = b.run /\ postings.words = Words(b.docs)
    /\ PublishesOverlay => ovPost # None /\ ovPost.words = Words(b.docs)
    /\ b.pc \in {"ov_tombs", "ov_meta"} => ovLex # None

CourseInv ==
    /\ TypeInv
    /\ RunsAscend /\ MetaFits /\ BaseFits /\ DocsFit
    /\ Phases /\ Published

-----------------------------------------------------------------------------
(* What the well-formed state says of the documents. *)
LEMMA DocumentsAreTyped ==
    ASSUME TypeInv
    PROVE  /\ clock \in Nat /\ \A f \in File : mtime[f] \in 0 .. clock /\ mtime[f] \in Nat
           /\ meta # None => \A i \in DOMAIN meta.docs : meta.docs[i].path \in File /\ meta.docs[i].mtime \in Nat
           /\ \A i \in DOMAIN b.docs : /\ b.docs[i].path \in File /\ b.docs[i].mtime \in Nat
                                       /\ b.docs[i].word \in Text
           /\ DOMAIN b.docs = 1 .. Len(b.docs) /\ Len(b.docs) \in Nat
           /\ b.pc = "stat" => Len(b.docs) \in DOMAIN b.docs
  <1>1. clock \in Nat /\ \A f \in File : mtime[f] \in 0 .. clock /\ mtime[f] \in Nat
    BY SizeAssumption DEF TypeInv, WorkspaceTyped
  <1>2. ASSUME meta # None, NEW i \in DOMAIN meta.docs PROVE meta.docs[i] \in Record
    BY <1>2, LenProperties, ElementOfSeq DEF TypeInv, BaseTyped
  <1>3. ASSUME NEW i \in DOMAIN b.docs PROVE b.docs[i] \in Document
    BY LenProperties, ElementOfSeq DEF TypeInv, BuilderTyped
  <1>4. DOMAIN b.docs = 1 .. Len(b.docs) /\ Len(b.docs) \in Nat
    BY LenProperties DEF TypeInv, BuilderTyped
  <1>5. b.pc = "stat" => Len(b.docs) \in DOMAIN b.docs
    BY <1>4, EmptySeq DEF TypeInv, BuilderTyped
  <1> QED
    BY <1>1, <1>2, <1>3, <1>4, <1>5 DEF Record, Document

(* What an edit does to the builder, and to the mtimes known of the files. *)
LEMMA EnvironmentKeeps ==
    ASSUME Unraced, TypeInv, Environment
    PROVE  /\ b'.pc = b.pc /\ b'.run = b.run /\ b'.meta = b.meta /\ b'.head = b.head /\ b'.mode = b.mode
           /\ b'.todo = b.todo /\ b'.docs = b.docs /\ b'.gone = b.gone /\ b'.quiet = FALSE
           /\ b'.asked = b.asked /\ fresh' = FALSE /\ UNCHANGED <<base, overlay>>
           /\ b.pc # "stat" \/ UNCHANGED <<disk, mtime, clock>>
           /\ \A f \in File : \A time \in Nat :
                 /\ time <= mtime[f] => time <= mtime'[f]
                 /\ time < mtime[f] => time < mtime'[f]
                 /\ time <= mtime[f] /\ time = mtime'[f] => time = mtime[f] /\ disk'[f] = disk[f]
  <1>1. /\ b' = [b EXCEPT !.quiet = FALSE] /\ fresh' = FALSE /\ UNCHANGED <<base, overlay>>
        /\ \/ UNCHANGED <<disk, mtime, clock>>
           \/ /\ clock' = clock + 1 /\ b.pc # "stat"
              /\ \A f \in File : mtime'[f] = clock' \/ (mtime'[f] = mtime[f] /\ disk'[f] = disk[f])
    BY EnvironmentActs DEF Unraced, TypeInv
  <1>2. /\ b'.pc = b.pc /\ b'.run = b.run /\ b'.meta = b.meta /\ b'.head = b.head /\ b'.mode = b.mode
        /\ b'.todo = b.todo /\ b'.docs = b.docs /\ b'.gone = b.gone /\ b'.quiet = FALSE
        /\ b'.asked = b.asked
    BY <1>1 DEF TypeInv, OverlayInv, BuilderShape
  <1>3. \A f \in File : \A time \in Nat :
           /\ time <= mtime[f] => time <= mtime'[f]
           /\ time < mtime[f] => time < mtime'[f]
           /\ time <= mtime[f] /\ time = mtime'[f] => time = mtime[f] /\ disk'[f] = disk[f]
    BY <1>1, DocumentsAreTyped
  <1> QED
    BY <1>1, <1>2, <1>3

(* The next file is read and becomes a document, or it is none. *)
LEMMA ReadComesTo ==
    ASSUME TypeInv, ReadFile
    PROVE  /\ UNCHANGED <<workspace, base, overlay, fresh>> /\ b.pc = "read"
           /\ b'.run = b.run /\ b'.head = b.head /\ b'.mode = b.mode /\ b'.meta = b.meta /\ b'.quiet = b.quiet
           /\ b'.asked = b.asked
           /\ \E f \in b.todo :
                 /\ f \in File /\ b'.todo = b.todo \ {f}
                 /\ \/ /\ b'.pc = "stat" /\ b'.gone = b.gone
                       /\ Len(b'.docs) \in DOMAIN b'.docs /\ Len(b'.docs) \notin DOMAIN b.docs
                       /\ b'.docs[Len(b'.docs)].path = f /\ b'.docs[Len(b'.docs)].word = disk[f]
                       /\ \A i \in DOMAIN b.docs : i \in DOMAIN b'.docs /\ b'.docs[i] = b.docs[i]
                       /\ \A i \in DOMAIN b'.docs : i \in DOMAIN b.docs \/ i = Len(b'.docs)
                    \/ /\ b'.pc = "read" /\ b'.docs = b.docs /\ b'.gone \subseteq b.gone \cup {f}
                       /\ disk[f] \notin Text
  <1>1. UNCHANGED <<workspace, base, overlay, fresh>>
    BY DEF ReadFile
  <1>2. PICK f \in b.todo : /\ b.pc = "read"
                            /\ IF Present(f) /\ disk[f] \notin Binary THEN AddDocument(f) ELSE Skip(f)
    BY DEF ReadFile, ReadsNext
  <1>3. f \in File /\ b.docs \in Seq(Document) /\ DOMAIN b.docs = 1 .. Len(b.docs) /\ Len(b.docs) \in Nat
    BY <1>2, DocumentsAreTyped DEF TypeInv, BuilderTyped
  <1>4. /\ b'.run = b.run /\ b'.head = b.head /\ b'.mode = b.mode /\ b'.meta = b.meta
        /\ b'.todo = b.todo \ {f} /\ b'.quiet = b.quiet /\ b'.asked = b.asked
    BY <1>2 DEF TypeInv, OverlayInv, BuilderShape, AddDocument, Skip
  <1>5. CASE Present(f) /\ disk[f] \notin Binary /\ AddDocument(f)
    <2> DEFINE d == [path |-> f, word |-> disk[f], mtime |-> 0]
    <2>1. b'.pc = "stat" /\ b'.docs = Append(b.docs, d) /\ b'.gone = b.gone
      BY <1>5 DEF TypeInv, OverlayInv, BuilderShape, AddDocument
    <2>2. d.path = f /\ d.word = disk[f]
      OBVIOUS
    <2>3. d \in Document
      BY <1>3, <1>5 DEF TypeInv, WorkspaceTyped, Content, Present, Document, Text
    <2> HIDE DEF d
    <2>4. /\ Len(b'.docs) = Len(b.docs) + 1 /\ b'.docs[Len(b.docs) + 1] = d
          /\ DOMAIN b'.docs = 1 .. Len(b.docs) + 1
          /\ \A i \in DOMAIN b.docs : b'.docs[i] = b.docs[i]
      BY <1>3, <2>1, <2>3, AppendProperties, LenProperties
    <2> QED
      BY <1>1, <1>2, <1>3, <1>4, <2>1, <2>2, <2>4
  <1>6. CASE (~Present(f) \/ disk[f] \in Binary) /\ Skip(f)
    <2>1. b'.pc = "read" /\ b'.docs = b.docs /\ b'.gone \subseteq b.gone \cup {f}
      BY <1>2, <1>6 DEF TypeInv, OverlayInv, BuilderShape, Skip
    <2>2. disk[f] \notin Text
      BY <1>6, NameAssumption DEF Text, Present
    <2> QED
      BY <1>1, <1>2, <1>3, <1>4, <2>1, <2>2
  <1> QED
    BY <1>2, <1>5, <1>6

(* The last document gets the file's mtime; the file is still there, unraced. *)
LEMMA StatComesTo ==
    ASSUME TypeInv, DocsFit, StatFile
    PROVE  /\ UNCHANGED <<workspace, base, overlay, fresh>> /\ b.pc = "stat"
           /\ b'.pc = "read" /\ b'.run = b.run /\ b'.head = b.head /\ b'.mode = b.mode /\ b'.meta = b.meta
           /\ b'.todo = b.todo /\ b'.quiet = b.quiet /\ b'.gone = b.gone /\ b'.asked = b.asked
           /\ DOMAIN b'.docs = DOMAIN b.docs
           /\ \A i \in DOMAIN b.docs : /\ b'.docs[i].path = b.docs[i].path
                                       /\ b'.docs[i].word = b.docs[i].word
                                       /\ i # Len(b.docs) => b'.docs[i] = b.docs[i]
           /\ LET d == b'.docs[Len(b.docs)]
              IN  d.path \in File /\ d.word = disk[d.path] /\ d.mtime = mtime[d.path]
  <1> DEFINE last == Len(b.docs)
             f == b.docs[last].path
  <1>1. UNCHANGED <<workspace, base, overlay, fresh>> /\ b.pc = "stat"
    BY DEF StatFile
  <1>2. /\ last \in DOMAIN b.docs /\ f \in File /\ b.docs[last].word \in Text
        /\ b.docs[last].word = disk[f] /\ mtime[f] \in Nat
    BY <1>1, DocumentsAreTyped DEF DocsFit
  <1>3. b.docs[last] = [path |-> f, word |-> disk[f], mtime |-> b.docs[last].mtime]
    <2>1. b.docs \in Seq(Document) /\ last \in 1 .. Len(b.docs)
      BY <1>2, LenProperties DEF TypeInv, BuilderTyped
    <2>2. b.docs[last] \in Document
      BY <2>1, ElementOfSeq
    <2> QED
      BY <1>2, <2>2 DEF Document
  <1>4. Present(f)
    BY <1>2, NameAssumption DEF Text, Present
  <1>5. b' = [b EXCEPT !.pc = "read", !.docs = [b.docs EXCEPT ![last].mtime = mtime[f]]]
    BY <1>4 DEF StatFile
  <1>6. /\ b'.pc = "read" /\ b'.run = b.run /\ b'.head = b.head /\ b'.mode = b.mode
        /\ b'.meta = b.meta /\ b'.todo = b.todo /\ b'.quiet = b.quiet /\ b'.gone = b.gone
        /\ b'.asked = b.asked
        /\ b'.docs = [b.docs EXCEPT ![last].mtime = mtime[f]]
    BY <1>5 DEF TypeInv, OverlayInv, BuilderShape
  <1>7. /\ DOMAIN b'.docs = DOMAIN b.docs
        /\ \A i \in DOMAIN b.docs : i # last => b'.docs[i] = b.docs[i]
        /\ b'.docs[last].path = f /\ b'.docs[last].word = disk[f] /\ b'.docs[last].mtime = mtime[f]
    BY <1>2, <1>3, <1>6
  <1>8. \A i \in DOMAIN b.docs : b'.docs[i].path = b.docs[i].path /\ b'.docs[i].word = b.docs[i].word
    BY <1>2, <1>7
  <1> HIDE DEF f
  <1> QED
    BY <1>1, <1>2, <1>6, <1>7, <1>8

(* The steps between the scan and the metadata change nothing the builder holds. *)
LEMMA PublishKeeps ==
    ASSUME TypeInv,
           \/ PublishPostings \/ PublishLexicon \/ TruncateDf \/ WriteDf
           \/ PublishOvPostings \/ PublishOvLexicon \/ PublishTombs
    PROVE  /\ UNCHANGED <<workspace, meta, ovMeta, fresh>>
           /\ b'.run = b.run /\ b'.head = b.head /\ b'.mode = b.mode /\ b'.meta = b.meta /\ b'.todo = b.todo
           /\ b'.quiet = b.quiet /\ b'.gone = b.gone /\ b'.docs = b.docs /\ b'.asked = b.asked
           /\ \/ (Scanned("full") \/ PublishesBase) /\ PublishesBase' /\ UNCHANGED overlay
              \/ (Scanned("overlay") \/ PublishesOverlay) /\ PublishesOverlay' /\ UNCHANGED base
  BY DEF PublishPostings, PublishLexicon, TruncateDf, WriteDf, PublishOvPostings, PublishOvLexicon,
     PublishTombs, Scanned, PublishesBase, PublishesOverlay, TypeInv, OverlayInv, BuilderShape, base, overlay

(* The metadata of a base: what was read, as it was read. *)
LEMMA PublishMetaComesTo ==
    ASSUME TypeInv, PublishMeta
    PROVE  /\ b.pc = "meta" /\ UNCHANGED <<workspace, postings, lexicon, df, overlay>> /\ fresh' = b.quiet
           /\ b'.pc = "idle" /\ b'.run = b.run /\ b'.head = None /\ b'.docs = <<>>
           /\ meta'.run = b.run /\ meta'.commit = b.head /\ DOMAIN meta'.docs = DOMAIN b.docs
           /\ \A i \in DOMAIN b.docs : /\ meta'.docs[i].path = b.docs[i].path
                                       /\ meta'.docs[i].mtime = b.docs[i].mtime
                                       /\ meta'.docs[i].size = Size[b.docs[i].word]
           /\ tombs = None /\ ~OverlayOpens'
  <1> DEFINE docs == [i \in DOMAIN b.docs |-> Recorded(b.docs[i])]
  <1>1. /\ b.pc = "meta" /\ UNCHANGED <<workspace, postings, lexicon, df, overlay>> /\ fresh' = b.quiet
        /\ meta' = [run |-> b.run, commit |-> b.head, idf |-> b.weights # None, docs |-> docs]
        /\ b' = [Idle EXCEPT !.run = b.run]
    BY DEF PublishMeta, Recorded
  <1>2. DOMAIN docs = DOMAIN b.docs
    OBVIOUS
  <1>3. \A i \in DOMAIN b.docs : /\ docs[i].path = b.docs[i].path /\ docs[i].mtime = b.docs[i].mtime
                                 /\ docs[i].size = Size[b.docs[i].word]
    BY DEF Recorded
  <1> HIDE DEF docs
  <1>4. tombs = None /\ ~OverlayOpens'
    BY <1>1 DEF OverlayOpens, TypeInv, OverlayInv, OverlayGone, PublishesBase, overlay
  <1> QED
    BY <1>1, <1>2, <1>3, <1>4 DEF Idle

(* An overlay opens once its metadata is there. *)
LEMMA PublishOvMetaComesTo ==
    ASSUME TypeInv, Published, PublishOvMeta
    PROVE  /\ b.pc = "ov_meta" /\ UNCHANGED <<workspace, base, ovPost, ovLex, tombs>> /\ fresh' = b.quiet
           /\ b'.pc = "idle" /\ b'.run = b.run /\ b'.head = None /\ b'.docs = <<>>
           /\ b'.asked = b.asked
           /\ b.meta # None /\ b.meta = meta
           /\ OverlayOpens' /\ ovMeta'.run = b.run /\ DOMAIN ovMeta'.paths = DOMAIN b.docs
           /\ \A i \in DOMAIN b.docs : ovMeta'.paths[i] = b.docs[i].path /\ ovPost'.words[i] = b.docs[i].word
  <1> DEFINE paths == [i \in DOMAIN b.docs |-> b.docs[i].path]
  <1>1. /\ b.pc = "ov_meta" /\ UNCHANGED <<workspace, base, ovPost, ovLex, tombs>> /\ fresh' = b.quiet
        /\ ovMeta' = [run |-> b.run, baseRun |-> b.meta.run, base |-> Len(b.meta.docs), paths |-> paths]
        /\ b' = [Idle EXCEPT !.run = b.run, !.asked = b.asked]
    BY DEF PublishOvMeta
  <1>2. b.meta # None /\ b.meta = meta
    BY <1>1 DEF TypeInv, OverlayInv, OverlayHasBase, MetadataHeld, PublishesOverlay
  <1>3. paths \in Seq(File) /\ DOMAIN paths = DOMAIN b.docs /\ \A i \in DOMAIN b.docs : paths[i] = b.docs[i].path
    BY PathsAreSeq DEF TypeInv, BuilderTyped
  <1> HIDE DEF paths
  <1>4. OverlayOpens'
    <2>1. b.run \in Nat /\ meta.run \in Nat /\ Len(meta.docs) \in Nat
      BY <1>2, LenProperties DEF TypeInv, BuilderTyped, BaseTyped
    <2>2. ovMeta' \in OvMetadata
      BY <1>1, <1>2, <1>3, <2>1 DEF OvMetadata
    <2>3. ovMeta' # None
      BY <2>2, NoneAssumption
    <2> QED
      BY <1>1, <2>3 DEF OverlayOpens, Published, PublishesOverlay
  <1>5. \A i \in DOMAIN b.docs : ovPost'.words[i] = b.docs[i].word
    BY <1>1, WordsAreSeq DEF Published, PublishesOverlay, TypeInv, BuilderTyped
  <1> QED
    BY <1>1, <1>2, <1>3, <1>4, <1>5 DEF Idle

(* The steps that publish nothing and read no file: a build starts, decides, or ends. *)
Starts ==
    /\ b.pc = "idle" /\ b'.pc = "decide" /\ b'.run = b.run + 1 /\ b'.head \in {head, None}
    /\ b'.docs = <<>> /\ b'.gone = {}
Rebuilds ==
    /\ b.pc = "decide" /\ b'.pc = "clear" /\ b'.run = b.run /\ b'.head = b.head
    /\ b'.docs = b.docs /\ b'.gone = b.gone /\ b'.quiet = b.quiet
Overlays ==
    /\ b.pc = "decide" /\ b'.pc = "read" /\ b'.run = b.run /\ b'.head = b.head /\ b'.meta = b.meta
    /\ b'.docs = b.docs /\ b'.gone = b.gone /\ b'.quiet = b.quiet
    /\ b'.mode = "overlay" /\ b.meta # None
    /\ \E changed \in Answers : b'.todo = changed \cap File /\ (b'.asked => changed = Changed)
Ends ==
    /\ b'.pc = "idle" /\ b'.run = b.run /\ b'.head = None /\ b'.docs = <<>>
    /\ fresh' => /\ b.pc = "decide" /\ b.meta # None /\ b.quiet
                 /\ \E changed \in Answers : changed = {} /\ (b'.asked => changed = Changed)

LEMMA DecidingComesTo ==
    ASSUME TypeInv, Start \/ DecideWithoutLooking \/ Decide \/ Crash
    PROVE  UNCHANGED <<workspace, base, overlay>> /\ (Starts \/ Rebuilds \/ Overlays \/ Ends)
  <1> USE DEF TypeInv, OverlayInv, BuilderShape
  <1>1. UNCHANGED <<workspace, base, overlay>>
    BY DEF Start, DecideWithoutLooking, Decide, Crash
  <1>2. CASE Start
    BY <1>2 DEF Start, Starts, Idle
  <1>3. CASE DecideWithoutLooking
    BY <1>3 DEF DecideWithoutLooking, RebuildAll, Rebuilds
  <1>4. CASE Decide
    <2>1. b.pc = "decide" /\ b.meta # None
      BY <1>4, DecideComesTo
    <2>2. ASSUME NEW changed \in Answers, UpToDate(changed) PROVE Ends
      <3>1. b'.pc = "idle" /\ b'.run = b.run /\ b'.head = None /\ b'.docs = <<>>
        BY <2>2 DEF UpToDate, Idle
      <3>2. changed = {} /\ (b'.asked => changed = Changed) /\ fresh' = b.quiet
        BY <2>2 DEF UpToDate, Idle
      <3> QED
        BY <2>1, <3>1, <3>2 DEF Ends
    <2>3. CASE b' = [b EXCEPT !.pc = "clear"]
      BY <1>4, <2>3, DecideComesTo DEF Rebuilds
    <2>4. ASSUME NEW changed \in Answers, NEW w, ToOverlay(changed, w) PROVE Overlays
      <3>1. /\ b'.pc = "read" /\ b'.run = b.run /\ b'.head = b.head /\ b'.meta = b.meta
            /\ b'.docs = b.docs /\ b'.gone = b.gone /\ b'.quiet = b.quiet /\ b'.mode = "overlay"
        BY <2>4 DEF ToOverlay
      <3>2. b'.todo = changed \cap File /\ (b'.asked => changed = Changed)
        BY <2>4 DEF ToOverlay
      <3> QED
        BY <2>1, <3>1, <3>2 DEF Overlays
    <2> QED
      BY <1>1, <1>4, <2>2, <2>3, <2>4, DecideComesTo
  <1>5. CASE Crash
    BY <1>5 DEF Crash, Ends, Idle
  <1> QED
    BY <1>1, <1>2, <1>3, <1>4, <1>5

(* An overlay removed in part, then the files listed. *)
LEMMA ClearComesTo ==
    ASSUME TypeInv, ClearOverlay
    PROVE  /\ UNCHANGED <<workspace, base, fresh>> /\ b.pc = "clear"
           /\ tombs' = tombs \/ tombs' = None
           /\ ovMeta' = ovMeta \/ ovMeta' = None
           /\ b'.run = b.run /\ b'.head = b.head /\ b'.docs = b.docs /\ b'.gone = b.gone
           /\ b'.quiet = b.quiet /\ b'.asked = b.asked
           /\ b'.pc = "clear" \/ (b'.pc = "read" /\ b'.mode = "full" /\ b'.todo = Walk)
  BY DEF ClearOverlay, TypeInv, OverlayInv, BuilderShape

-----------------------------------------------------------------------------
LEMMA InitCourseInv == Init => CourseInv
  BY InitTypeInv DEF Init, Idle, CourseInv, RunsAscend, MetaFits, BaseFits, DocsFit, Phases, Published,
     PublishesBase, PublishesOverlay

LEMMA EnvironmentCourseInv ==
    ASSUME Unraced, CourseInv, TypeInv', Environment PROVE CourseInv'
  <1> USE DEF CourseInv
  <1>1. RunsAscend' /\ Phases' /\ Published'
    BY EnvironmentKeeps DEF RunsAscend, Phases, Published, PublishesBase, PublishesOverlay, base,
       overlay, Words
  <1>2. MetaFits' /\ BaseFits'
    BY EnvironmentKeeps, DocumentsAreTyped DEF MetaFits, BaseFits, base, Stays, Present
  <1>3. DocsFit'
    <2>1. CASE UNCHANGED <<disk, mtime, clock>>
      BY EnvironmentKeeps, <2>1 DEF DocsFit, DocFits, Stays
    <2>2. CASE b.pc # "stat"
      <3> SUFFICES ASSUME NEW i \in DOMAIN b.docs PROVE DocFits(b.docs[i])'
        BY <2>2, EnvironmentKeeps DEF DocsFit, DocFits, Stays
      <3>1. DocFits(b.docs[i]) /\ b.docs[i].path \in File /\ b.docs[i].mtime \in Nat
        BY <2>2, DocumentsAreTyped DEF DocsFit
      <3> QED
        BY <3>1, EnvironmentKeeps DEF DocFits, Stays
    <2> QED
      BY <2>1, <2>2, EnvironmentKeeps
  <1> QED
    BY <1>1, <1>2, <1>3

LEMMA DecidingCourseInv ==
    ASSUME CourseInv, TypeInv', Start \/ DecideWithoutLooking \/ Decide \/ Crash PROVE CourseInv'
  <1> USE DEF CourseInv, Phases, Published, PublishesBase, PublishesOverlay
  <1>1. UNCHANGED <<workspace, base, overlay>> /\ (Starts \/ Rebuilds \/ Overlays \/ Ends)
    BY DecidingComesTo
  <1>2. MetaFits' /\ BaseFits'
    BY <1>1 DEF MetaFits, BaseFits, workspace, base, Stays, Present
  <1>3. b.run \in Nat /\ (meta # None => meta.run \in Nat)
    BY DEF TypeInv, BuilderTyped, BaseTyped
  <1>4. DocsFit' /\ Phases' /\ Published'
    BY <1>1 DEF DocsFit, Starts, Rebuilds, Overlays, Ends
  <1>5. RunsAscend'
    BY <1>1, <1>3 DEF RunsAscend, base, Starts, Rebuilds, Overlays, Ends
  <1> QED
    BY <1>2, <1>4, <1>5

LEMMA ClearCourseInv ==
    ASSUME CourseInv, TypeInv', ClearOverlay PROVE CourseInv'
  <1> USE DEF CourseInv, Phases, Published, PublishesBase, PublishesOverlay
  <1>1. MetaFits' /\ BaseFits'
    BY ClearComesTo DEF MetaFits, BaseFits, workspace, base, Stays, Present
  <1>2. RunsAscend' /\ DocsFit' /\ Phases' /\ Published'
    BY ClearComesTo DEF RunsAscend, DocsFit, base
  <1> QED
    BY <1>1, <1>2

LEMMA ReadCourseInv ==
    ASSUME CourseInv, TypeInv', ReadFile PROVE CourseInv'
  <1> USE DEF CourseInv, Phases, Published, PublishesBase, PublishesOverlay
  <1>1. MetaFits' /\ BaseFits'
    BY ReadComesTo DEF MetaFits, BaseFits, workspace, base, Stays, Present
  <1>2. RunsAscend' /\ Phases' /\ Published'
    BY ReadComesTo DEF RunsAscend, base
  <1>3. DocsFit'
    <2>1. /\ disk' = disk /\ mtime' = mtime /\ b.pc = "read"
          /\ \A i \in DOMAIN b.docs : DocFits(b.docs[i])
      BY ReadComesTo DEF workspace, DocsFit
    <2>2. \/ b'.pc = "read" /\ b'.docs = b.docs
          \/ /\ b'.pc = "stat" /\ b'.docs[Len(b'.docs)].word = disk[b'.docs[Len(b'.docs)].path]
             /\ \A i \in DOMAIN b.docs : i \in DOMAIN b'.docs /\ b'.docs[i] = b.docs[i]
             /\ \A i \in DOMAIN b'.docs : i \in DOMAIN b.docs \/ i = Len(b'.docs)
      BY ReadComesTo
    <2> QED
      BY <2>1, <2>2 DEF DocsFit, DocFits, Stays
  <1> QED
    BY <1>1, <1>2, <1>3

LEMMA StatCourseInv ==
    ASSUME CourseInv, TypeInv', StatFile PROVE CourseInv'
  <1> USE DEF CourseInv, Phases, Published, PublishesBase, PublishesOverlay
  <1>1. MetaFits' /\ BaseFits'
    BY StatComesTo DEF MetaFits, BaseFits, workspace, base, Stays, Present
  <1>2. RunsAscend' /\ Phases' /\ Published'
    BY StatComesTo DEF RunsAscend, base
  <1>3. DocsFit'
    <2> SUFFICES ASSUME NEW i \in DOMAIN b.docs PROVE DocFits(b'.docs[i])
      BY StatComesTo DEF DocsFit, DocFits, Stays, workspace
    <2>1. CASE i = Len(b.docs)
      BY <2>1, StatComesTo, DocumentsAreTyped DEF DocFits
    <2>2. CASE i # Len(b.docs)
      BY <2>2, StatComesTo DEF DocsFit
    <2> QED
      BY <2>1, <2>2
  <1> QED
    BY <1>1, <1>2, <1>3

LEMMA PublishCourseInv ==
    ASSUME CourseInv, TypeInv',
           \/ PublishPostings \/ PublishLexicon \/ TruncateDf \/ WriteDf
           \/ PublishOvPostings \/ PublishOvLexicon \/ PublishTombs
    PROVE  CourseInv'
  <1> USE DEF CourseInv, Phases, PublishesBase, PublishesOverlay
  <1>1. MetaFits'
    BY PublishKeeps DEF MetaFits, workspace, Stays, Present
  <1>2. RunsAscend' /\ Phases'
    BY PublishKeeps DEF RunsAscend, Scanned
  <1>3. DocsFit'
    BY PublishKeeps DEF DocsFit, DocFits, Stays, workspace, Scanned
  <1>4. \/ PublishesBase /\ postings' = postings
        \/ UNCHANGED base /\ PublishesOverlay'
        \/ postings'.run = b.run /\ postings'.words = Words(b.docs)
    BY DEF PublishPostings, PublishLexicon, TruncateDf, WriteDf, PublishOvPostings, PublishOvLexicon,
       PublishTombs, base, TypeInv, OverlayInv, BuilderShape
  <1>5. BaseFits'
    <2>1. CASE UNCHANGED base
      BY <2>1, PublishKeeps DEF BaseFits, workspace, base, Stays
    <2>2. CASE ~UNCHANGED base
      <3>1. meta # None => meta.run < b.run /\ meta.run \in Nat /\ b.run \in Nat
        BY <2>2, PublishKeeps DEF RunsAscend, TypeInv, BuilderTyped, BaseTyped, Scanned
      <3>2. meta' # None => postings'.run # meta'.run
        BY <1>4, <2>2, <3>1, PublishKeeps DEF Published
      <3> QED
        BY <3>2 DEF BaseFits
    <2> QED
      BY <2>1, <2>2
  <1>6. CASE PublishesBase'
    <2>1. PublishesBase \/ Scanned("full")
      BY <1>6, PublishKeeps
    <2>2. postings'.run = b.run /\ postings'.words = Words(b.docs)
      BY <1>4, <1>6 DEF Published
    <2> QED
      BY <1>1, <1>2, <1>3, <1>5, <1>6, <2>2, PublishKeeps DEF Published, Words
  <1>7. CASE PublishesOverlay'
    <2>1. b.run \in Nat /\ (b.pc = "read" => Len(b.meta.docs) \in Nat) /\ Words(b.docs) \in Seq(Word)
      <3>1. Words(b.docs) \in Seq(Text)
        BY WordsAreSeq DEF TypeInv, BuilderTyped
      <3>2. Scanned("overlay") => b.meta # None /\ b.meta = meta
        BY DEF TypeInv, OverlayInv, OverlayHasBase, MetadataHeld, Scanned, Scans
      <3>3. Scanned("overlay") => Len(b.meta.docs) \in Nat
        BY <3>2, LenProperties DEF TypeInv, BaseTyped
      <3> QED
        BY <1>7, <3>1, <3>3, PublishKeeps DEF TypeInv, BuilderTyped, Text
    <2>2. ovPost' # None /\ ovPost'.words = Words(b.docs)
      <3>1. CASE PublishOvPostings
        <4>1. ovPost' = [run |-> b.run, words |-> Words(b.docs), weights |-> b.weights,
                         base |-> Len(b.meta.docs)]
          BY <3>1 DEF PublishOvPostings
        <4>2. ovPost' \in OvPostings
          BY <2>1, <3>1, <4>1 DEF OvPostings, TypeInv, BuilderTyped, PublishOvPostings, Scanned
        <4> QED
          BY <4>1, <4>2, NoneAssumption
      <3>2. CASE PublishOvLexicon \/ PublishTombs
        BY <3>2 DEF Published, PublishOvLexicon, PublishTombs
      <3> QED
        BY <1>7, <3>1, <3>2, PublishKeeps DEF PublishPostings, PublishLexicon, TruncateDf, WriteDf,
           TypeInv, OverlayInv, BuilderShape
    <2>3. b'.pc \in {"ov_tombs", "ov_meta"} => ovLex' # None
      BY <1>7, <2>1, NoneAssumption DEF Published, PublishPostings, PublishLexicon, TruncateDf, WriteDf,
         PublishOvPostings, PublishOvLexicon, PublishTombs, TypeInv, OverlayInv, BuilderShape
    <2> QED
      BY <1>1, <1>2, <1>3, <1>5, <1>7, <2>2, <2>3, PublishKeeps DEF Published, Words
  <1> QED
    BY <1>6, <1>7, PublishKeeps

LEMMA PublishMetaCourseInv ==
    ASSUME CourseInv, TypeInv', PublishMeta PROVE CourseInv'
  <1> USE DEF CourseInv, Phases, PublishesBase, PublishesOverlay
  <1>1. postings' = postings /\ postings.words = Words(b.docs) /\ disk' = disk /\ mtime' = mtime
    BY PublishMetaComesTo DEF Published, workspace
  <1>2. \A i \in DOMAIN b.docs : /\ DocFits(b.docs[i]) /\ postings.words[i] = b.docs[i].word
                                 /\ b.docs[i].word \in Text
    BY <1>1, PublishMetaComesTo, DocumentsAreTyped, WordsAreSeq DEF DocsFit, TypeInv, BuilderTyped
  <1>3. MetaFits'
    <2>1. Absent \notin Text
      BY NameAssumption DEF Text
    <2> QED
      BY <1>1, <1>2, <2>1, PublishMetaComesTo DEF MetaFits, DocFits, Stays, Present
  <1>4. BaseFits'
    BY <1>1, <1>2, PublishMetaComesTo DEF BaseFits, DocFits, Stays
  <1>5. RunsAscend' /\ Phases' /\ DocsFit' /\ Published'
    BY PublishMetaComesTo DEF RunsAscend, DocsFit, Published, TypeInv, BuilderTyped
  <1> QED
    BY <1>3, <1>4, <1>5

LEMMA PublishOvMetaCourseInv ==
    ASSUME CourseInv, TypeInv', PublishOvMeta PROVE CourseInv'
  <1> USE DEF CourseInv, Phases, PublishesBase, PublishesOverlay
  <1>1. MetaFits' /\ BaseFits'
    BY PublishOvMetaComesTo DEF MetaFits, BaseFits, workspace, base, Stays, Present
  <1>2. RunsAscend' /\ Phases' /\ DocsFit' /\ Published'
    BY PublishOvMetaComesTo DEF RunsAscend, DocsFit, Published, TypeInv, BuilderTyped, BaseTyped, base
  <1> QED
    BY <1>1, <1>2

LEMMA NextCourseInv ==
    ASSUME Unraced, CourseInv, [Next]_vars PROVE CourseInv'
  <1>0. TypeInv'
    BY NextTypeInv DEF CourseInv
  <1>1. CASE UNCHANGED vars
    BY <1>0, <1>1 DEF vars, workspace, base, overlay, CourseInv, RunsAscend, MetaFits, BaseFits,
       DocsFit, Phases, Published, PublishesBase, PublishesOverlay, Stays, Present, DocFits
  <1>2. CASE Build
    BY <1>0, <1>2, DecidingCourseInv, ClearCourseInv, ReadCourseInv, StatCourseInv, PublishCourseInv,
       PublishMetaCourseInv, PublishOvMetaCourseInv DEF Build
  <1>3. CASE Environment
    BY <1>0, <1>3, EnvironmentCourseInv
  <1> QED
    BY <1>1, <1>2, <1>3 DEF Next

-----------------------------------------------------------------------------
(* What the overlay has to replace, and what a build has got hold of. *)
Stale(m, f) == \A i \in DOMAIN m.docs : m.docs[i].path = f => m.docs[i].mtime < mtime[f]
InBase(m, f) == \E i \in DOMAIN m.docs : m.docs[i].path = f /\ Stays(f, m.docs[i].mtime)
Concerns(f) == f \in b.todo \/ f \in b.gone \/ \E i \in DOMAIN b.docs : b.docs[i].path = f
Taken(f) == f \in b.todo \/ \E i \in DOMAIN b.docs : b.docs[i].path = f /\ b.docs[i].word = disk[f]
Building == b.pc \in {"read", "stat"} \/ PublishesBase \/ PublishesOverlay

(* Scanning loses no text file and takes up none that was not to be read. *)
LEMMA ScanKeeps ==
    ASSUME CourseInv, ReadFile \/ StatFile
    PROVE  /\ UNCHANGED <<workspace, base, overlay, fresh>>
           /\ b.pc \in {"read", "stat"} /\ b'.pc \in {"read", "stat"}
           /\ b'.head = b.head /\ b'.mode = b.mode /\ b'.meta = b.meta /\ b'.quiet = b.quiet
           /\ b'.run = b.run /\ b'.asked = b.asked
           /\ \A g : Concerns(g)' => Concerns(g)
           /\ \A g \in File : disk[g] \in Text /\ Taken(g) => Taken(g)'
  <1>1. CASE ReadFile
    <2>1. PICK f \in b.todo :
             /\ f \in File /\ b'.todo = b.todo \ {f}
             /\ \/ /\ b'.pc = "stat" /\ b'.gone = b.gone
                   /\ Len(b'.docs) \in DOMAIN b'.docs
                   /\ b'.docs[Len(b'.docs)].path = f /\ b'.docs[Len(b'.docs)].word = disk[f]
                   /\ \A i \in DOMAIN b.docs : i \in DOMAIN b'.docs /\ b'.docs[i] = b.docs[i]
                   /\ \A i \in DOMAIN b'.docs : i \in DOMAIN b.docs \/ i = Len(b'.docs)
                \/ /\ b'.pc = "read" /\ b'.docs = b.docs /\ b'.gone \subseteq b.gone \cup {f}
                   /\ disk[f] \notin Text
      BY <1>1, ReadComesTo DEF CourseInv
    <2>2. UNCHANGED <<workspace, base, overlay, fresh>> /\ disk' = disk
      BY <1>1, ReadComesTo DEF CourseInv, workspace
    <2>3. \A g : Concerns(g)' => Concerns(g)
      BY <2>1 DEF Concerns
    <2>4. ASSUME NEW g \in File, disk[g] \in Text, Taken(g) PROVE Taken(g)'
      BY <2>1, <2>2, <2>4 DEF Taken
    <2> QED
      BY <1>1, <2>1, <2>2, <2>3, <2>4, ReadComesTo DEF CourseInv
  <1>2. CASE StatFile
    <2>1. disk' = disk
      BY <1>2, StatComesTo DEF CourseInv, workspace
    <2>2. \A g : Concerns(g)' => Concerns(g)
      BY <1>2, StatComesTo DEF Concerns, CourseInv
    <2>3. \A g : Taken(g) => Taken(g)'
      BY <1>2, <2>1, StatComesTo DEF Taken, CourseInv
    <2> QED
      BY <1>2, <2>2, <2>3, StatComesTo DEF CourseInv
  <1> QED
    BY <1>1, <1>2

(* A search finds what the base has under an untombstoned document, or the overlay. *)
LEMMA FoundInBase ==
    ASSUME CourseInv, BaseAligned, NEW f \in File, NEW i \in DOMAIN meta.docs, meta.docs[i].path = f,
           \/ meta.docs[i].mtime = mtime[f]
           \/ postings.words[i] = disk[f],
           OverlayOpens /\ tombs # None => i \notin tombs.ids
    PROVE  Indexed(f, disk[f])
  <1>1. postings.words[i] = disk[f]
    BY DEF CourseInv, BaseFits, BaseAligned, Stays
  <1> QED
    BY <1>1 DEF Indexed

(* What a rebuild has read is found once its metadata is there. *)
LEMMA FoundAfterRebuild ==
    ASSUME CourseInv, PublishMeta, NEW f \in File, Taken(f) PROVE Indexed(f, disk[f])'
  <1>1. /\ disk' = disk /\ postings' = postings /\ postings.words = Words(b.docs) /\ b.todo = {}
        /\ b.docs \in Seq(Document)
    BY PublishMetaComesTo DEF CourseInv, Published, Phases, PublishesBase, workspace, TypeInv, BuilderTyped
  <1>2. PICK i \in DOMAIN b.docs : b.docs[i].path = f /\ b.docs[i].word = disk[f]
    BY <1>1 DEF Taken
  <1>3. postings.words[i] = disk[f]
    BY <1>1, <1>2, WordsAreSeq
  <1> QED
    BY <1>1, <1>2, <1>3, PublishMetaComesTo DEF CourseInv, Indexed

(* What an overlay build has read is found once its metadata is there. *)
LEMMA FoundInOverlay ==
    ASSUME CourseInv, PublishOvMeta, NEW f \in File, Taken(f) PROVE Indexed(f, disk[f])'
  <1>1. disk' = disk /\ b.todo = {}
    BY PublishOvMetaComesTo DEF CourseInv, Phases, PublishesOverlay, workspace
  <1>2. PICK i \in DOMAIN b.docs : b.docs[i].path = f /\ b.docs[i].word = disk[f]
    BY <1>1 DEF Taken
  <1> QED
    BY <1>1, <1>2, PublishOvMetaComesTo DEF CourseInv, Indexed

-----------------------------------------------------------------------------
(* FreshIsComplete, where git has no say: files are compared by mtime and length. *)
Calm == Env \cap {"race", "git"} = {}
GitFree == trees = <<>> /\ head = None /\ b.head = None /\ (meta # None => meta.commit = None)

(* What an overlay replaces has changed since the base was built, and stays changed. *)
OverlayIsStale ==
    Scans("overlay") \/ PublishesOverlay => \A f \in File : Concerns(f) => Stale(b.meta, f)
TombsAreStale ==
    tombs # None => \A i \in tombs.ids : meta.docs[i].mtime < mtime[meta.docs[i].path]

(* While nothing changes, every text file is still to be read, has been read, or is *)
(* as the base has it.                                                              *)
QuietCovers ==
    b.quiet /\ Building => \A f \in File : disk[f] \in Text =>
        Taken(f) \/ (b.mode = "overlay" /\ InBase(b.meta, f))

FreshInv ==
    /\ CourseInv
    /\ GitFree
    /\ OverlayIsStale /\ TombsAreStale
    /\ QuietCovers
    /\ FreshIsComplete

LEMMA InitFreshInv == Calm /\ Init => FreshInv
  BY InitCourseInv DEF Calm, Init, Idle, FreshInv, GitFree, OverlayIsStale, TombsAreStale, QuietCovers,
     FreshIsComplete, Scans, PublishesBase, PublishesOverlay, Building

(* Where files are compared by mtime and length, Changed are the stale ones and those that *)
(* the base has no document of.                                                       *)
LEMMA StatChangedAreStale ==
    ASSUME CourseInv, meta # None
    PROVE  /\ StatChanged(meta) \subseteq File
           /\ \A f \in StatChanged(meta) : Stale(meta, f)
           /\ \A f \in File \ StatChanged(meta) : disk[f] \in Text => InBase(meta, f)
  <1>1. \A f \in File : disk[f] \in Text => Present(f)
    BY NameAssumption DEF Text, Present
  <1>2. ASSUME NEW f \in StatChanged(meta) PROVE Stale(meta, f)
    <2> SUFFICES ASSUME NEW i \in DOMAIN meta.docs, meta.docs[i].path = f
                 PROVE  meta.docs[i].mtime < mtime[f]
      BY DEF Stale
    <2>1. /\ f \in File /\ meta.docs[i].mtime \in Nat /\ mtime[f] \in Nat
          /\ meta.docs[i].mtime <= mtime[f]
          /\ meta.docs[i].mtime = mtime[f] => Present(f) /\ meta.docs[i].size = Size[disk[f]]
      BY DocumentsAreTyped DEF StatChanged, CourseInv, MetaFits, Stays
    <2>2. Present(f) => meta.docs[i].mtime # mtime[f] \/ meta.docs[i].size # Size[disk[f]]
      BY DEF StatChanged
    <2> QED
      BY <2>1, <2>2
  <1>3. ASSUME NEW f \in File \ StatChanged(meta), disk[f] \in Text PROVE InBase(meta, f)
    BY <1>1, <1>3 DEF StatChanged, InBase, Stays
  <1> QED
    BY <1>2, <1>3 DEF StatChanged

LEMMA EnvironmentFreshInv ==
    ASSUME Calm, FreshInv, CourseInv', Environment PROVE FreshInv'
  <1> USE DEF FreshInv, CourseInv
  <1>0. Unraced
    BY DEF Calm, Unraced
  <1>1. UNCHANGED <<trees, head>>
    BY DEF Environment, Edit, Touch, Commit, Checkout, Calm, GitFree
  <1>2. GitFree' /\ QuietCovers' /\ FreshIsComplete'
    BY <1>0, <1>1, EnvironmentKeeps DEF GitFree, QuietCovers, FreshIsComplete, base
  <1>3. OverlayIsStale'
    <2> SUFFICES ASSUME (Scans("overlay") \/ PublishesOverlay)', NEW f \in File, Concerns(f)',
                        NEW i \in DOMAIN b'.meta.docs, b'.meta.docs[i].path = f
                 PROVE  b'.meta.docs[i].mtime < mtime'[f]
      BY DEF OverlayIsStale, Stale
    <2>1. (Scans("overlay") \/ PublishesOverlay) /\ Concerns(f) /\ b'.meta = b.meta
      BY <1>0, EnvironmentKeeps DEF Scans, PublishesOverlay, Concerns
    <2>2. b.meta # None /\ b.meta = meta
      BY <2>1 DEF TypeInv, OverlayInv, OverlayHasBase, MetadataHeld, Scans, PublishesOverlay
    <2>3. b.meta.docs[i].mtime < mtime[f] /\ b.meta.docs[i].mtime \in Nat
      BY <2>1, <2>2, DocumentsAreTyped DEF OverlayIsStale, Stale
    <2> QED
      BY <1>0, <2>1, <2>3, EnvironmentKeeps
  <1>4. TombsAreStale'
    <2> SUFFICES ASSUME tombs # None, NEW i \in tombs.ids
                 PROVE  meta.docs[i].mtime < mtime'[meta.docs[i].path]
      BY <1>0, EnvironmentKeeps DEF TombsAreStale, base, overlay
    <2>1. meta # None /\ i \in DOMAIN meta.docs
      BY DEF TypeInv, OverlayInv, OverlayFitsBase
    <2> QED
      BY <1>0, <2>1, EnvironmentKeeps, DocumentsAreTyped DEF TombsAreStale
  <1> QED
    BY <1>2, <1>3, <1>4

LEMMA DecidingFreshInv ==
    ASSUME FreshInv, CourseInv', Start \/ DecideWithoutLooking \/ Decide \/ Crash PROVE FreshInv'
  <1> USE DEF FreshInv, Scans, PublishesBase, PublishesOverlay, Building
  <1>1. UNCHANGED <<workspace, base, overlay>> /\ (Starts \/ Rebuilds \/ Overlays \/ Ends)
    BY DecidingComesTo DEF CourseInv
  <1>2. GitFree' /\ TombsAreStale'
    BY <1>1 DEF GitFree, TombsAreStale, workspace, base, overlay, Starts, Rebuilds, Overlays, Ends
  <1>3. b.pc = "decide" /\ b.meta # None =>
           /\ b.meta = meta /\ Answers = {StatChanged(meta)} /\ b.docs = <<>> /\ b.gone = {}
    BY DEF GitFree, Answers, GoesByGit, Changed, CourseInv, Phases, TypeInv, OverlayInv, MetadataHeld
  <1>4. CASE Starts \/ Rebuilds
    BY <1>2, <1>4 DEF OverlayIsStale, QuietCovers, FreshIsComplete, Starts, Rebuilds
  <1>5. CASE Overlays
    <2>1. /\ b.meta = meta /\ meta # None /\ b'.docs = <<>> /\ b'.gone = {}
          /\ b'.todo = StatChanged(meta) \cap File
      BY <1>3, <1>5 DEF Overlays
    <2>2. OverlayIsStale'
      BY <1>1, <1>5, <2>1, StatChangedAreStale DEF OverlayIsStale, Concerns, Stale, Overlays, workspace
    <2>3. QuietCovers'
      BY <1>1, <1>5, <2>1, StatChangedAreStale DEF QuietCovers, Taken, InBase, Stays, Overlays, workspace
    <2> QED
      BY <1>2, <1>5, <2>2, <2>3 DEF FreshIsComplete, Overlays
  <1>6. CASE Ends
    <2>1. OverlayIsStale' /\ QuietCovers'
      BY <1>6 DEF OverlayIsStale, QuietCovers, Ends
    <2>2. FreshIsComplete'
      <3> SUFFICES ASSUME fresh', BaseAligned', NEW f \in File, disk'[f] \in Text
                   PROVE  Indexed(f, disk[f])'
        BY DEF FreshIsComplete, Text
      <3>1. disk' = disk /\ BaseAligned /\ meta # None /\ f \notin StatChanged(meta)
        BY <1>1, <1>3, <1>6 DEF workspace, base, BaseAligned, Ends
      <3>2. PICK i \in DOMAIN meta.docs : meta.docs[i].path = f /\ meta.docs[i].mtime = mtime[f]
        BY <3>1, StatChangedAreStale DEF InBase, Stays
      <3>3. tombs # None => i \notin tombs.ids
        BY <3>1, <3>2, DocumentsAreTyped DEF TombsAreStale, CourseInv
      <3>4. Indexed(f, disk[f])
        BY <3>1, <3>2, <3>3, FoundInBase
      <3> QED
        BY <1>1, <3>4 DEF Indexed, OverlayOpens, workspace, base, overlay
    <2> QED
      BY <1>2, <2>1, <2>2
  <1> QED
    BY <1>1, <1>4, <1>5, <1>6

LEMMA ClearFreshInv ==
    ASSUME FreshInv, CourseInv', ClearOverlay PROVE FreshInv'
  <1> USE DEF FreshInv, Scans, PublishesBase, PublishesOverlay, Building
  <1>1. GitFree' /\ TombsAreStale' /\ OverlayIsStale' /\ FreshIsComplete'
    BY ClearComesTo DEF GitFree, TombsAreStale, OverlayIsStale, FreshIsComplete, workspace, base, CourseInv
  <1>2. QuietCovers'
    BY ClearComesTo, NameAssumption DEF QuietCovers, Taken, Walk, Present, Text, workspace, CourseInv
  <1> QED
    BY <1>1, <1>2

LEMMA ScanFreshInv ==
    ASSUME FreshInv, CourseInv', ReadFile \/ StatFile PROVE FreshInv'
  <1> USE DEF FreshInv, Scans, PublishesBase, PublishesOverlay, Building
  <1>1. GitFree' /\ TombsAreStale' /\ FreshIsComplete'
    BY ScanKeeps DEF GitFree, TombsAreStale, FreshIsComplete, workspace, base, overlay
  <1>2. OverlayIsStale'
    BY ScanKeeps DEF OverlayIsStale, Stale, workspace
  <1>3. QuietCovers'
    <2>1. /\ Building /\ disk' = disk /\ mtime' = mtime
          /\ b'.mode = b.mode /\ b'.meta = b.meta /\ b'.quiet = b.quiet
      BY ScanKeeps DEF workspace
    <2>2. \A f : InBase(b.meta, f) <=> InBase(b.meta, f)'
      BY <2>1 DEF InBase, Stays
    <2>3. \A f \in File : disk[f] \in Text /\ Taken(f) => Taken(f)'
      BY ScanKeeps
    <2> QED
      BY <2>1, <2>2, <2>3 DEF QuietCovers
  <1> QED
    BY <1>1, <1>2, <1>3

LEMMA PublishFreshInv ==
    ASSUME FreshInv, CourseInv',
           \/ PublishPostings \/ PublishLexicon \/ TruncateDf \/ WriteDf
           \/ PublishOvPostings \/ PublishOvLexicon \/ PublishTombs
    PROVE  FreshInv'
  <1> USE DEF FreshInv, Scans, PublishesBase, PublishesOverlay, Building
  <1>0. TypeInv
    BY DEF CourseInv
  <1>1. GitFree' /\ FreshIsComplete'
    BY <1>0, PublishKeeps DEF GitFree, FreshIsComplete, workspace
  <1>2. OverlayIsStale'
    BY <1>0, PublishKeeps DEF OverlayIsStale, Stale, Concerns, Scanned, workspace
  <1>3. QuietCovers'
    <2>1. Building /\ disk' = disk /\ mtime' = mtime
      BY <1>0, PublishKeeps DEF Scanned, workspace
    <2>2. \A f : (Taken(f) <=> Taken(f)') /\ (InBase(b.meta, f) <=> InBase(b.meta, f)')
      BY <1>0, <2>1, PublishKeeps DEF Taken, InBase, Stays
    <2> QED
      BY <1>0, <2>1, <2>2, PublishKeeps DEF QuietCovers
  <1>4. TombsAreStale'
    <2>1. CASE UNCHANGED tombs
      BY <1>0, <2>1, PublishKeeps DEF TombsAreStale, workspace
    <2>2. CASE PublishTombs
      <3>1. b.meta # None /\ b.meta = meta
        BY <2>2 DEF PublishTombs, CourseInv, TypeInv, OverlayInv, OverlayHasBase, MetadataHeld
      <3> SUFFICES ASSUME NEW i \in Tombstones
                   PROVE  meta.docs[i].mtime < mtime[meta.docs[i].path]
        BY <1>0, <2>2, PublishKeeps DEF TombsAreStale, PublishTombs, workspace
      <3>2. i \in DOMAIN meta.docs /\ Concerns(meta.docs[i].path)
        BY <3>1 DEF Tombstones, Concerns
      <3> QED
        BY <1>0, <2>2, <3>1, <3>2, DocumentsAreTyped DEF OverlayIsStale, Stale, PublishTombs
    <2> QED
      BY <2>1, <2>2 DEF PublishPostings, PublishLexicon, TruncateDf, WriteDf, PublishOvPostings,
         PublishOvLexicon, overlay
  <1> QED
    BY <1>1, <1>2, <1>3, <1>4

LEMMA PublishMetaFreshInv ==
    ASSUME FreshInv, CourseInv', PublishMeta PROVE FreshInv'
  <1> USE DEF FreshInv, Scans, PublishesBase, PublishesOverlay, Building
  <1>0. TypeInv
    BY DEF CourseInv
  <1>1. GitFree' /\ TombsAreStale' /\ OverlayIsStale' /\ QuietCovers'
    BY <1>0, PublishMetaComesTo DEF GitFree, TombsAreStale, OverlayIsStale, QuietCovers, workspace, overlay
  <1>2. FreshIsComplete'
    <2> SUFFICES ASSUME fresh', NEW f \in File, disk'[f] \in Text PROVE Indexed(f, disk[f])'
      BY DEF FreshIsComplete, Text
    <2>1. b.quiet /\ disk' = disk /\ b.pc = "meta" /\ b.mode = "full"
      BY <1>0, PublishMetaComesTo DEF workspace, CourseInv, Phases
    <2>2. Taken(f)
      BY <2>1 DEF QuietCovers
    <2> QED
      BY <2>2, FoundAfterRebuild
  <1> QED
    BY <1>1, <1>2

LEMMA PublishOvMetaFreshInv ==
    ASSUME FreshInv, CourseInv', PublishOvMeta PROVE FreshInv'
  <1> USE DEF FreshInv, Scans, PublishesBase, PublishesOverlay, Building
  <1>0. TypeInv /\ Published
    BY DEF CourseInv
  <1>1. GitFree' /\ TombsAreStale' /\ OverlayIsStale' /\ QuietCovers'
    BY <1>0, PublishOvMetaComesTo DEF GitFree, TombsAreStale, OverlayIsStale, QuietCovers, workspace, base
  <1>2. FreshIsComplete'
    <2> SUFFICES ASSUME fresh', BaseAligned', NEW f \in File, disk'[f] \in Text
                 PROVE  Indexed(f, disk[f])'
      BY DEF FreshIsComplete, Text
    <2>1. /\ b.quiet /\ UNCHANGED <<disk, postings, meta, tombs>> /\ b.pc = "ov_meta" /\ BaseAligned
          /\ b.meta = meta
      BY <1>0, PublishOvMetaComesTo DEF workspace, base, BaseAligned
    <2>2. CASE Taken(f)
      BY <2>2, FoundInOverlay
    <2>3. CASE InBase(meta, f)
      <3>1. PICK i \in DOMAIN meta.docs : meta.docs[i].path = f /\ meta.docs[i].mtime = mtime[f]
        BY <2>3 DEF InBase, Stays
      <3>2. tombs # None => i \notin tombs.ids
        BY <1>0, <2>1, <3>1, DocumentsAreTyped DEF TombsAreStale, BaseAligned
      <3>3. postings.words[i] = disk[f]
        BY <2>1, <3>1 DEF CourseInv, BaseFits, BaseAligned, Stays
      <3> QED
        BY <2>1, <3>1, <3>2, <3>3 DEF Indexed
    <2> QED
      BY <2>1, <2>2, <2>3 DEF QuietCovers
  <1> QED
    BY <1>1, <1>2

LEMMA NextFreshInv ==
    ASSUME Calm, FreshInv, [Next]_vars PROVE FreshInv'
  <1>0. CourseInv'
    BY NextCourseInv DEF FreshInv, Calm, Unraced
  <1>1. CASE UNCHANGED vars
    BY <1>0, <1>1 DEF vars, workspace, base, overlay, FreshInv, GitFree, OverlayIsStale, TombsAreStale,
       QuietCovers, FreshIsComplete, Scans, PublishesBase, PublishesOverlay, Building, Stays, Stale,
       Concerns, InBase, Taken, BaseAligned, SameWeights, QueryWeights, Weights, Indexed, OverlayOpens
  <1>2. CASE Build
    BY <1>0, <1>2, DecidingFreshInv, ClearFreshInv, ScanFreshInv, PublishFreshInv, PublishMetaFreshInv,
       PublishOvMetaFreshInv DEF Build
  <1>3. CASE Environment
    BY <1>0, <1>3, EnvironmentFreshInv
  <1> QED
    BY <1>1, <1>2, <1>3 DEF Next

(* For any project whose files are compared by mtime and do not change between the     *)
(* builder's read and its stat, any thresholds and any crashes: an index that is up to *)
(* date holds every text file.                                                         *)
THEOREM FreshIsCompleteHolds ==
    ASSUME Calm PROVE Spec => []FreshIsComplete
  <1>1. Init => FreshInv
    BY InitFreshInv
  <1>2. FreshInv /\ [Next]_vars => FreshInv'
    BY NextFreshInv
  <1>3. FreshInv => FreshIsComplete
    BY DEF FreshInv
  <1> QED
    BY <1>1, <1>2, <1>3, PTL DEF Spec

-----------------------------------------------------------------------------
(* CleanCommitIsComplete, where git finds the changes. *)

(* The overlay on disk is of an earlier build than the one that runs. *)
OverlayPredates ==
    ovMeta # None => /\ ovMeta.run \in Nat /\ ovMeta.run <= b.run
                     /\ b.pc # "idle" => ovMeta.run < b.run

(* The tombstones an overlay is published with are the ones it was built with. *)
TombsAreTheirs == b.pc = "ov_meta" => tombs.ids = Tombstones

HeadIsRead == b.quiet /\ b.pc # "idle" => b.head \in {head, None}

(* The base has a file as it is: it has its mtime, or the commit the base is of has it so. *)
Unaltered(f) == InBase(b.meta, f) \/ (b.meta.commit # None /\ trees[b.meta.commit][f] = disk[f])

(* While nothing changes, every text file that git was asked about, or that is as it *)
(* was committed, is still to be read, has been read, or is unaltered and left alone  *)
(* by the overlay.                                                                    *)
Asked(f) == b.asked \/ disk[f] = trees[head][f]
QuietHolds ==
    Misnamed = {} /\ b.quiet /\ Building =>
      \A f \in File : disk[f] \in Text /\ (b.mode = "full" \/ Asked(f)) =>
        Taken(f) \/ (b.mode = "overlay" /\ ~Concerns(f) /\ Unaltered(f))

CommitInv ==
    /\ CourseInv
    /\ OverlayPredates /\ TombsAreTheirs /\ HeadIsRead
    /\ QuietHolds
    /\ CleanCommitIsComplete

LEMMA InitCommitInv == Init => CommitInv
  BY InitCourseInv DEF Init, Idle, CommitInv, OverlayPredates, TombsAreTheirs, HeadIsRead, QuietHolds,
     CleanCommitIsComplete, PublishesBase, PublishesOverlay, Building

(* What neither git nor the mtimes report is unaltered, of the committed files also if *)
(* git status has failed.                                                              *)
LEMMA PrintedAreFiles ==
    ASSUME Misnamed = {}, NEW files PROVE Printed(files) = files
  BY DEF Printed

LEMMA UnreportedIsUnaltered ==
    ASSUME CommitInv, b.pc = "decide", b.meta # None, b.quiet, Misnamed = {},
           NEW changed \in Answers, NEW f \in File \ changed, disk[f] \in Text,
           changed = Changed \/ disk[f] = trees[head][f]
    PROVE  b.meta = meta /\ Unaltered(f)
  <1>1. b.meta = meta /\ b.head \in {head, None}
    BY DEF CommitInv, HeadIsRead, CourseInv, TypeInv, OverlayInv, MetadataHeld
  <1>2. CASE GoesByGit
    <2>1. b.meta.commit # None /\ b.head = head
      BY <1>1, <1>2 DEF GoesByGit
    <2>2. CASE changed = Changed
      <3>1. f \notin GitDiff(b.meta.commit, head)
            /\ f \notin Printed({g \in File : disk[g] # trees[head][g]})
        BY <1>2, <2>1, <2>2 DEF Changed, GitChanged
      <3>2. trees[b.meta.commit][f] = trees[head][f] /\ disk[f] = trees[head][f]
        BY <3>1, PrintedAreFiles DEF GitDiff
      <3> QED
        BY <1>1, <2>1, <3>2 DEF Unaltered
    <2>3. CASE changed # Changed
      <3>1. changed = GitDiff(b.meta.commit, head) /\ disk[f] = trees[head][f]
        BY <1>2, <2>1, <2>3 DEF Answers
      <3>2. trees[b.meta.commit][f] = trees[head][f]
        BY <3>1, PrintedAreFiles DEF GitDiff
      <3> QED
        BY <1>1, <2>1, <3>1, <3>2 DEF Unaltered
    <2> QED
      BY <2>2, <2>3
  <1>3. CASE ~GoesByGit
    <2>1. f \in File \ StatChanged(meta)
      BY <1>1, <1>3 DEF Changed, Answers
    <2>2. InBase(meta, f)
      BY <1>1, <2>1, StatChangedAreStale DEF CommitInv
    <2> QED
      BY <1>1, <2>2 DEF Unaltered
  <1> QED
    BY <1>2, <1>3

(* The base, if built from a clean checkout, has the words of its unaltered files. *)
LEMMA UnalteredIsInPostings ==
    ASSUME CourseInv, BaseAligned, BuiltClean, b.meta = meta, NEW f \in File, disk[f] \in Text, Unaltered(f)
    PROVE  \E i \in DOMAIN meta.docs : meta.docs[i].path = f /\ postings.words[i] = disk[f]
  <1>1. CASE InBase(meta, f)
    BY <1>1 DEF InBase, Stays, CourseInv, BaseFits, BaseAligned
  <1>2. CASE trees[meta.commit][f] = disk[f]
    BY <1>2 DEF BuiltClean, Text
  <1> QED
    BY <1>1, <1>2 DEF Unaltered

LEMMA EnvironmentCommitInv ==
    ASSUME Unraced, CommitInv, CourseInv', Environment PROVE CommitInv'
  <1>1. TypeInv
    BY DEF CommitInv, CourseInv
  <1>2. OverlayPredates'
    BY <1>1, EnvironmentKeeps DEF CommitInv, OverlayPredates, overlay
  <1>3. TombsAreTheirs'
    BY <1>1, EnvironmentKeeps DEF CommitInv, TombsAreTheirs, Tombstones, overlay
  <1>4. HeadIsRead' /\ QuietHolds' /\ CleanCommitIsComplete'
    BY <1>1, EnvironmentKeeps DEF HeadIsRead, QuietHolds, CleanCommitIsComplete
  <1> QED
    BY <1>2, <1>3, <1>4 DEF CommitInv

LEMMA DecidingCommitInv ==
    ASSUME CommitInv, CourseInv', Start \/ DecideWithoutLooking \/ Decide \/ Crash PROVE CommitInv'
  <1> USE DEF CommitInv, PublishesBase, PublishesOverlay, Building
  <1>1. UNCHANGED <<workspace, base, overlay>> /\ (Starts \/ Rebuilds \/ Overlays \/ Ends)
    BY DecidingComesTo DEF CourseInv
  <1>2. b.run \in Nat
    BY DEF CourseInv, TypeInv, BuilderTyped
  <1>3. OverlayPredates' /\ TombsAreTheirs'
    BY <1>1, <1>2 DEF OverlayPredates, TombsAreTheirs, overlay, Starts, Rebuilds, Overlays, Ends
  <1>4. HeadIsRead'
    BY <1>1 DEF HeadIsRead, workspace, Starts, Rebuilds, Overlays, Ends
  <1>5. CASE Starts \/ Rebuilds
    BY <1>3, <1>4, <1>5 DEF QuietHolds, CleanCommitIsComplete, Starts, Rebuilds
  <1>6. CASE Overlays
    <2>1. b.docs = <<>> /\ b.gone = {}
      BY <1>6 DEF Overlays, CourseInv, Phases
    <2>2. PICK changed \in Answers : b'.todo = changed \cap File /\ (b'.asked => changed = Changed)
      BY <1>6 DEF Overlays
    <2> SUFFICES ASSUME Misnamed = {}, b.quiet, NEW f \in File, disk[f] \in Text, f \notin changed,
                        b'.asked \/ disk[f] = trees[head][f]
                 PROVE  ~Concerns(f)' /\ Unaltered(f)'
      BY <1>1, <1>3, <1>4, <1>6, <2>2 DEF QuietHolds, Asked, CleanCommitIsComplete, Taken, Overlays, workspace
    <2>3. ~Concerns(f)'
      BY <1>6, <2>1, <2>2 DEF Concerns, Overlays
    <2>4. Unaltered(f)
      BY <1>6, <2>2, UnreportedIsUnaltered DEF Overlays
    <2> QED
      BY <1>1, <1>6, <2>3, <2>4 DEF Unaltered, InBase, Stays, Overlays, workspace
  <1>7. CASE Ends
    <2>1. QuietHolds'
      BY <1>7 DEF QuietHolds, Ends
    <2>2. CleanCommitIsComplete'
      <3> SUFFICES ASSUME fresh', BaseAligned', BuiltClean', OverlayOpens' => ovMeta'.run = b'.run,
                          NEW f \in File, disk'[f] \in Text, Asked(f)'
                   PROVE  Indexed(f, disk[f])'
        BY DEF CleanCommitIsComplete, Text, Asked
      <3>1. b.quiet /\ b.pc = "decide" /\ b.meta # None /\ b'.run = b.run
        BY <1>7 DEF Ends
      <3> PICK changed \in Answers : changed = {} /\ (b'.asked => changed = Changed)
        BY <1>7 DEF Ends
      <3>2. disk' = disk /\ BaseAligned /\ BuiltClean /\ Misnamed = {}
        BY <1>1 DEF workspace, base, BaseAligned, BuiltClean
      <3>3. ~OverlayOpens
        BY <1>1, <1>2, <3>1 DEF OverlayOpens, OverlayPredates, overlay
      <3>4. b.meta = meta /\ Unaltered(f)
        <4>1. changed = Changed \/ disk[f] = trees[head][f]
          BY <1>1 DEF Asked, workspace
        <4> QED
          BY <3>1, <3>2, <4>1, UnreportedIsUnaltered
      <3>5. Indexed(f, disk[f])
        BY <3>2, <3>3, <3>4, UnalteredIsInPostings, FoundInBase
      <3> QED
        BY <1>1, <3>5 DEF Indexed, OverlayOpens, workspace, base, overlay
    <2> QED
      BY <1>3, <1>4, <2>1, <2>2
  <1> QED
    BY <1>1, <1>5, <1>6, <1>7

LEMMA ClearCommitInv ==
    ASSUME CommitInv, CourseInv', ClearOverlay PROVE CommitInv'
  <1> USE DEF CommitInv, PublishesBase, PublishesOverlay, Building
  <1>1. OverlayPredates' /\ TombsAreTheirs' /\ HeadIsRead' /\ CleanCommitIsComplete'
    BY ClearComesTo DEF OverlayPredates, TombsAreTheirs, HeadIsRead, CleanCommitIsComplete, workspace,
       CourseInv
  <1>2. QuietHolds'
    BY ClearComesTo, NameAssumption DEF QuietHolds, Asked, Taken, Walk, Present, Text, workspace, CourseInv
  <1> QED
    BY <1>1, <1>2

LEMMA ScanCommitInv ==
    ASSUME CommitInv, CourseInv', ReadFile \/ StatFile PROVE CommitInv'
  <1> USE DEF CommitInv, PublishesBase, PublishesOverlay, Building
  <1>1. OverlayPredates' /\ TombsAreTheirs' /\ HeadIsRead' /\ CleanCommitIsComplete'
    BY ScanKeeps DEF OverlayPredates, TombsAreTheirs, HeadIsRead, CleanCommitIsComplete, workspace, overlay
  <1>2. QuietHolds'
    <2>1. /\ Building /\ disk' = disk /\ mtime' = mtime /\ trees' = trees
          /\ b'.mode = b.mode /\ b'.meta = b.meta /\ b'.quiet = b.quiet
          /\ b'.asked = b.asked /\ head' = head
      BY ScanKeeps DEF workspace
    <2>2. \A f : Unaltered(f) <=> Unaltered(f)'
      BY <2>1 DEF Unaltered, InBase, Stays
    <2>3. /\ \A f \in File : disk[f] \in Text /\ Taken(f) => Taken(f)'
          /\ \A f : Concerns(f)' => Concerns(f)
      BY ScanKeeps
    <2> QED
      BY <2>1, <2>2, <2>3 DEF QuietHolds, Asked
  <1> QED
    BY <1>1, <1>2

LEMMA PublishCommitInv ==
    ASSUME CommitInv, CourseInv',
           \/ PublishPostings \/ PublishLexicon \/ TruncateDf \/ WriteDf
           \/ PublishOvPostings \/ PublishOvLexicon \/ PublishTombs
    PROVE  CommitInv'
  <1> USE DEF CommitInv, PublishesBase, PublishesOverlay, Building
  <1>0. TypeInv
    BY DEF CourseInv
  <1>1. OverlayPredates' /\ HeadIsRead' /\ CleanCommitIsComplete'
    BY <1>0, PublishKeeps DEF OverlayPredates, HeadIsRead, CleanCommitIsComplete, Scanned, workspace
  <1>2. TombsAreTheirs'
    <2>1. CASE PublishTombs
      BY <1>0, <2>1, PublishKeeps DEF TombsAreTheirs, PublishTombs, Tombstones
    <2>2. CASE ~PublishTombs
      BY <1>0, <2>2 DEF TombsAreTheirs, PublishPostings, PublishLexicon, TruncateDf, WriteDf,
         PublishOvPostings, PublishOvLexicon, TypeInv, OverlayInv, BuilderShape
    <2> QED
      BY <2>1, <2>2
  <1>3. QuietHolds'
    <2>1. Building /\ disk' = disk /\ mtime' = mtime /\ trees' = trees /\ head' = head
      BY <1>0, PublishKeeps DEF Scanned, workspace
    <2>2. \A f : /\ Taken(f) <=> Taken(f)' 
                 /\ Concerns(f) <=> Concerns(f)'
                 /\ Unaltered(f) <=> Unaltered(f)'
      BY <1>0, <2>1, PublishKeeps DEF Taken, Concerns, Unaltered, InBase, Stays
    <2> QED
      BY <1>0, <2>1, <2>2, PublishKeeps DEF QuietHolds, Asked
  <1> QED
    BY <1>1, <1>2, <1>3

LEMMA PublishMetaCommitInv ==
    ASSUME CommitInv, CourseInv', PublishMeta PROVE CommitInv'
  <1> USE DEF CommitInv, PublishesBase, PublishesOverlay, Building
  <1>0. TypeInv
    BY DEF CourseInv
  <1>1. OverlayPredates' /\ TombsAreTheirs' /\ HeadIsRead' /\ QuietHolds'
    BY <1>0, PublishMetaComesTo DEF OverlayPredates, TombsAreTheirs, HeadIsRead, QuietHolds, overlay
  <1>2. CleanCommitIsComplete'
    <2> SUFFICES ASSUME fresh', NEW f \in File, disk'[f] \in Text, Misnamed = {}
                 PROVE  Indexed(f, disk[f])'
      BY DEF CleanCommitIsComplete, BuiltClean, Text
    <2>1. b.quiet /\ disk' = disk /\ b.pc = "meta" /\ b.mode = "full"
      BY <1>0, PublishMetaComesTo DEF workspace, CourseInv, Phases
    <2>2. Taken(f)
      BY <2>1 DEF QuietHolds
    <2> QED
      BY <2>2, FoundAfterRebuild
  <1> QED
    BY <1>1, <1>2

LEMMA PublishOvMetaCommitInv ==
    ASSUME CommitInv, CourseInv', PublishOvMeta PROVE CommitInv'
  <1> USE DEF CommitInv, PublishesBase, PublishesOverlay, Building
  <1>0. TypeInv /\ Published /\ b.run \in Nat
    BY DEF CourseInv, TypeInv, BuilderTyped
  <1>1. OverlayPredates' /\ TombsAreTheirs' /\ HeadIsRead' /\ QuietHolds'
    BY <1>0, PublishOvMetaComesTo DEF OverlayPredates, TombsAreTheirs, HeadIsRead, QuietHolds
  <1>2. CleanCommitIsComplete'
    <2> SUFFICES ASSUME fresh', BaseAligned', BuiltClean', NEW f \in File, disk'[f] \in Text, Asked(f)'
                 PROVE  Indexed(f, disk[f])'
      BY DEF CleanCommitIsComplete, Text, Asked
    <2>1. /\ b.quiet /\ UNCHANGED <<disk, postings, meta, tombs>> /\ b.pc = "ov_meta"
          /\ b.meta = meta /\ BaseAligned /\ BuiltClean /\ Misnamed = {}
      <3>1. /\ b.quiet /\ UNCHANGED <<disk, trees, postings, lexicon, meta, tombs>> /\ b.pc = "ov_meta"
            /\ b.meta = meta
        BY <1>0, PublishOvMetaComesTo DEF workspace, base
      <3>2. BaseAligned
        BY <3>1 DEF BaseAligned
      <3>3. BuiltClean
        BY <3>1 DEF BuiltClean
      <3> QED
        BY <3>1, <3>2, <3>3 DEF BuiltClean
    <2>2. CASE Taken(f)
      BY <2>2, FoundInOverlay
    <2>3. CASE ~Concerns(f) /\ Unaltered(f)
      <3>1. PICK i \in DOMAIN meta.docs : meta.docs[i].path = f /\ postings.words[i] = disk[f]
        BY <2>1, <2>3, UnalteredIsInPostings
      <3>2. i \notin tombs.ids
        BY <2>1, <2>3, <3>1 DEF TombsAreTheirs, Tombstones, Concerns
      <3> QED
        BY <2>1, <3>1, <3>2 DEF Indexed
    <2>4. Asked(f)
      BY <1>0, PublishOvMetaComesTo DEF Asked, workspace
    <2> QED
      BY <2>1, <2>2, <2>3, <2>4 DEF QuietHolds
  <1> QED
    BY <1>1, <1>2

LEMMA NextCommitInv ==
    ASSUME Unraced, CommitInv, [Next]_vars PROVE CommitInv'
  <1>0. CourseInv'
    BY NextCourseInv DEF CommitInv
  <1>1. CASE UNCHANGED vars
    BY <1>0, <1>1 DEF vars, workspace, base, overlay, CommitInv, OverlayPredates, TombsAreTheirs,
       Tombstones, HeadIsRead, QuietHolds, CleanCommitIsComplete, BuiltClean, PublishesBase,
       PublishesOverlay, Building, Stays, Concerns, InBase, Unaltered, Taken, Asked, BaseAligned, SameWeights,
       QueryWeights, Weights, Indexed, OverlayOpens
  <1>2. CASE Build
    BY <1>0, <1>2, DecidingCommitInv, ClearCommitInv, ScanCommitInv, PublishCommitInv,
       PublishMetaCommitInv, PublishOvMetaCommitInv DEF Build
  <1>3. CASE Environment
    BY <1>0, <1>3, EnvironmentCommitInv
  <1> QED
    BY <1>1, <1>2, <1>3 DEF Next

(* For any git repository whose files do not change between the builder's read and its *)
(* stat, any history of commits and checkouts, any thresholds and any crashes: what    *)
(* neither git nor the mtimes report needs no indexing, if the base was built from a   *)
(* clean checkout.                                                                     *)
THEOREM CleanCommitIsCompleteHolds ==
    ASSUME Unraced PROVE Spec => []CleanCommitIsComplete
  <1>1. Init => CommitInv
    BY InitCommitInv
  <1>2. CommitInv /\ [Next]_vars => CommitInv'
    BY NextCommitInv
  <1>3. CommitInv => CleanCommitIsComplete
    BY DEF CommitInv
  <1> QED
    BY <1>1, <1>2, <1>3, PTL DEF Spec
=============================================================================
