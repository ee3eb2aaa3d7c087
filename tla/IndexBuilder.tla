---------------------------- MODULE IndexBuilder ----------------------------
(***************************************************************************)
(* build_index of src/src/index/writer.rs: how the on-disk index of one    *)
(* project follows its files.  One process at a time builds (BuildLock);   *)
(* users edit and git moves HEAD meanwhile, and the builder may die        *)
(* between any two of its file system operations.                          *)
(*                                                                         *)
(* A file's content is one word, a search asks for one word.  An n-gram    *)
(* posting list is the set of documents that hold a word; it can be relied *)
(* on by readers whose lexicon belongs to it and who cut words into        *)
(* n-grams with the same bigram weights.                                   *)
(***************************************************************************)
EXTENDS Naturals, Sequences, FiniteSets, SequencesExt

CONSTANTS
    Order,            \* the files of the project in walk_files' sorted order
    Word,             \* what a file may hold
    Binary,           \* the words is_binary rejects
    Size,             \* the length of a file that holds a word
    Absent,           \* no such file
    None,             \* no such artifact, no commit
    Misnamed,         \* files git does not print by the path the index has:
                      \* quoted names, files of an untracked directory
    OverlayThreshold, \* OVERLAY_THRESHOLD: 100 changed files
    CompactAbove,     \* needs_compaction: more overlay files than this, 1000, or
    CompactShare,     \* more than the base's by this factor, 10, are too many
    Env,              \* what happens around the builder, from EnvKinds
    MaxEdits,         \* bound: changes of the workspace
    MaxBuilds,        \* bound: runs of build_index
    MaxCommits        \* bound: commits of the repository

(***************************************************************************)
(* race    a file changes between the builder's read and its stat          *)
(* crash   the builder dies                                                *)
(* git     the project is a git repository whose HEAD moves                *)
(* unruly  git cannot be started or ends with an error                     *)
(***************************************************************************)
EnvKinds == {"race", "crash", "git", "unruly"}

File == ToSet(Order)
Content == Word \cup {Absent}
OtherPath == "other"   \* a path that is no file of the project

ASSUME SizeAssumption ==
    /\ OverlayThreshold \in Nat /\ CompactAbove \in Nat /\ CompactShare \in Nat
    /\ MaxEdits \in Nat /\ MaxBuilds \in Nat /\ MaxCommits \in Nat
ASSUME NameAssumption ==
    /\ Binary \subseteq Word /\ Absent \notin Word /\ Misnamed \subseteq File
    /\ OtherPath \notin File
ASSUME LengthAssumption == Size \in [Word -> Nat]
ASSUME EnvAssumption == Env \subseteq EnvKinds

ASSUME FileAssumption == IsFiniteSet(File)

\* n-gram weights; postings and metadata of a base and of an overlay.
WeightTable == [freq : [Word -> Nat], total : Nat]
Postings == [run : Nat, words : Seq(Word), weights : WeightTable \cup {None}]
Metadata == [run : Nat, commit : Nat \cup {None}, idf : BOOLEAN,
             docs : Seq([path : File, mtime : Nat, size : Nat])]
OvPostings == [run : Nat, words : Seq(Word), weights : WeightTable \cup {None}, base : Nat]
OvMetadata == [run : Nat, baseRun : Nat, base : Nat, paths : Seq(File)]
ASSUME NoneAssumption == None \notin Nat \cup Postings \cup Metadata \cup OvPostings \cup OvMetadata

VARIABLES
    disk, mtime, clock,  \* the files, when each changed, how often any did
    trees, head,         \* the commits' trees and the current commit
    postings, lexicon,   \* postings.bin; the build lexicon.bin is of, if it is empty
    df, meta,            \* bigram_df.bin, metadata.bin
    ovPost, ovLex,       \* overlay.bin; the build overlay_lex.bin is of
    tombs, ovMeta,       \* tombstones.bin, overlay_meta.bin
    b,                   \* the builder; asked is history: git status was not wanted
                         \* by the last decision, or answered
    fresh                \* history: the workspace has not changed since before
                         \* the last completed build

workspace == <<disk, mtime, clock, trees, head>>
base == <<postings, lexicon, df, meta>>
overlay == <<ovPost, ovLex, tombs, ovMeta>>
vars == <<workspace, base, overlay, b, fresh>>

Idle == [pc |-> "idle", run |-> 0, meta |-> None, head |-> None, quiet |-> FALSE, asked |-> TRUE,
         mode |-> None, todo |-> {}, docs |-> <<>>, gone |-> {}, weights |-> None]

Init ==
    /\ disk \in [File -> Content]
    /\ mtime = [f \in File |-> 0] /\ clock = 0
    /\ trees = IF "git" \in Env THEN <<disk>> ELSE <<>>
    /\ head = IF "git" \in Env THEN 1 ELSE None
    /\ postings = None /\ lexicon = None /\ df = None /\ meta = None
    /\ ovPost = None /\ ovLex = None /\ tombs = None /\ ovMeta = None
    /\ b = Idle
    /\ fresh = FALSE

-----------------------------------------------------------------------------
(* The workspace *)

Present(f) == disk[f] # Absent

\* The builder has read a file and not yet stat'ed it.
MidFile == b.pc = "stat"

\* The files in changes get new contents, and with them new mtimes.
Touch(changes) ==
    /\ clock < MaxEdits
    /\ "race" \in Env \/ ~MidFile
    /\ clock' = clock + 1
    /\ disk' = [f \in File |-> IF f \in DOMAIN changes THEN changes[f] ELSE disk[f]]
    /\ mtime' = [f \in File |-> IF f \in DOMAIN changes THEN clock' ELSE mtime[f]]
    /\ fresh' = FALSE
    /\ b' = [b EXCEPT !.quiet = FALSE]
    /\ UNCHANGED <<base, overlay>>

\* A save, a new file, a removal.
Edit(f) ==
    \E c \in Content \ {disk[f]} : Touch([g \in {f} |-> c]) /\ UNCHANGED <<trees, head>>

\* git commit -a: no file changes.
Commit ==
    /\ "git" \in Env
    /\ Len(trees) < MaxCommits
    /\ trees' = Append(trees, disk) /\ head' = Len(trees) + 1
    /\ fresh' = FALSE
    /\ b' = [b EXCEPT !.quiet = FALSE]
    /\ UNCHANGED <<disk, mtime, clock, base, overlay>>

\* git checkout: writes the files the two trees disagree on, if they are clean.
Checkout(c) ==
    LET moved == {f \in File : trees[c][f] # trees[head][f]}
    IN  /\ "git" \in Env
        /\ c # head
        /\ \A f \in moved : disk[f] = trees[head][f]
        /\ Touch([f \in moved |-> trees[c][f]])
        /\ head' = c
        /\ UNCHANGED trees

-----------------------------------------------------------------------------
(* What the builder reads of the index *)

\* OverlayReader::open answers Ok(Some).
OverlayOpens == ovMeta # None /\ ovLex # None /\ ovPost # None

OverlayCount == IF OverlayOpens THEN Len(ovMeta.paths) ELSE 0
NeedsCompaction(m) ==
    \/ OverlayCount > CompactAbove
    \/ m.docs # <<>> /\ OverlayCount * CompactShare > Len(m.docs)

\* BigramDfTable::load: the frequencies with the file count of the metadata.
Weights == IF df = None \/ meta = None THEN None
           ELSE [freq |-> df, total |-> Len(meta.docs)]

\* The frequencies a rebuild counts, one word standing for its bigrams.
Frequencies(docs) ==
    [w \in Word |-> Cardinality({i \in DOMAIN docs : docs[i].word = w})]

Walk == {f \in File : Present(f)}

-----------------------------------------------------------------------------
(* Deciding what to build *)

\* The lock is taken, the metadata and HEAD are read; git rev-parse may fail.
Start ==
    /\ b.pc = "idle"
    /\ b.run < MaxBuilds
    /\ \E commit \in {head} \cup (IF "unruly" \in Env THEN {None} ELSE {}) :
          b' = [Idle EXCEPT !.pc = "decide", !.run = b.run + 1, !.meta = meta,
                            !.head = commit, !.quiet = TRUE]
    /\ UNCHANGED <<workspace, base, overlay, fresh>>

\* Mutant of StatChanged: the lengths are not compared.
StatByTime(m) ==
    LET known(f) == {i \in DOMAIN m.docs : m.docs[i].path = f}
    IN  {f \in File : IF Present(f) THEN \A i \in known(f) : m.docs[i].mtime # mtime[f]
                                    ELSE known(f) # {}}

\* Files whose mtime or length differs from the base metadata's, or that exist on one
\* side only.
StatChanged(m) ==
    LET known(f) == {i \in DOMAIN m.docs : m.docs[i].path = f}
        same(d, f) == d.mtime = mtime[f] /\ d.size = Size[disk[f]]
    IN  {f \in File : IF Present(f) THEN \A i \in known(f) : ~same(m.docs[i], f)
                                    ELSE known(f) # {}}

\* The paths git prints for these files.
Printed(files) ==
    (files \ Misnamed) \cup (IF files \cap Misnamed = {} THEN {} ELSE {OtherPath})

\* Mutant of GitChanged: git status replaces what git diff has found.
GitStatus(old, new) == Printed({f \in File : disk[f] # trees[head][f]})

\* git diff --name-only old..new, and with git status --porcelain.
GitDiff(old, new) == Printed({f \in File : trees[old][f] # trees[new][f]})
GitChanged(old, new) ==
    GitDiff(old, new) \cup Printed({f \in File : disk[f] # trees[head][f]})

\* detect_changed_files: git alone when HEAD moved, otherwise every file's mtime and
\* length.  A git status that ends with an error leaves git diff alone.
GoesByGit == b.meta.commit # None /\ b.head # None /\ b.meta.commit # b.head
Changed ==
    IF GoesByGit THEN GitChanged(b.meta.commit, b.head) ELSE StatChanged(b.meta)
Answers ==
    {Changed} \cup (IF GoesByGit /\ "unruly" \in Env THEN {GitDiff(b.meta.commit, b.head)}
                   ELSE {})

\* Mutant of RebuildAll: the overlay stays.
RebuildUnder ==
    b' = [b EXCEPT !.pc = "read", !.mode = "full", !.todo = Walk, !.weights = Weights]

\* Every path that leads to a full rebuild clears the overlay first.
RebuildAll == b' = [b EXCEPT !.pc = "clear"]

\* No metadata, or an overlay that wants compaction.
DecideWithoutLooking ==
    /\ b.pc = "decide"
    /\ b.meta # None => NeedsCompaction(b.meta)
    /\ RebuildAll
    /\ UNCHANGED <<workspace, base, overlay, fresh>>

\* check_and_rebuild.  fresh speaks of completed builds, this one is if it was quiet.
\* Without an answer of git diff, or when git status cannot be started, everything is
\* rebuilt.
Decide ==
    /\ b.pc = "decide"
    /\ b.meta # None /\ ~NeedsCompaction(b.meta)
    /\ \/ \E changed \in Answers :
             \/ /\ changed = {}
                /\ Cardinality(Walk) = Len(b.meta.docs) + OverlayCount
                /\ b' = [Idle EXCEPT !.run = b.run, !.asked = (changed = Changed)]
                /\ fresh' = b.quiet
             \/ /\ changed = {}
                /\ Cardinality(Walk) # Len(b.meta.docs) + OverlayCount
                /\ RebuildAll
                /\ UNCHANGED fresh
             \/ /\ changed # {} /\ Cardinality(changed) <= OverlayThreshold
                /\ b' = [b EXCEPT !.pc = "read", !.mode = "overlay",
                                  !.todo = changed \cap File, !.asked = (changed = Changed),
                                  !.weights = IF b.meta.idf THEN Weights ELSE None]
                /\ UNCHANGED fresh
             \/ /\ Cardinality(changed) > OverlayThreshold
                /\ RebuildAll
                /\ UNCHANGED fresh
       \/ /\ GoesByGit /\ "unruly" \in Env
          /\ RebuildAll
          /\ UNCHANGED fresh
    /\ UNCHANGED <<workspace, base, overlay>>

-----------------------------------------------------------------------------
(* clear_overlay and the walk of full_rebuild *)

\* The four removals, in order; then the files are listed and the weights of the
\* previous build are loaded.
ClearOverlay ==
    /\ b.pc = "clear"
    /\ \/ /\ ovPost # None
          /\ ovPost' = None /\ UNCHANGED <<ovLex, ovMeta, tombs, b>>
       \/ /\ ovPost = None /\ ovLex # None
          /\ ovLex' = None /\ UNCHANGED <<ovPost, ovMeta, tombs, b>>
       \/ /\ ovPost = None /\ ovLex = None /\ ovMeta # None
          /\ ovMeta' = None /\ UNCHANGED <<ovPost, ovLex, tombs, b>>
       \/ /\ ovPost = None /\ ovLex = None /\ ovMeta = None
          /\ tombs' = None
          /\ b' = [b EXCEPT !.pc = "read", !.mode = "full", !.todo = Walk,
                            !.weights = Weights]
          /\ UNCHANGED <<ovPost, ovLex, ovMeta>>
    /\ UNCHANGED <<workspace, base, fresh>>

-----------------------------------------------------------------------------
(* Reading the files *)

\* The files are read in the order of the walk.
Before(f, g) == \E i, j \in DOMAIN Order : i <= j /\ Order[i] = f /\ Order[j] = g
ReadsNext(f) == b.pc = "read" /\ f \in b.todo /\ \A g \in b.todo : Before(f, g)

AddDocument(f) ==
    b' = [b EXCEPT !.pc = "stat", !.todo = @ \ {f},
                   !.docs = Append(@, [path |-> f, word |-> disk[f], mtime |-> 0])]
Skip(f) ==
    b' = [b EXCEPT !.todo = @ \ {f}, !.gone = IF Present(f) THEN @ ELSE @ \cup {f}]

\* Mutant of ReadFile: binary files are indexed.
ReadAnyFile ==
    /\ \E f \in b.todo : ReadsNext(f) /\ IF Present(f) THEN AddDocument(f) ELSE Skip(f)
    /\ UNCHANGED <<workspace, base, overlay, fresh>>

\* fs::read of the next file.  What cannot be read or is binary yields no document;
\* an overlay takes the unreadable file for deleted, and leaves the binary one alone.
ReadFile ==
    /\ \E f \in b.todo :
          /\ ReadsNext(f)
          /\ IF Present(f) /\ disk[f] \notin Binary THEN AddDocument(f) ELSE Skip(f)
    /\ UNCHANGED <<workspace, base, overlay, fresh>>

\* The mtime is taken after the content.  A file that vanished in between is no
\* document of a full build, and one without mtime in an overlay.
StatFile ==
    /\ b.pc = "stat"
    /\ LET last == Len(b.docs)
           f == b.docs[last].path
       IN  b' = [b EXCEPT !.pc = "read",
                          !.docs = IF Present(f) THEN [@ EXCEPT ![last].mtime = mtime[f]]
                                   ELSE IF b.mode = "full" THEN Front(@) ELSE @]
    /\ UNCHANGED <<workspace, base, overlay, fresh>>

-----------------------------------------------------------------------------
(* Publishing.  Each artifact is a rename of its own, but for bigram_df.bin,  *)
(* which is truncated and written in place.                                   *)

Words(docs) == [i \in DOMAIN docs |-> docs[i].word]
Scanned(mode) == b.pc = "read" /\ b.todo = {} /\ b.mode = mode

PublishPostings ==
    /\ Scanned("full")
    /\ postings' = [run |-> b.run, words |-> Words(b.docs), weights |-> b.weights]
    /\ b' = [b EXCEPT !.pc = "lexicon"]
    /\ UNCHANGED <<workspace, lexicon, df, meta, overlay, fresh>>

PublishLexicon ==
    /\ b.pc = "lexicon"
    /\ lexicon' = [run |-> b.run, empty |-> b.docs = <<>>]
    /\ b' = [b EXCEPT !.pc = "df_open"]
    /\ UNCHANGED <<workspace, postings, df, meta, overlay, fresh>>

TruncateDf ==
    /\ b.pc = "df_open"
    /\ df' = None
    /\ b' = [b EXCEPT !.pc = "df_write"]
    /\ UNCHANGED <<workspace, postings, lexicon, meta, overlay, fresh>>

WriteDf ==
    /\ b.pc = "df_write"
    /\ df' = Frequencies(b.docs)
    /\ b' = [b EXCEPT !.pc = "meta"]
    /\ UNCHANGED <<workspace, postings, lexicon, meta, overlay, fresh>>

\* The build is complete with its metadata, the lock is released.
PublishMeta ==
    /\ b.pc = "meta"
    /\ meta' = [run |-> b.run, commit |-> b.head, idf |-> b.weights # None,
                docs |-> [i \in DOMAIN b.docs |-> [path |-> b.docs[i].path,
                                                   mtime |-> b.docs[i].mtime,
                                                   size |-> Size[b.docs[i].word]]]]
    /\ b' = [Idle EXCEPT !.run = b.run]
    /\ fresh' = b.quiet
    /\ UNCHANGED <<workspace, postings, lexicon, df, overlay>>

\* build_overlay: the changed files' documents come after the base's, the base
\* documents of every changed or deleted path are tombstoned.
Tombstones ==
    {i \in DOMAIN b.meta.docs :
        \/ b.meta.docs[i].path \in b.gone
        \/ \E j \in DOMAIN b.docs : b.docs[j].path = b.meta.docs[i].path}

PublishOvPostings ==
    /\ Scanned("overlay")
    /\ ovPost' = [run |-> b.run, words |-> Words(b.docs), weights |-> b.weights,
                  base |-> Len(b.meta.docs)]
    /\ b' = [b EXCEPT !.pc = "ov_lexicon"]
    /\ UNCHANGED <<workspace, base, ovLex, tombs, ovMeta, fresh>>

PublishOvLexicon ==
    /\ b.pc = "ov_lexicon"
    /\ ovLex' = b.run
    /\ b' = [b EXCEPT !.pc = "ov_tombs"]
    /\ UNCHANGED <<workspace, base, ovPost, tombs, ovMeta, fresh>>

PublishTombs ==
    /\ b.pc = "ov_tombs"
    /\ tombs' = [run |-> b.run, ids |-> Tombstones]
    /\ b' = [b EXCEPT !.pc = "ov_meta"]
    /\ UNCHANGED <<workspace, base, ovPost, ovLex, ovMeta, fresh>>

PublishOvMeta ==
    /\ b.pc = "ov_meta"
    /\ ovMeta' = [run |-> b.run, baseRun |-> b.meta.run, base |-> Len(b.meta.docs),
                  paths |-> [i \in DOMAIN b.docs |-> b.docs[i].path]]
    /\ b' = [Idle EXCEPT !.run = b.run, !.asked = b.asked]
    /\ fresh' = b.quiet
    /\ UNCHANGED <<workspace, base, ovPost, ovLex, tombs>>

\* The builder dies, or an I/O error ends it; another process takes the lock over.
Crash ==
    /\ "crash" \in Env
    /\ b.pc # "idle"
    /\ b' = [Idle EXCEPT !.run = b.run]
    /\ fresh' = FALSE
    /\ UNCHANGED <<workspace, base, overlay>>

-----------------------------------------------------------------------------
Build ==
    \/ Start \/ DecideWithoutLooking \/ Decide \/ ClearOverlay
    \/ ReadFile \/ StatFile
    \/ PublishPostings \/ PublishLexicon \/ TruncateDf \/ WriteDf \/ PublishMeta
    \/ PublishOvPostings \/ PublishOvLexicon \/ PublishTombs \/ PublishOvMeta
    \/ Crash

Environment ==
    \/ \E f \in File : Edit(f)
    \/ Commit
    \/ \E c \in DOMAIN trees : Checkout(c)

Next == Build \/ Environment

Spec == Init /\ [][Next]_vars

-----------------------------------------------------------------------------
(* What a reader that opens the index now would find *)

\* The weights a query is cut with: those on disk if the base was built with any.
QueryWeights == IF meta.idf THEN Weights ELSE None

\* postings.bin, lexicon.bin and metadata.bin are of one build.
BaseAligned ==
    /\ meta # None /\ postings # None /\ lexicon # None
    /\ postings.run = meta.run /\ lexicon.run = meta.run

\* The base was cut into n-grams the way queries are.
SameWeights == postings.weights = QueryWeights

Indexed(f, w) ==
    \/ \E i \in DOMAIN meta.docs :
          /\ meta.docs[i].path = f /\ postings.words[i] = w
          /\ OverlayOpens /\ tombs # None => i \notin tombs.ids
    \/ OverlayOpens /\ \E i \in DOMAIN ovMeta.paths :
          ovMeta.paths[i] = f /\ ovPost.words[i] = w

-----------------------------------------------------------------------------
(* Properties *)

\* The type invariant.
TypeOK ==
    /\ disk \in [File -> Content]
    /\ mtime \in [File -> 0 .. clock] /\ clock \in 0 .. MaxEdits
    /\ trees \in Seq([File -> Content]) /\ head \in DOMAIN trees \cup {None}
    /\ lexicon # None => lexicon.run \in 1 .. b.run
    /\ ovLex \in 1 .. b.run \cup {None}
    /\ postings # None => postings.words \in Seq(Word \ Binary)
    /\ ovPost # None => ovPost.words \in Seq(Word \ Binary)
    /\ meta # None => \A i \in DOMAIN meta.docs : meta.docs[i].path \in File
    /\ b.run \in 0 .. MaxBuilds
    /\ b.todo \subseteq File /\ b.gone \subseteq File
    /\ fresh \in BOOLEAN /\ b.asked \in BOOLEAN

\* A project that has not changed since before its last completed build is in the
\* index with every text file at its present content: detection missed nothing,
\* overlay and tombstones agree with the base they belong to.  A file saved between
\* the builder's read and its stat is recorded with the old content's length and the
\* new mtime; it is found again by its length, so saves in that window have to change
\* it.  The base must be of one build (NoTornIndex) and cut with the weights queries
\* use (QueriesUseBuildWeights).
RacesShow ==
    "race" \in Env => \A v, w \in Word : Size[v] = Size[w] => v = w
FreshIsComplete ==
    RacesShow /\ fresh /\ b.pc = "idle" /\ BaseAligned /\ SameWeights =>
        \A f \in File : disk[f] \in Word \ Binary => Indexed(f, disk[f])

\* The same where git finds the changes, for a base that was indexed from a clean
\* checkout and paths that git prints as they are: a file the two commits agree on
\* and git status does not list is in the base as it is.  Where git status fails, what
\* is changed and not committed stays unseen, every other file is found all the same;
\* where git diff fails, everything is rebuilt.  The last build must have written the
\* overlay: one that finds nothing to do keeps an overlay about changes since undone.
BuiltClean ==
    /\ meta.commit # None /\ Misnamed = {}
    /\ \A f \in File :
          LET known == {i \in DOMAIN meta.docs : meta.docs[i].path = f}
          IN  IF trees[meta.commit][f] \in Word \ Binary
              THEN \E i \in known : postings.words[i] = trees[meta.commit][f]
              ELSE known = {}

CleanCommitIsComplete ==
    /\ fresh /\ b.pc = "idle" /\ BaseAligned /\ SameWeights /\ BuiltClean
    /\ (OverlayOpens => ovMeta.run = b.run)
    => \A f \in File : disk[f] \in Word \ Binary /\ (b.asked \/ disk[f] = trees[head][f])
                           => Indexed(f, disk[f])

\* "Query must use the same weighting to produce matching ngrams"
\* (src/src/index/metadata.rs:23).
QueriesUseBuildWeights == b.pc = "idle" /\ BaseAligned => SameWeights

\* What a build leaves behind when it ends, up to date or rebuilt, is no "torn index"
\* (src/src/index/lock.rs:6), whatever an earlier one that died had published.
NoTornIndex == fresh /\ b.pc = "idle" => BaseAligned

\* Whatever there is of an overlay on disk, published in part or half removed, is about
\* the base whose metadata is there, also after crashes: it numbers its documents after
\* that base's and its tombstones are documents of it.
OverlayFitsBase ==
    /\ ovMeta # None => meta # None /\ ovMeta.baseRun = meta.run
    /\ ovPost # None => meta # None /\ ovPost.base = Len(meta.docs)
    /\ tombs # None => meta # None /\ tombs.ids \subseteq DOMAIN meta.docs
=============================================================================
