---------------------------- MODULE CacheRegistry ----------------------------
(***************************************************************************)
(* The index cache of src/src/cache.rs: one entry per project under        *)
(* projects/, each with a cache-meta.json that says whose it is and when   *)
(* it was last used, the by-name links, manifest.json, and the collectors  *)
(* that remove entries, automatically or on request, while other processes *)
(* build and use them.                                                     *)
(***************************************************************************)
EXTENDS Integers, FiniteSets, FiniteSetsExt

CONSTANTS
    Proc,      \* the ig processes
    Project,   \* the projects, each with one entry
    Name,      \* the slugs of the projects' directory names
    NameOf,    \* [Project -> Name]
    Size,      \* [Project -> Nat]: what an entry takes on disk
    MaxAge,    \* cache.auto_gc_days and --days
    Cap,       \* cache.auto_gc_max_size_mb and --max-size-mb
    Interval,  \* cache.auto_gc_interval_secs
    None,
    MaxNow,    \* bound: the clock
    MaxOps,    \* bound: commands that run
    MaxFaults  \* bound: processes that die, projects removed or restored

ASSUME RegistryAssumption ==
    /\ NameOf \in [Project -> Name] /\ Size \in [Project -> Nat]
    /\ {MaxAge, Cap, Interval, MaxNow, MaxOps, MaxFaults} \subseteq Nat
    /\ Name \cap Project = {}
    /\ None \notin {"build", "touch", "gc", "auto"} \cup Project
    /\ IsFiniteSet(Proc) /\ None \notin 1 .. Cardinality(Proc) + 1

VARIABLES
    clock,
    rooted,    \* projects whose directory exists
    dirs,      \* entries that exist
    meta,      \* [Project -> cache-meta.json: NoMeta, Torn, or last_used_at]
    indexed,   \* entries that hold a published index
    building,  \* entries that hold a builder's lock file
    link,      \* by-name: a slug, or a slug with project e's hash (written e)
    file,      \* [Inode -> the projects a manifest lists, or Cut]
    tmp,       \* manifest.json.tmp and manifest.json: an inode or None
    manifest,
    gcLock,    \* .gc.lock exists
    stamp,     \* .gc-last-run: a time or None
    proc,      \* [Proc -> what it is doing]
    budget,    \* history: commands and faults left
    solo       \* scenario: the process that has the cache to itself and never dies,
               \* or None

disk == <<dirs, meta, indexed, building, link, file, tmp, manifest, gcLock, stamp>>
world == <<clock, rooted, budget, solo>>
vars == <<disk, world, proc>>

NoMeta == -1
Torn == -2
Cut == {None}   \* a manifest of which the body is not written
Inode == 1 .. Cardinality(Proc) + 1
Readable(e) == meta[e] >= 0

Resting == [pc |-> "idle", op |-> None, e |-> None, now |-> 0, new |-> FALSE,
            seen |-> <<>>, todo |-> {}, drop |-> {}, fd |-> None, lists |-> {}]

Init ==
    /\ clock = 0 /\ rooted = Project
    /\ dirs = {} /\ meta = [e \in Project |-> NoMeta]
    /\ indexed = {} /\ building = {}
    /\ link = [n \in Name \cup Project |-> None]
    /\ file = [i \in Inode |-> Cut] /\ tmp = None /\ manifest = None
    /\ gcLock = FALSE /\ stamp = None
    /\ proc = [p \in Proc |-> Resting]
    /\ solo \in Proc \cup {None}
    /\ budget = [ops |-> MaxOps, faults |-> MaxFaults]

At(p, label) == proc[p].pc = label
Go(p, label) == proc' = [proc EXCEPT ![p].pc = label]
Rest(p) == proc' = [proc EXCEPT ![p] = Resting]

-----------------------------------------------------------------------------
(* The projects, the clock, and processes that come and go *)

Tick == /\ clock < MaxNow /\ clock' = clock + 1
        /\ UNCHANGED <<disk, rooted, budget, solo, proc>>

MoveRoot(e) ==
    /\ budget.faults > 0 /\ budget' = [budget EXCEPT !.faults = @ - 1]
    /\ rooted' = IF e \in rooted THEN rooted \ {e} ELSE rooted \cup {e}
    /\ UNCHANGED <<disk, clock, solo, proc>>

\* A process dies and its Drop does not run: .gc.lock stays for ever; the next
\* builder takes the build lock of a dead one (BuildLock).
Crash(p) ==
    /\ ~At(p, "idle") /\ solo = None
    /\ budget.faults > 0 /\ budget' = [budget EXCEPT !.faults = @ - 1]
    /\ building' = IF proc[p].op = "build" THEN building \ {proc[p].e} ELSE building
    /\ Rest(p)
    /\ UNCHANGED <<clock, rooted, solo, dirs, meta, indexed, link, file, tmp, manifest,
                   gcLock, stamp>>

Start(p, op, e, label) ==
    /\ At(p, "idle") /\ solo \in {p, None} /\ budget.ops > 0
    /\ budget' = [budget EXCEPT !.ops = @ - 1]
    /\ proc' = [proc EXCEPT ![p] = [Resting EXCEPT !.pc = label, !.op = op, !.e = e,
                                                   !.now = clock]]
    /\ UNCHANGED <<clock, rooted, solo>>

-----------------------------------------------------------------------------
(* build_index: the entry appears with its lock, its index, and last its meta *)

\* The build lock lies in the entry; whoever finds it waits (BuildLock).
BeginBuild(p, e) ==
    /\ e \in rooted /\ e \notin building
    /\ Start(p, "build", e, "publish")
    /\ dirs' = dirs \cup {e} /\ building' = building \cup {e}
    /\ UNCHANGED <<meta, indexed, link, file, tmp, manifest, gcLock, stamp>>

EndBuild(e) == building' = building \ {e}

\* Mutant: the build does not notice that its directory is gone.
PublishAnyway(p) ==
    /\ At(p, "publish")
    /\ indexed' = indexed \cup {proc[p].e} /\ Go(p, "write_meta")
    /\ UNCHANGED <<world, dirs, meta, building, link, file, tmp, manifest, gcLock, stamp>>

\* Without its directory the build fails.
Publish(p) == LET e == proc[p].e IN
    /\ At(p, "publish")
    /\ IF e \in dirs THEN /\ indexed' = indexed \cup {e} /\ Go(p, "write_meta")
                          /\ UNCHANGED building
                     ELSE Rest(p) /\ EndBuild(e) /\ UNCHANGED indexed
    /\ UNCHANGED <<world, dirs, meta, link, file, tmp, manifest, gcLock, stamp>>

\* create_dir_all, read_meta, and fs::write, which empties the file first.
OpenMeta(p) == LET e == proc[p].e IN
    /\ At(p, "write_meta")
    /\ dirs' = dirs \cup {e} /\ meta' = [meta EXCEPT ![e] = Torn]
    /\ proc' = [proc EXCEPT ![p].pc = "meta_body", ![p].new = ~Readable(e), ![p].now = clock]
    /\ UNCHANGED <<world, indexed, building, link, file, tmp, manifest, gcLock, stamp>>

\* The body goes to the file that was opened; one removed meanwhile is gone.
WriteMeta(p) == LET e == proc[p].e IN
    /\ At(p, "meta_body")
    /\ meta' = [meta EXCEPT ![e] = IF @ = NoMeta THEN @ ELSE proc[p].now]
    /\ IF proc[p].op = "touch" THEN Rest(p) ELSE Go(p, "link")
    /\ UNCHANGED <<world, dirs, indexed, building, link, file, tmp, manifest, gcLock, stamp>>

\* Mutant: a link that leads elsewhere is taken for a stale one.
LinkBySlug(p) == LET e == proc[p].e IN
    /\ At(p, "link")
    /\ link' = [link EXCEPT ![NameOf[e]] = e]
    /\ IF proc[p].new THEN Go(p, "list_manifest") /\ UNCHANGED building
                      ELSE Rest(p) /\ EndBuild(e)
    /\ UNCHANGED <<world, dirs, meta, indexed, file, tmp, manifest, gcLock, stamp>>

\* The slug, or the slug with the hash when another project has the slug.
EnsureLink(p) == LET e == proc[p].e  slug == NameOf[e] IN
    /\ At(p, "link")
    /\ link' = CASE link[slug] = e -> link
                 [] link[slug] = None -> [link EXCEPT ![slug] = e]
                 [] OTHER -> [link EXCEPT ![e] = e]
    /\ IF proc[p].new THEN Go(p, "list_manifest") /\ UNCHANGED building
                      ELSE Rest(p) /\ EndBuild(e)
    /\ UNCHANGED <<world, dirs, meta, indexed, file, tmp, manifest, gcLock, stamp>>

(* touch, from ensure_index when the index needs no build *)
Touch(p, e) ==
    /\ e \in indexed /\ Readable(e)
    /\ Start(p, "touch", e, "touch") /\ UNCHANGED disk

TouchMeta(p) == LET e == proc[p].e IN
    /\ At(p, "touch")
    /\ IF e \in dirs
       THEN /\ meta' = [meta EXCEPT ![e] = Torn]
            /\ proc' = [proc EXCEPT ![p].pc = "meta_body", ![p].now = clock]
       ELSE Rest(p) /\ UNCHANGED meta
    /\ UNCHANGED <<world, dirs, indexed, building, link, file, tmp, manifest, gcLock, stamp>>

-----------------------------------------------------------------------------
(* rebuild_manifest: manifest.json.tmp, then rename *)

ListManifest(p) ==
    /\ At(p, "list_manifest")
    /\ proc' = [proc EXCEPT ![p].pc = "open_tmp",
                            ![p].lists = {e \in dirs : Readable(e)}]
    /\ UNCHANGED <<world, disk>>

\* fs::write empties the file that has the name, or makes one.
OpenTmp(p) ==
    /\ At(p, "open_tmp")
    /\ LET inode == IF tmp /= None THEN tmp
                    ELSE CHOOSE i \in Inode : i /= manifest /\ \A q \in Proc : proc[q].fd /= i
       IN  /\ tmp' = inode /\ file' = [file EXCEPT ![inode] = Cut]
           /\ proc' = [proc EXCEPT ![p].pc = "write_tmp", ![p].fd = inode]
    /\ UNCHANGED <<world, dirs, meta, indexed, building, link, manifest, gcLock, stamp>>

WriteTmp(p) ==
    /\ At(p, "write_tmp")
    /\ file' = [file EXCEPT ![proc[p].fd] = proc[p].lists]
    /\ proc' = [proc EXCEPT ![p].pc = "rename", ![p].fd = None]
    /\ UNCHANGED <<world, dirs, meta, indexed, building, link, tmp, manifest, gcLock, stamp>>

\* Another process may have renamed the file away: an error, which is ignored.
RenameTmp(p) ==
    /\ At(p, "rename")
    /\ manifest' = IF tmp = None THEN manifest ELSE tmp
    /\ tmp' = None
    /\ IF proc[p].op = "auto" THEN Go(p, "stamp") /\ UNCHANGED building
       ELSE /\ Rest(p)
            /\ building' = IF proc[p].op = "build" THEN building \ {proc[p].e} ELSE building
    /\ UNCHANGED <<world, dirs, meta, indexed, link, file, gcLock, stamp>>

-----------------------------------------------------------------------------
(* gc on request, auto_gc at the start of every other command *)

Collect(p) == Start(p, "gc", None, "list") /\ UNCHANGED disk

\* Mutant: the lock file is opened with create, not create_new.
TryAutoShared(p) ==
    /\ gcLock' = TRUE
    /\ Start(p, "auto", None, "rate")
    /\ UNCHANGED <<dirs, meta, indexed, building, link, file, tmp, manifest, stamp>>

\* try_cache_lock: whoever finds the file lets be.
TryAuto(p) ==
    /\ ~gcLock /\ gcLock' = TRUE
    /\ Start(p, "auto", None, "rate")
    /\ UNCHANGED <<dirs, meta, indexed, building, link, file, tmp, manifest, stamp>>

RateLimit(p) ==
    /\ At(p, "rate")
    /\ IF stamp /= None /\ clock - stamp < Interval
       THEN Rest(p) /\ gcLock' = FALSE
       ELSE /\ proc' = [proc EXCEPT ![p].pc = "list", ![p].now = clock]
            /\ UNCHANGED gcLock
    /\ UNCHANGED <<world, dirs, meta, indexed, building, link, file, tmp, manifest, stamp>>

\* list_entries: the directory, then the meta of one entry after the other.
ListEntries(p) ==
    /\ At(p, "list")
    /\ proc' = [proc EXCEPT ![p].pc = "read", ![p].todo = dirs,
                            ![p].seen = [e \in dirs |-> NoMeta]]
    /\ UNCHANGED <<world, disk>>

ReadEntry(p) ==
    /\ At(p, "read")
    /\ \E e \in proc[p].todo :
          proc' = [proc EXCEPT ![p].todo = @ \ {e}, ![p].seen[e] = meta[e]]
    /\ UNCHANGED <<world, disk>>

\* No meta, no project, or unused for MaxAge.
Condemned(seen, now) ==
    {e \in DOMAIN seen : seen[e] < 0 \/ e \notin rooted \/ now - seen[e] > MaxAge}

Decide(p) ==
    /\ At(p, "read") /\ proc[p].todo = {}
    /\ proc' = [proc EXCEPT ![p].pc = "prune",
                            ![p].drop = Condemned(proc[p].seen, proc[p].now)]
    /\ UNCHANGED <<world, disk>>

Kept(p) == DOMAIN proc[p].seen \ proc[p].drop
SizeOf(S) == MapThenSumSet(LAMBDA e : Size[e], S)

\* Mutant: entries go in the order of the directory.
PruneAny(p) ==
    /\ At(p, "prune") /\ SizeOf(Kept(p)) > Cap
    /\ \E e \in Kept(p) : proc' = [proc EXCEPT ![p].drop = @ \cup {e}]
    /\ UNCHANGED <<world, disk>>

\* The size cap: the least recently used go until the rest fits.
PruneOne(p) ==
    /\ At(p, "prune") /\ SizeOf(Kept(p)) > Cap
    /\ \E e \in Kept(p) :
          /\ \A o \in Kept(p) : proc[p].seen[e] <= proc[p].seen[o]
          /\ proc' = [proc EXCEPT ![p].drop = @ \cup {e}]
    /\ UNCHANGED <<world, disk>>

Pruned(p) ==
    /\ At(p, "prune") /\ (SizeOf(Kept(p)) <= Cap \/ Kept(p) = {})
    /\ IF proc[p].drop /= {}
       THEN proc' = [proc EXCEPT ![p].pc = "remove", ![p].todo = proc[p].drop]
       ELSE IF proc[p].op = "auto" THEN Go(p, "stamp") ELSE Rest(p)
    /\ UNCHANGED <<world, disk>>

\* remove_dir_all, which may stop half way when a builder writes meanwhile.
Remove(p) ==
    /\ At(p, "remove")
    /\ \E e \in proc[p].todo :
          /\ proc' = [proc EXCEPT ![p].todo = @ \ {e},
                                  ![p].pc = IF proc[p].todo = {e} THEN "wipe" ELSE @]
          /\ dirs' \in {dirs \ {e}} \cup (IF e \in building THEN {dirs} ELSE {})
          /\ meta' = [meta EXCEPT ![e] = NoMeta]
          /\ indexed' = indexed \ {e} /\ building' = building \ {e}
    /\ UNCHANGED <<world, link, file, tmp, manifest, gcLock, stamp>>

\* rebuild_symlinks: all links go, then one per entry with meta.
Wipe(p) ==
    /\ At(p, "wipe")
    /\ link' = [n \in DOMAIN link |-> None]
    /\ proc' = [proc EXCEPT ![p].pc = "relink", ![p].todo = dirs, ![p].lists = {}]
    /\ UNCHANGED <<world, dirs, meta, indexed, building, file, tmp, manifest, gcLock, stamp>>

\* A slug is used once; symlink does not replace a link.
Relink(p) ==
    /\ At(p, "relink")
    /\ \E e \in proc[p].todo :
          LET slug == IF NameOf[e] \in proc[p].lists THEN e ELSE NameOf[e] IN
          /\ proc' = [proc EXCEPT ![p].todo = @ \ {e},
                                  ![p].lists = IF Readable(e) THEN @ \cup {slug} ELSE @]
          /\ link' = IF Readable(e) /\ link[slug] = None
                     THEN [link EXCEPT ![slug] = e] ELSE link
    /\ UNCHANGED <<world, dirs, meta, indexed, building, file, tmp, manifest, gcLock, stamp>>

Relinked(p) ==
    /\ At(p, "relink") /\ proc[p].todo = {}
    /\ Go(p, "list_manifest") /\ UNCHANGED <<world, disk>>

\* The stamp holds the time the collection began; then Drop unlocks.
Stamp(p) ==
    /\ At(p, "stamp")
    /\ stamp' = proc[p].now /\ Go(p, "unlock")
    /\ UNCHANGED <<world, dirs, meta, indexed, building, link, file, tmp, manifest, gcLock>>

Unlock(p) ==
    /\ At(p, "unlock")
    /\ gcLock' = FALSE /\ Rest(p)
    /\ UNCHANGED <<world, dirs, meta, indexed, building, link, file, tmp, manifest, stamp>>

-----------------------------------------------------------------------------
Step(p) ==
    \/ \E e \in Project : BeginBuild(p, e) \/ Touch(p, e)
    \/ Publish(p) \/ OpenMeta(p) \/ WriteMeta(p) \/ EnsureLink(p) \/ TouchMeta(p)
    \/ ListManifest(p) \/ OpenTmp(p) \/ WriteTmp(p) \/ RenameTmp(p)
    \/ Collect(p) \/ TryAuto(p) \/ RateLimit(p)
    \/ ListEntries(p) \/ ReadEntry(p) \/ Decide(p) \/ PruneOne(p) \/ Pruned(p) \/ Remove(p)
    \/ Wipe(p) \/ Relink(p) \/ Relinked(p) \/ Stamp(p) \/ Unlock(p)

Next == \/ Tick
        \/ \E e \in Project : MoveRoot(e)
        \/ \E p \in Proc : Crash(p) \/ Step(p)

Spec == Init /\ [][Next]_vars

-----------------------------------------------------------------------------
(* Properties *)

\* The state is well formed.
TypeOK ==
    /\ clock \in 0 .. MaxNow /\ rooted \subseteq Project
    /\ dirs \subseteq Project /\ indexed \subseteq dirs /\ building \subseteq Project
    /\ meta \in [Project -> {NoMeta, Torn} \cup 0 .. MaxNow]
    /\ link \in [Name \cup Project -> Project \cup {None}]
    /\ file \in [Inode -> (SUBSET Project) \cup {Cut}]
    /\ {tmp, manifest} \subseteq Inode \cup {None}
    /\ gcLock \in BOOLEAN /\ stamp \in 0 .. MaxNow \cup {None}
    /\ \A p \in Proc : proc[p].drop \subseteq Project /\ proc[p].fd \in Inode \cup {None}

\* A step that lets one automatic collection run, and stamps in time.
Spaced ==
    /\ Cardinality({p \in Proc : proc'[p].op = "auto"}) <= 1
    /\ stamp /= None /\ stamp' /= stamp => stamp' - stamp >= Interval

\* Two automatic collections never overlap, and one begins no earlier than
\* Interval after the one before it began, whoever ran it and whoever died.
CollectionsSpaced == [][Spaced]_vars

\* The size cap never takes an entry and leaves one that was used less recently.
PrunesTheOldest ==
    \A p \in Proc : At(p, "prune") /\ budget.faults = MaxFaults =>
        \A e \in proc[p].drop, kept \in Kept(p) :
            proc[p].seen[e] >= 0 => proc[p].seen[e] <= proc[p].seen[kept]

\* Of a cache that one process at a time uses, and that sees it through: every
\* entry with meta has an index and a link, every link leads to an entry, and
\* the manifest lists the entries.
SoloRegistryIsExact ==
    solo /= None /\ At(solo, "idle") =>
        /\ \A e \in Project : Readable(e) => e \in indexed /\ \E n \in DOMAIN link : link[n] = e
        /\ \A n \in DOMAIN link : link[n] /= None => link[n] \in dirs
        /\ {e \in Project : Readable(e)} = IF manifest = None THEN {} ELSE file[manifest]

\* What README.md says of gc: it drops entries whose root is gone or that were
\* not used for MaxAge.
GcDropsOnlyUnused ==
    [][\A e \in dirs \ dirs' :
          e \notin rooted \/ (Readable(e) /\ clock - meta[e] > MaxAge)]_vars

\* What write_meta says of the manifest: concurrent index builds do not tear it.
ManifestIsWhole == manifest /= None => file[manifest] /= Cut

=============================================================================
