# Formal models of instant-grep

instant-grep (`ig`) is a code search tool. Every command is a process of its own:
it finds the project's root, keeps a sparse n-gram index of the project in a cache
directory, and answers searches from it. Around that it rewrites shell commands,
runs tools and shortens what they print, records what it saved, and installs itself
into the configuration of coding agents. Nothing coordinates the processes but the
files they share, so one half of what is hard about `ig` is what several processes,
and the editors, git commands and agents of the user, do to those files in an order
nobody tested; the other half are the algorithms on which "no match is missed" and
"no text is changed" rest. The models in this directory are about both.

All paths are relative to the repository; `src/...` is its Rust source.

## Inventory

| component | state | operations | hard behaviour | what makes it correct | module |
|---|---|---|---|---|---|
| build lock (`src/index/lock.rs`) | `index.lock` with a pid | acquire, steal when stale, drop | processes race, die, are slow; pids run again | one builder at a time; a live holder is not robbed; waiting ends | `BuildLock` |
| index writer (`src/index/writer.rs`) | `postings.bin`, `lexicon.bin`, `bigram_df.bin`, `metadata.bin` | decide, rebuild, overlay | files change while they are read; death between two renames; git as a source of truth | an index left as up to date has every file as it is | `IndexBuilder` |
| overlay (`src/index/overlay.rs`) | `overlay.bin`, `overlay_lex.bin`, `tombstones.bin`, `overlay_meta.bin` | build, clear, open, look up | four renames, four removals | belongs to the base it numbers its documents after | `IndexBuilder`, `IndexSearch` |
| reader and search (`reader.rs`, `src/search/`, `do_search`) | what a search has opened | check, open, resolve, verify, brute force | opens file after file while a builder renames over them | misses no file that holds the pattern | `IndexSearch` |
| n-grams, planner (`ngram.rs`, `query/`, `reader.rs`) | none | cut texts and queries, masks, choose a query, resolve | equal weights, position masks, anchors, overlay | no false negatives | `Ngrams`, `IndexQuery` |
| codecs and lists (`vbyte.rs`, `postings.rs`) | none | encode, skip, intersect, union | block boundaries, ends of lists | decode is the inverse of encode; the sets are computed | `Postings` |
| segments and tables (`spimi.rs`, `merge.rs`, `overlay.rs`) | segments, a hash table on disk | flush, k-way merge, build table, probe | flush in the middle, full tables, wrapped offsets | each key finds its list | `Segments` |
| cache (`cache.rs`) | entries with `cache-meta.json`, links, `manifest.json`, `.gc.lock`, a stamp | build, touch, collect, rebuild links and manifest | collection during builds, half-written files, dead collectors | collections keep apart; registry and entries agree | `CacheRegistry` |
| cache layout (`cache.rs`) | `.layout.lock`, `.layout-v1`, old and new entries | migrate, steal, wait | two migrations, dead holders, failures | nothing is lost; the marker tells the truth; nobody waits for ever | `CacheLayout` |
| run records (`runner.rs`, `tee.rs`, `trust.rs`, `tracking.rs`, `analytics/`) | outputs, `trusted.json`, `history.jsonl`, a table, a marker | record, rotate, trust, migrate | every file is read and written by several processes that die | only approved filters; no run is lost; an append-only log | `RunRecords`, `History` |
| setup and uninstall (`setup/`, `uninstall.rs`, `update.rs`) | other programs' rule files, hook lists, scripts | install, refresh, remove | users edit the same files; runs die; older versions | idempotent, current, removable, the user's text stays | `AgentFiles`, `AgentSetup` |
| command rewriting and permissions (`rewrite.rs`, `hooks/permissions.rs`) | none | split, quote, rewrite, decide | quotes, redirects, options with values | the command still asks the same; files only tighten | `ShellText`, `Rewriting` |
| filters and tool output (`filter/`, `cmds/`, `delta.rs`) | none | filter, parse, count, route arguments | interleaved events, dying tools, overlapping caps | nothing shown is invented, nothing dropped is untold | `OutputFilter`, `ToolOutput`, `Markdown` |
| matching and printing (`matcher.rs`, `printer.rs`) | caps | match, context, cut, limit | several matches in a line, ends of files | each line once, each mark a match | `Matching` |
| reading (`read.rs`, `context.rs`, `scoring.rs`, `filedata.rs`) | none | elide bodies, find blocks, fit a budget | quotes, nesting, duplicates | what is left out is what was meant to be | `Reading`, `Blocks`, `Compressing` |
| names and neighbours (`semantic/`) | a table of pairs | split, count | acronyms, window edges | query and index split alike | `Cooccurrence` |
| projects and sessions (`util.rs`, `autoignore.rs`, `learn.rs`) | `.igignore` | find root, detect, mine corrections | nested projects, results out of order | one root per project | `Projects`, `Sessions` |

The rest (git host, cloud and package wrappers, summaries, packing, reports, ranking,
telemetry, the embedding experiment) keeps no state and computes nothing that other
parts rely on; see *Not modelled*. `PROJECT.json` lists every component, and the
hazards of the code at their lines with the properties that cover them.

A search (`do_search`) reads the index without any lock; a build (`build_index`)
takes the build lock first, and its last act is to register the entry in the cache. A
search that finds no usable index scans all files and starts a build in the
background. Every command but a few begins with `ensure_layout` and `auto_gc`. The
builder reads the files that users edit, and asks git what changed. A wrapped command
goes from the shell through the rewriter to a wrapper, whose output is filtered, kept
and recorded.

## Modules

    BuildLock       <- MCBuildLock        the lock                 BuildLockProofs
    IndexBuilder    <- MCIndexBuilder     a builder under it       IndexBuilderProofs
       ^-- IndexSearch <- MCIndexSearch   a search beside it       IndexSearchProofs
    CacheRegistry   <- MCCache            entries and collectors   CacheRegistryProofs
    CacheLayout                           the migration            CacheLayoutProofs
    AgentFiles <- AgentSetup <- MCSetup   edits of agents' files   AgentSetupProofs
    History <-(INSTANCE)- RunRecords <- MCRecords                  RunRecordsProofs

    MCAlgorithms                          feeds the pure parts growing inputs:
      IndexData        Ngrams, Postings, Segments, IndexQuery
      Commands         ShellText, Rewriting, OutputFilter, ToolOutput
                                          (with Postings)      AlgorithmProofs
      Sources          Matching, Reading, Blocks, Compressing, Cooccurrence
      Surroundings     Projects, Sessions, Markdown

### BuildLock

One action per system call of `IndexLock::acquire`, `holder_is_stale` and `Drop`:
`CreateNew`/`CreateExists` (open with `create_new`), `WritePid`, `Stat`, `ReadPid`,
`Probe` (`kill(pid, 0)`), `Steal` (`remove_file`, `continue`), `CheckDeadline`, `Drop`.
`Crash`, `Recycle` and `Tick` are the environment. Since a process takes the lock at
most once, the creator of a lock file stands for the file itself: `owner` is the inode
now at the path, and the `files` of a verdict are those that `stat` and `read` saw.
Time is the age of the file and the waiting time of each process, both saturating one
past the limit they are compared with. That is exact, since nothing else reads them.
The environment's freedom is the constant `Faults`; without `slow_build` and
`slow_start` time does not pass a holder's limits (`STALE_AGE`: "no build legitimately
takes 10 minutes", lock.rs:22; `PID_WRITE_GRACE`).

* `MutualExclusion`: what lock.rs:29 says, and the run `lock_robbed` finds it violated
  with three builders and no fault: p1 stat's and reads the lock of a p2 that finishes,
  p3 creates the lock, then p1 removes the path, which is now p3's file, and creates its
  own. (With two builders there is no third whose file could be in the way.)
* `OneUnrobbedHolder`: what is left of it. Two hold the lock only if the file of one
  of them has been removed by somebody else (`robbed`). It allows the robberies, of the
  run above and by a verdict on a slow builder; it says that there is no other way.
* `VerdictsAreSound`: the staleness rules are not to blame; with prompt builders no
  verdict formed from one lock file is wrong about its creator.
* `WaitEnds`: every process that waits stops waiting. (With the fault `denied`, a
  stale file that cannot be removed, it does not: `continue` skips the deadline. No run
  includes that fault; the theorems do.)

### IndexBuilder

`build_index` with everything it reads and writes, one action per file system operation
that another process, a crash or an edit could come in between. A file's content is one
word and a search asks for one word; an n-gram's posting list becomes the documents that
hold a word, usable with the lexicon of the same build (`run`) and with the bigram
weights it was cut with (`weights`). `Start` reads metadata and HEAD;
`DecideWithoutLooking` and `Decide` are the branches of `build_index` and
`check_and_rebuild` with `Changed` (`StatChanged` compares mtimes and lengths,
`GitChanged` asks git when HEAD moved, `GoesByGit`), the comparison of file counts and
`NeedsCompaction` (more overlay files than a limit, or than the base's by a factor);
`ClearOverlay` is one removal at a time; `ReadFile` and `StatFile` are the read and the
later stat of each file: the length in the metadata is that of what was read, the mtime
is taken afterwards (`Size` says which words have the same length); then each published
artifact has its action, in the code's order. `bigram_df.bin` has two, since it is
written in place. Segments, merge and tables are inside `PublishPostings` and
`PublishLexicon` here, and algorithms of their own in `Segments`. `Edit`, `Commit` and
`Checkout` are users; `Misnamed` are the files git prints under another name (quoted, or
as their untracked directory). In an `unruly` environment git fails: without HEAD the
builder compares files, without an answer of `git diff` it rebuilds, when `git status`
ends with an error it goes by `git diff` alone, and it does not know what is changed and
not committed (`asked`).

* `FreshIsComplete`: if nothing has changed since before the last completed build
  (`fresh`), every text file is in the index as it is. It relates change detection,
  overlay, tombstones and base over several builds. A save between the builder's read and
  its stat is found by its length; one that keeps the length is not, ever, so that
  where files race the words differ in length (`RacesShow`). It is stated for a base of
  one build and of the queries' weights; `NoTornIndex` and `QueriesUseBuildWeights` say
  that this is so, and both fail.
* `OverlayFitsBase`: whatever there is of an overlay on disk, published in part or half
  removed, is about the base whose metadata is there, also after crashes in
  `clear_overlay` or in the rebuild after it.
* `CleanCommitIsComplete`: the same completeness when HEAD moves, for a base built
  from a clean checkout (without that condition it fails), and whichever call of git
  fails: only where `git status` failed is nothing said of files with changes that are
  not committed.

### IndexSearch

Extends `IndexBuilder` with a search: `LookReady` (`index_ready` of `do_search`), the
opening of each artifact in the order of `IndexReader::open` and
`OverlayReader::open`, the second load of frequencies and metadata by
`BigramDfTable::load`, `Resolve` with the 85 % escape hatch and
`IndexReader::file_path`, `Verify` against the disk, `Scan`. An opened file stays as it
was, because builders rename. A lexicon over postings of another build leads to any
set of document ids (`SomeIds`), a query cut with other weights to a part of the
documents.

* `NeverOlderThanMetadata`: the order of publishing (metadata last) and of opening
  (metadata first) fit together, for base and overlay, across crashes.
* `SearchIsComplete`: a search of a project that its last build left up to date, with
  builders at work, finds every file that holds the word, if what it opened is of one
  build and no build compacts.

### CacheRegistry

Processes that build (`BeginBuild` ... `EnsureLink`), touch and collect entries, on
request or automatically, one action per file operation: an entry's directory with its
build lock, the index, `cache-meta.json` emptied and written (`OpenMeta`,
`WriteMeta`), the by-name link, `manifest.json.tmp` opened, written and renamed as the
inodes they are, and a collection that lists, reads one meta after the other, decides,
prunes to the size cap, removes directory by directory, and rebuilds links and
manifest. `.gc.lock` is created new and removed by `Drop`, the stamp holds the time the
collection began. `solo` is the scenario of a cache that one process has to itself.

* `CollectionsSpaced`: automatic collections never overlap and begin at least the
  interval apart.
* `PrunesTheOldest`: the size cap keeps nothing that was used less recently than what
  it takes.
* `SoloRegistryIsExact`: alone, and not killed, a process leaves links, manifest and
  entries in agreement.
* `GcDropsOnlyUnused` (README.md on `ig gc`) and `ManifestIsWhole` fail beside another
  process; no run checks them.

### CacheLayout

`ensure_layout` with its lock, waiting rounds, stealing, the migration entry by entry,
the killed daemon of the old version and the marker; the command that follows it; and
`migrate_root`. Of each entry the migration asks whether the new place has one
(`Look`) and then renames, replaces or drops; the code ignores the errors of those
renames and removals, and writes the marker all the same. An entry that a failing call
has left at the root is in `faults.skipped`. A directory that was removed in part, since
the removal failed or the process died in it, is in `faults.torn`; it still counts as
newer, for the code compares the times of directories. A command goes on whatever
`ensure_layout` answered (main.rs:97), so that its build (`Command`) can put an entry at
the new place between question and rename, which then fails. `alone` is the scenario
of one command at a time.

* `NothingIsLost`: one command at a time, however many die or fail, the newest version
  of every entry is somewhere on disk, unless one of its removals was cut in half.
* `MarkedIsMigrated`: what "drop the marker LAST" is for. It fails, and
  `layout_marker` shows it without any failing call or death.
* `MarkedIsTried`: what is left of it. Once the marker is there, an entry still at the
  old place is one whose own rename or removal was tried and failed, however many
  migrations ran at once, died or stole the lock.
* `CallsEnd`: no command waits for ever, whoever died with the lock.

### AgentFiles and AgentSetup

A text is a sequence of tokens: ends of lines, ig's markers and headings, ig's body of
some version, users' lines. `AgentFiles` has the edits (`Upsert`, `Strip`, `Register`,
the removal of sections and hooks), `AgentSetup` the commands as sequences of the
writes they make to the files of all agents, users who edit in between, versions that
are updated, and runs that die between two writes. What users write is a set of words
(`Words`), what a version ships is its `Body`, and what users have before ig comes is
one of `Profiles`: the proofs are for any of each, TLC takes those of `MCSetup`.

Commands fail as well as die: a step that fails leaves the file as it is, or empty where
the code writes in place (`EmptyFile`), or overwritten as if it had been empty where a
failing read counts as an empty text (`Unread`), or the first of several scripts written
or files removed (`SomeScripts`, `SomeRemoved`), and the command goes on (`flawed`).
Texts that were written in part are not modelled: an empty file stands for them.

* `STypeOK`: a text has one whole block or none, and at most one section of an older
  ig (`WellFormed`), unless `ig uninstall` has cut it (`cut`).
* `SetupSettles`: the setup after a setup puts back one line end at most (`Unjoined`),
  and the one after it changes nothing. `SetupIsCurrent`: after a setup, what is
  installed is of this version. Both are about setups no step of which failed.
* `UninstalledIsGone`: after Claude's uninstall no block, script or hook of the modelled
  versions is there. It says nothing of what still older versions installed: that stays
  (see *Seen while modelling*).
* `KeepsWhatIsTheUsers`: the text around ig's block, hooks without a word that ig looks
  for, and the rule files ig writes only once stay as users wrote them, in order, and
  scripts are backed up. A failing step or a death costs at most the one file that is
  being written. It says nothing of hooks with such a word, nor of `rules/ig.md`: setup
  overwrites them.

### RunRecords and History

What `ig run` reads and leaves behind: filters used when `trusted.json` has their hash,
kept outputs with rotation, `history.jsonl`, the table and its one-time migration with
the marker. Runs, `ig trust`, `ig untrust` and clearing commands are processes that
interleave, fail and die between any two calls. `History` is the abstract promise of
the history, four actions long; `LogOfRuns` is the refinement.

Each call may fail, with what the code does then: an output whose write fails stays as
it is (`SaveFails`), a history that cannot be opened ends the run before the table, a
line that cannot be appended does not (`AppendLine`), a database that cannot be opened
or refuses the record ends it with a message (`GiveUp`), a migration that cannot read
the history or meets a failing statement is marked as done, one without a database is not
(`EnsureMigrated`, `MigrateFails`). A write that fails after part of a line of the history
is left out.

* `RTypeOK`: besides types, that a run has one line at most, and that a kept output
  which is not whole has a writer, or had one that died or failed at it (`past.cut`):
  readers of outputs cannot tell, and nothing removes such an output before its time.
* `OnlyTrustedFilters`: a filter passes the check only with a content that somebody
  approved. An approval that was taken back and comes back by a concurrent `ig trust` is
  not excluded.
* `NewestIsKept`, `EndedRunsHaveRows`, `OldHistoryIsInTheTable`: what is kept
  and recorded stays, across rotation, migration, errors and deaths. `NewestIsKept`
  leaves two cases out, where a rotation does remove the newest: an id that is used
  twice in its second, and two outputs written at once. `EndedRunsHaveRows` is about the
  runs that did not give up.

### The pure parts

The pure parts are operators; a behaviour of `MCAlgorithms` picks a part and lets its
input grow by one piece at a time, so that TLC visits every input up to a bound, and
each invariant compares the operator with a reference definition written without it:

* index: the stack finds exactly the sparse n-grams and a covering is among those of
  every text around it (`NgramsAgree` = `StackFindsTheSparse`, `CoveringIsIndexed`);
  lists, encodings, merge and tables are what they hold (`StoredListsAreExact` =
  `ListsAreCombined`, `EncodingsAreRead`, `SkippingLosesNothing`, `MergeInvertsAll`,
  `TablesAnswer`); and the composition of all of them with masks, anchors and overlay
  misses no document (`ResolveMissesNothing`);
* commands: `CommandsKeepTheirMeaning` (`QuotedIsOneWord`, `RewriteKeepsTheCommand`,
  `GrepAsksTheSame`, `FindKeepsItsRoot`, `RoutingKeepsTheArguments`),
  `FilesOnlyTighten`, and `OutputsAreAccounted` (`FilteredIsAccounted`,
  `DeltaShowsTheChanges`, `TestsAreCounted`, `LintsAreCounted`, `GoCountsEachTest`);
* sources: `PrintedAreTheMatches` (`LinesAreCountedOnce`, `ShownLinesAreTheMatches`,
  `CutLinesKeepTheirMatches`, `LimitsAreTold`, `CompactIsTold`), `ReadingKeepsTheShape`
  (`AggressiveElidesBodies`, `SignaturesAgree`, `BlockIsTheDefinition`,
  `CommentsEndTheCode`), `CondensingIsAccounted` (`BudgetDropsTheLeast`,
  `PatternsForgetStrings`, `NamesSplitAlike`, `PairsCountNeighbours`);
* surroundings: `SurroundingsAreRead` (`OneRootPerProject`, `IgnoreFitsTheProject`,
  `CorrectionsFollowFailures`, `FencesAreLeftAlone`).

A run lists the properties of a subject under one name; each of the parts is about
inputs of its own (`part`), and each has a mutant that breaks it. Two that are stated
beside them, and that no run checks, do not hold: `CommandReachesTheTool` in `Commands`
and `WindowShowsTheFirstMatch` in `Sources`.

Characters are members of small alphabets chosen so that each class the code tells
apart is there (quotes, blanks, braces, fences, capitals, digits). Machine sizes are
constants (`Width`, `OffsetRange`, `KeyRange`, `SkipBlock`), so that a wrap, a full
table or a block boundary happens within a few elements.

## Runs and bounds

| run | result | instance | why it is enough |
|---|---|---|---|
| `lock_two` | `WaitEnds` holds | 2 processes, crashes and pid reuse, timeout 2, stale age 3, grace 1, fair | every order of two builders; limits keep the order grace < timeout < stale age, the only thing the code compares |
| `lock_three` | holds | 3 processes, same | three are needed to rob a third party; symmetric processes |
| `lock_robbed` | `MutualExclusion` fails | 3 processes, no faults | three builders suffice |
| `builder_crash` | holds | 2 files, 2 text words and a binary one of lengths of their own, 3 edits, 3 builds, crashes, saves between read and stat, threshold and compaction at 1 file | each of base, overlay, second overlay, compaction and rebuild after a crash happens |
| `builder_commits` | holds | 2 files, 2 words, words of one length, 2 edits or checkouts, 2 commits, 3 builds, failing git | base, overlay from git and a rebuild by count, with each answer of git missing |
| `search_builds` | holds | 2 files, 2 words, 2 edits, 3 builds, crashes, 1 search, no compaction | one search suffices: it changes nothing; with compaction `SearchIsComplete` fails (see below) |
| `cache_registry` | holds | 2 processes, 2 projects of one name, 3 commands, 1 fault, times 0 to 2, age and interval 1, room for 1 entry | build beside collection, two collectors, a collision of names and an over-full cache all happen |
| `cache_layout` | holds | 2 callers, 1 entry, 2 files, 2 versions, 1 death, 1 failing call, patience 1, fair | two migrations at once, one by a thief, with commands that did not wait |
| `layout_marker` | `MarkedIsMigrated` fails | 2 callers, 1 entry, no deaths or errors | one that does not wait long enough suffices |
| `algorithms` | holds | every input up to 3 to 9 pieces, see `algorithms.cfg` | every boundary constant is exceeded by some input |
| `setup_agents` | holds | 4 agents, 2 versions, 3 commands, and 1 edit, death or failing step | install, update, uninstall with one of them between any two steps |
| `run_records` | holds | 2 processes, 1 filter, 1 slug, 1 old line, 1 kept file, times 0 and 1, 2 runs, 1 other command, 1 edit, 1 fault | two runs record while a third command trusts, migrates or clears, and one call of any of them fails or one process dies |

Deadlock is checked for `BuildLock` only (time always passes). In the others the
budgets of edits, commands and faults are used up and the system stops, and
`MCAlgorithms` stops when its input has its full length.

The two failing runs are the `findings` in `PROJECT.json` with the sentences of the
sources they contradict.

**Fairness.** `FairSpec` of `BuildLock` assumes that a started process goes on (weak
fairness of its next system call, which is always enabled) and that time passes. `LSpec`
of `CacheLayout` assumes the first alone: its waiting loop counts its own rounds. Neither
assumes that anyone starts, dies or reuses a pid. Nothing else has liveness: the other
commands run straight to their end.

## Seen while modelling

Behaviour of the code that a property states and that does not hold; each of these
definitions is in its module with a comment, and no run lists it.

* `IndexBuilder`: `NoTornIndex` (a rebuild that dies between its renames leaves the old
  metadata over new postings, and the next build says "Index is up to date"),
  `QueriesUseBuildWeights` (a rebuild cuts n-grams with the previous `bigram_df.bin`).
* `IndexSearch`: `NoPanic` (old metadata with newer postings indexes the file list out of
  bounds), `SearchSeesEdits` (`do_search` compares no mtime, against README.md:438).
* `CacheRegistry`: `GcDropsOnlyUnused`, `ManifestIsWhole`.
* `IndexData`: `AnchorBindsItsAlternative` (`^a|b` is taken for anchored as a whole).
* `Commands`: `UnparsedIsShown`, and `CommandReachesTheTool` (`cargo test` with a `--` of
  the user's gets its `--no-fail-fast` behind it, where the test program takes it,
  cargo_test.rs:95-110, against line 1 of that file).
* `Sources`: `WindowShowsTheFirstMatch` (printer.rs:864 promises a window around the first
  match; a long line is always cut to its two ends, and of a match in the middle nothing
  is shown).
* `RunRecords`: `RowsAreDistinct`.

Where a property leaves a case out because the code gets it wrong, the case is named
above the property or in the `note` of its hazard. Others, without a definition:

* git prints untracked directories and quoted names, which hide that the file count
  changed; overlaid files count as changed for ever; during a compaction a search sees
  neither overlay nor new base. A save between the builder's read and its stat that
  keeps the file's length is not indexed until the file changes again (metadata.rs:32
  speaks of mtimes in whole seconds only).
* A lock file that cannot be removed makes `acquire` wait for ever, since `continue`
  skips its deadline. An empty lock file of the cache layout counts as a dead holder's
  (cache.rs:638), also when its owner is about to write its pid. Of two cache entries of
  one project the one with the later directory time wins, also after half of it was
  removed.
* `ig read -a` slices lines at byte positions and dies on characters of several bytes;
  a Rust lifetime opens a quote; bodies of Python functions are not elided; a `const` or
  `type` inside a body ends the elision. `ig read -s` and `ig context` use `filedata.bin`
  without asking whether it is of the text at hand.
* `rg -c` parity is lost after a match that ends in a newline (matcher.rs:70).
* The marks of omitted lines are not counted in the budget; a repeated `}` outscores a
  signature.
* `grep -A 3` takes 3 for the pattern; `-v`, `-w`, `-c` and second paths are dropped;
  `cat`, `head`, `tail`, `ls`, `docker` and `npm` lose their quotes; the deny rules see
  the first command of a line; an `ask` of a file rule turns the exit code of a
  built-in deny from 2 to 1 (hooks/permissions.rs); a permissions file that does not
  parse loses its deny rules too.
* `prettier` that dies and a jest suite that does not load read as clean.
* `strip_managed_block` takes the line end before the block with it, also when that was
  the user's (the block stood before an anchor or over an old section): setup and then
  an uninstall of that agent joins the user's line with the heading below, and the next
  setup leaves a block in the middle of that line, which the following setup moves.
  `SetupSettles` said at first that a second setup changes nothing; the attempt to prove
  it found this, and the property now allows that one line end.
* `ig setup --agent claude --uninstall` leaves what older versions installed:
  `session-start.sh`, `ig-rewrite.sh`, `prefer-ig.sh`, `find-rewrite.sh` and hooks that
  call `ig hold`. A user's hook that mentions `.env`, `format.sh` or "Destructive git" is
  overwritten by a setup and removed by that uninstall, against setup/mod.rs:75;
  `rules/ig.md` is overwritten whoever wrote it. A `CLAUDE.md` that is not UTF-8 counts
  as empty and is overwritten. An `explorer.md` that was cut stays as it is.
* `ig uninstall` removes users' hooks that mention `.env` or `format.sh`, and leaves a
  begin marker behind; the sections of GEMINI.md, kilo and opencode are never refreshed;
  a dry run removes old scripts.
* An output of the same command in the same second takes the id of an earlier one; a
  filter is read again after it was hashed; a death between truncating and writing
  `trusted.json` revokes all trust; an untrust is undone by a trust that read the store
  before it; `ig gain --clear` leaves the table's rows.
* A noise directory is skipped but not pruned (autoignore.rs:300), and a project below a
  directory called `build` detects nothing; corrections are paired across sessions
  (learn.rs:287); a later ``` makes an earlier `~~~` block be filtered as text.

## Proofs

Every theorem is about any values of the constants that satisfy the assumptions named
with it. TLC evaluates those assumptions in every run.

### BuildLockProofs

For any set of processes, any limits and any set of faults, from the assumptions that
limits are natural numbers, the grace is shorter than the stale age, and `None` is no
process:

* `TypeCorrect`. `Advance` stays within its limit (lemma `AdvanceBounded`).
* `OneUnrobbedHolderHolds`. The property is not inductive; `HolderOwnsOrRobbed` is: a
  process that holds the lock created the file that is at the path, or that file was
  removed by another and the process is in `robbed`. Two unrobbed holders would own the
  same file.
* `VerdictsAreSoundHolds`, under `Prompt` (no slow build, no slow or failing pid write).
  The invariant is `PromptInv`: processes that have created a file never wait again
  (`SpentCreators`), so `files = {v}` names one inode; a held file is young and gets its
  pid in time (`YoungWhileHeld`); each step of `holder_is_stale` keeps what its locals
  say about that file (`VerdictAbout`).

Exclusion itself is not a theorem: `lock_robbed` refutes it for three.

### IndexBuilderProofs

For any files, words, commits, thresholds, number of builds, and crashes:

* `OverlayFitsBaseHolds`: `OverlayInv` adds what the builder is doing. The metadata it
  has read stays the metadata on disk, since it alone publishes (`MetadataHeld`); it
  writes overlays only over a base (`OverlayHasBase`); while it scans for and publishes a
  base there is nothing of an overlay on disk (`OverlayGone`).
* `IndexTypeCorrect`: `TypeInv` types what the builder holds as well, since what it
  publishes it has read before.
* `FreshIsCompleteHolds`, without git and where files do not change between a read and
  its stat (`Calm`); the saves in between are left to the run. Its invariant has two
  layers. `CourseInv` follows the mtimes: runs ascend (`RunsAscend`), and a document
  whose mtime the file still has is there with the content that was read, and its length
  (`MetaFits`, `BaseFits`, `DocsFit`, `Record`), for an edit gives a file an mtime that
  it never had; so what has changed has another mtime or another length. `FreshInv` says
  what a build has to replace: what an overlay concerns, and what is tombstoned, has
  changed since the base was built (`OverlayIsStale`, `TombsAreStale`), and while
  nothing changes every text file is still to be read, has been read, or is in the base
  as it is (`QuietCovers`).
* `CleanCommitIsCompleteHolds`, where git finds the changes or fails to (`Unraced`): the
  same with `Unaltered`, by mtime or by the commit the base is of (`QuietHolds`), the
  tombstones of the overlay that is being published (`TombsAreTheirs`), and HEAD as it
  was read, if it could be (`HeadIsRead`). `UnreportedIsUnaltered` is where git's failures
  come in: a file that is in no answer is as the base has it, or git status did not
  answer and the file is not as committed.

They rest on `SizeAssumption` and `NameAssumption`, on `NoneAssumption`: what is
published is not the mark of a missing file, and, with the next module, on
`FileAssumption`: a project has finitely many files.

### IndexSearchProofs

With a search at any point beside the builder:

* `NeverOlderThanMetadataHolds`: on the builder's side (`MetadataLast`), what it has
  published of the current build carries its number until the metadata does
  (`BaseSince`, `OverlaySince`, `NextPublishInv`); on the searcher's side
  (`AheadIsNewer`), that stays true of the metadata a searcher has already read until it
  has opened the last artifact.
* `SearchIsCompleteHolds`, where files are compared by mtime and do not change between a
  read and its stat (`Calm`), and no build wants compaction (`Uncompacted`).
  On the builder's side, `SettleInv` says that an index that is up to date is `Settled`,
  and stays so until a file changes, whatever builds start and die meanwhile: the base has
  every text file, or an overlay is there that has the rest and no build removes it, since
  few files are changed (`Few`, `DecideCounts`). On the searcher's side, while nothing
  changes (`Still`), what it has opened, or will open next to the metadata it has, is
  complete if it is of that metadata's build (`BaseRead`, `OverlayRead`): what a builder
  publishes under it is of a later run. A search that goes without an overlay has a base
  with everything in it (`AloneIsAll`), and lexicon and postings of one build, cut as the
  query is, lead to every file that holds the word (`ResolveFindsAll`, `CandsAreAll`).
  `Uncompacted` is needed: a build that compacts removes the overlay first, and a search
  before the next `metadata.bin` has an old base of one build without the overlaid files.

### CacheRegistryProofs

For any finite set of processes and any projects of any sizes and names, from
`RegistryAssumption`: times and bounds are natural numbers, names are not projects, and
`None` is no project, no operation and no inode:

* `CollectionsSpacedHolds`, an action property. `AutoInv` says that whoever collects
  automatically holds `.gc.lock` and is alone (`AutoHoldsLock`), is at one of the places
  of a collection (`AutoPlaces`), and began late enough after what the stamp says, or has
  stamped already (`AutoIsDue`). Most actions are of one kind: a process goes on with
  what it does, or stops, and neither lock, stamp nor clock changes (`ApartAutoInv`).
* `RegistryTypeCorrect` and `PrunesTheOldestHolds`: `RegistryInv` types the disk, the
  world and the processes' locals, and keeps what a collection has dropped older than
  what it has kept (`Ordered`) as long as no project came or went (`Undisturbed`). That a
  temporary manifest always finds a free inode is the pigeonhole of `SomeInodeIsFree`:
  one inode for each process and one for the manifest.
* `SoloRegistryIsExactHolds`: `SoloInv` says, of the one process that uses the cache,
  which part of links, manifest and entries it has brought up to date at each of its
  places (`RolesKept`, `IndexedFirst`, `ManifestKept`, `LinksKept`).

### CacheLayoutProofs

For any processes, entries, files, patience, deaths and errors:

* `LayoutTypeCorrect` and `MarkedIsTriedHolds`: in `MigrateInv` whoever migrates has
  killed the daemon before it listed the root (`DaemonIsKilled`), so each entry still at
  the root is on the list of every process that migrates, or its rename or removal has
  failed in some migration (`NoneForgotten`); the failures recorded only grow (`Grows`), and
  the entries at the root only go.
* `NothingIsLostHolds`: in `KeepInv`, when one command runs at a time, what is removed of
  an entry that is not torn is no newer than what stays (`WhatGoesIsOlder`,
  `NewestIsNewest`); one process at most copies a project's own index, and removes it when
  all of it is copied (`OneCopies`, `LocalIsWhole`).

### RunRecordsProofs

For any processes, filters, commands, lifetimes and bounds, with at least one kept file:

* `OnlyTrustedFiltersHolds`: `TrustInv` adds where a used filter comes from. The store on
  disk and every copy of it in memory hold approved hashes only (`StoresApproved`), and
  what is being compared is approved (`ComparedIsApproved`). Approvals are never taken
  back from the history, so a lost update or a half-written store can only take trust
  away.
* `RecordsTypeCorrect`: `BookInv` types history, table and processes, and gives each run
  one line, or none while it runs (`LinesOnce`, `RunsOnce`). It needs that old lines are
  not numbered like runs (`OldAssumption`). `HalvesInv` says who is to blame for an output
  that is not whole; `KeepsBlame` says of each step that whoever stops writing is recorded.
* `EndedRunsHaveRowsHolds`, `OldHistoryIsInTheTableHolds`: in `TableInv` a migration that
  has not failed holds every old line that has no row yet (`MigrationHoldsTheRest`). A run
  that gives up is not among the ended ones, and takes no row from another.
* `NewestIsKeptHolds`: in `OutputsInv` the newest output is on nobody's list of files to
  remove (`NoRotationDropsIt`), since it was newer than all the files such a list was
  made from. The attempt to prove it without exception found the second of the two cases
  the property leaves out (two outputs written at once, `OverlapsAreRaced`).
* `LogOfRunsHolds`: the refinement of `History`. Every step appends one line, takes all
  out, lets a run leave without a line (`HLeave`), or is a stutter.

### AgentSetupProofs

For any words, texts, hooks and rule files that users may have, any number of versions,
commands, edits, deaths and failing steps, from `BodyAssumption` (the shipped text holds
no marker and is no user's), `ProfilesAssumption` (before ig comes there is none of its
marks in part, and a hook of the shell that was begun is whole) and `SetupAssumption`.
The module goes from the bottom up:

* Lists. `Dropping`, a retain loop, and `RegisterAll` are recursive functions; that the
  function exists and what it gives for lists of any length is by induction on the
  length (`NatInduct`, from `WFInduction`, about sets of numbers). `DroppingConcat`
  makes a text's lines those of its parts.
* Edits. A text is `IsBlocked`, `IsSectioned` or `Bare`, and the lemmas say which one
  each edit makes of each (`UpsertIs`, `AppendOnceKeeps`, `StripKeeps`, `WithLineKeeps`
  for a user's own line, `InstallShellHookIs`) with the user's lines unchanged
  (`UsersText`). `CurrentSettles`, `HookedSettles` and `HooksSettle` are the fixpoints: a
  block of this version behind a title or a line end, a whole shell hook, and a list in
  which each shipped hook is the first of its kind (`HooksCurrent`; `Register` keeps that
  of the others, since no two shipped hooks are alike).
* Steps. `RuleStep`, `OwnStep`, `SettingsStep` and `ShellStep` say what one step of a
  command does to each file; `SetupStepsAre`, `InstallStepsAre`, `UninstallStepsAre` and
  `FullStepsAre` of which steps the commands consist. `FailedStep` says what a step that
  fails may do (`EmptyFileIs`, `UnreadIs`, `SomeScriptsIs`, `SomeRemovedIs`): each of them
  keeps the shape of every file, and spoils the step's own file at most.
* The invariant `Inv`. The properties are about commands that have ended, so they are
  not inductive: `SetupInv` says that while the last step of a setup is still to come,
  each thing a setup does has been done or is among the steps left (`SetupDone(left)`);
  `UninstallInv` the same of Claude's uninstaller (`UninstallDone`), unless a step
  has failed (`flawed`); `SettledInv` and
  `GoneInv` carry it on when they have ended, the latter through whatever other agents'
  commands, since their steps bring nothing to Claude (`Quiet`).

`SetupTypeCorrect`, `KeepsWhatIsTheUsersHolds` (an action property),
`SetupIsCurrentHolds`, `SetupSettlesHolds` and `UninstalledIsGoneHolds` follow from it.

### AlgorithmProofs

For inputs of any size, where the run `algorithms` visits a few pieces:

* `FilesOnlyTightenHolds`: for any commands, built-in rules and rule files, from
  `CommandsAssumption` (a text is no other kind of input, a built-in rule says one of the
  three verdicts). The verdict depends only on the set of what rules say of a command
  (`Said`, `SaidOfAll`, `SameSaid`); files add nothing but `deny` and `ask` to that set, an
  `allow` of theirs being taken for `ask` (`SaidOfFile`), and those come before `allow`
  (`FilesTighten`). The invariant is `RulesTyped`.
* `IntersectIsExact`, `StreamsAgree`, `UnionIsExact`: for increasing lists of any length
  and any `GallopRatio`, `intersect`, whichever way it chooses, and `union` return the
  intersection and union, each id once and in order. The three intersections are
  recursions over two positions, one of which grows; that the recursive function exists,
  and what it gives, is by induction on what is left to read (`DescentInduct`,
  `RecursionExists`, `ScanLists`). Galloping needs in addition that doubling ends and
  that the search within the last step finds the first id that is not below the target
  (`BoundIs`, `GallopIs`). The streams agree with the slices because a set has one
  increasing list (`OneList`). Together the three say, for every length, what
  `ListsAreCombined` says of those TLC visits.

### Only model-checked

* `WaitEnds` and `CallsEnd` are liveness under fairness.
* Of the invariants of `MCAlgorithms`, those other than `FilesOnlyTighten` and the lists'
  part of `StoredListsAreExact`: what recursive operators (parsers, splitters, codecs)
  and folds compute for every input. The prover takes no `RECURSIVE` operator, no
  recursive function of several arguments, and no fold over a LAMBDA; their bounds are in
  `algorithms.cfg`.

## Plan

1. `BuildLock`, `IndexBuilder` and `CacheRegistry` composed: two builders inside one
   directory after a stolen lock, and a collector that removes it.
2. An abstract index (a map from files to contents) that the builder implements.
3. The codecs of `Postings` as functions of one argument, and their round trip for lists
   of any length, as `AlgorithmProofs` does for the list operations.

## Not modelled

Formatting, colours, JSON layout, statistics and reports (`ig gain`, `discover`,
sessions, `smart`, `pack`, trees) are text out. The wrappers of git hosts, clouds and
package tools each shorten one tool's output. Ranking and the scores of the semantic
expansion are floating point. Ignore rules, regular expressions and the tree they are
parsed to are libraries. Telemetry, `ig update`'s download and the embedding experiment
talk to services. The contents of `tree.txt` and `context.md` are derived data that no
result depends on. Loss of data that was not synced is excluded by `publish_durable`,
whose fsync is taken at its word.
