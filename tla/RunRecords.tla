----------------------------- MODULE RunRecords -----------------------------
(***************************************************************************)
(* What `ig run` reads and leaves behind (src/src/runner.rs): the project's *)
(* filters, used only when trusted.json holds their hash (trust.rs), the   *)
(* kept raw outputs (tee.rs), history.jsonl (tracking.rs), and the table   *)
(* of src/src/analytics, filled once from the history and then by each run. *)
(* Runs, `ig trust`, `ig untrust` and clearing commands are processes that *)
(* interleave, fail and die between any two calls to the file system. What *)
(* is left out: a write that fails after a part of a line of the history,  *)
(* which spoils the next line as well.                                     *)
(***************************************************************************)
EXTENDS Integers, Sequences, FiniteSets, FiniteSetsExt, Optional

CONSTANTS
    Proc,      \* the ig processes
    Filter,    \* the files of .ig/filters
    Slug,      \* what slugify makes of the commands
    Old,       \* lines of a history older than the table
    MaxFiles,  \* TEE_MAX_FILES
    Ttl,       \* TEE_TTL in seconds
    MaxNow,    \* bound: the clock, in seconds
    MaxRuns,   \* bound: runs
    MaxOps,    \* bound: trust, untrust and clearing commands
    MaxEdits,  \* bound: edits of the filters
    MaxFaults  \* bound: processes that die, calls and statements that fail

ASSUME RecordsAssumption ==
    /\ {Ttl, MaxNow, MaxRuns, MaxOps, MaxEdits, MaxFaults} \subseteq Nat
    /\ MaxFiles \in Nat \ {0}
ASSUME OldAssumption == IsFiniteSet(Old) /\ Old \cap (1 .. MaxRuns) = {}

VARIABLES
    now,
    content,  \* [Filter -> version of the file]
    store,    \* trusted.json: [Filter -> hash or None], or Torn
    tee,      \* [id -> the kept output or None]
    writes,   \* how many outputs were written: the order of their times
    jsonl,    \* history.jsonl
    rows,     \* the table, as the sequence of its rows
    marker,   \* the table was filled from the history
    proc,
    left,     \* history: runs, operations, edits and faults left
    past      \* history: what users approved, the newest id kept, the ids that were
              \* opened, those opened twice or at once, those whose writer stopped
              \* half-way, the runs that ended and did not give up, whether a
              \* migration failed

files == <<content, store>>
kept == <<tee, writes>>
book == <<jsonl, rows, marker>>
vars == <<now, files, kept, book, proc, left, past>>

Torn == [f \in {} |-> None]   \* the text does not parse
Version == 0 .. MaxEdits
Id == (0 .. MaxNow) \X Slug
Run == Old \cup (1 .. MaxRuns)
NoTrust == [f \in Filter |-> None]
Line(r, ts, s) == [run |-> r, ts |-> ts, cmd |-> s]
Kept(r, at, nth) == [run |-> r, at |-> at, nth |-> nth]
KeptType == [run : Run \cup {None}, at : 0 .. MaxNow, nth : Nat]
ASSUME NoneAssumption == None \notin KeptType /\ None \notin Run

LineType == [run : Run, ts : Nat, cmd : Slug]
RowType == [ts : Nat, cmd : Slug]

\* Where a process is: no run, a run before its line is written, and after.
Outside == {"idle", "truncate", "write_store"}
Running == {"filters", "hash", "read", "open", "write", "rotate", "remove", "log"}
Booking == {"marker", "read_history", "migrate", "insert_line", "record", "probe", "insert"}

Resting == [pc |-> "idle", run |-> None, cmd |-> None, file |-> None, hash |-> None,
            todo |-> {}, used |-> {}, seen |-> NoTrust, id |-> None, drop |-> {},
            lines |-> <<>>, ts |-> 0]

At(p, label) == proc[p].pc = label
Go(p, label) == proc' = [proc EXCEPT ![p].pc = label]
Spend(what) == left[what] > 0 /\ left' = [left EXCEPT ![what] = @ - 1]

OldLines == {q \in [1 .. Cardinality(Old) -> Old] :
                \A i, j \in DOMAIN q : q[i] = q[j] => i = j}

Init ==
    /\ now = 0
    /\ content = [f \in Filter |-> 0] /\ store = NoTrust
    /\ tee = [i \in Id |-> None] /\ writes = 0
    /\ \E q \in OldLines, s \in Slug :
          jsonl = [i \in DOMAIN q |-> Line(q[i], 0, s)]
    /\ rows = <<>> /\ marker = FALSE
    /\ proc = [p \in Proc |-> Resting]
    /\ left = [runs |-> MaxRuns, ops |-> MaxOps, edits |-> MaxEdits,
               faults |-> MaxFaults]
    /\ past = [approved |-> {}, kept |-> None, opened |-> {}, raced |-> {}, cut |-> {},
               ended |-> {}, failed |-> FALSE]

-----------------------------------------------------------------------------
(* The clock, editors, deaths *)

Tick == now < MaxNow /\ now' = now + 1
        /\ UNCHANGED <<files, kept, book, proc, left, past>>

Edit(f) == /\ Spend("edits")
           /\ \E v \in Version \ {content[f]} : content' = [content EXCEPT ![f] = v]
           /\ UNCHANGED <<now, store, kept, book, proc, past>>

Writing(p, i) == At(p, "write") /\ proc[p].id = i
HalfWritten(i) == tee[i] # None /\ tee[i].run = None

\* The output that p is writing stays as it is.
StopHalfWay(p) == past' = [past EXCEPT !.cut =
                              IF At(p, "write") THEN @ \cup {proc[p].id} ELSE @]

Crash(p) == /\ ~At(p, "idle") /\ Spend("faults")
            /\ proc' = [proc EXCEPT ![p] = Resting] /\ StopHalfWay(p)
            /\ UNCHANGED <<now, files, kept, book>>

-----------------------------------------------------------------------------
(* trusted.json: loaded whole, changed, and written in place *)

\* Absent, unreadable or cut: no file is trusted.
LoadStore == IF store = Torn THEN NoTrust ELSE store

\* trust_path hashes the file and then loads the store; untrust_path loads it.
TrustPath(p, f) ==
    /\ At(p, "idle") /\ Spend("ops")
    /\ proc' = [proc EXCEPT ![p].pc = "truncate",
                            ![p].seen = [LoadStore EXCEPT ![f] = content[f]]]
    /\ past' = [past EXCEPT !.approved = @ \cup {<<f, content[f]>>}]
    /\ UNCHANGED <<now, files, kept, book>>

UntrustPath(p, f) ==
    /\ At(p, "idle") /\ Spend("ops")
    /\ proc' = [proc EXCEPT ![p].pc = "truncate",
                            ![p].seen = [LoadStore EXCEPT ![f] = None]]
    /\ UNCHANGED <<now, files, kept, book, past>>

\* fs::write: an empty file first.
TruncateStore(p) == /\ At(p, "truncate") /\ store' = Torn /\ Go(p, "write_store")
                    /\ UNCHANGED <<now, content, kept, book, left, past>>

Trusted(st) == {f \in Filter : st[f] # None}

\* Then the text: over a longer one of another writer the end of that one shows.
WriteStore(p) ==
    /\ At(p, "write_store") /\ proc' = [proc EXCEPT ![p] = Resting]
    /\ store' = IF store # Torn /\ Cardinality(Trusted(store)) >
                     Cardinality(Trusted(proc[p].seen)) THEN Torn ELSE proc[p].seen
    /\ UNCHANGED <<now, content, kept, book, left, past>>

-----------------------------------------------------------------------------
(* load_from_dir_trusted: each file is looked up, hashed, and then read *)

StartRun(p, s) ==
    /\ At(p, "idle") /\ Spend("runs")
    /\ proc' = [proc EXCEPT ![p] = [Resting EXCEPT !.pc = "filters", !.cmd = s,
                    !.run = MaxRuns - left.runs + 1, !.todo = Filter]]
    /\ UNCHANGED <<now, files, kept, book, past>>

\* check_trust, its first half: the file's entry in the store.
LookUp(p, f) ==
    /\ At(p, "filters") /\ f \in proc[p].todo
    /\ proc' = [proc EXCEPT ![p].todo = @ \ {f}, ![p].file = f, ![p].hash = LoadStore[f],
                            ![p].pc = IF LoadStore[f] = None THEN "filters" ELSE "hash"]
    /\ UNCHANGED <<now, files, kept, book, left, past>>

\* Mutant: a file whose content has changed is used as well.
HashOfAny(p) ==
    /\ At(p, "hash")
    /\ proc' = [proc EXCEPT ![p].pc = "read", ![p].hash = content[proc[p].file]]
    /\ UNCHANGED <<now, files, kept, book, left, past>>

\* Its second half: the hash of the file as it is now.
Hash(p) ==
    /\ At(p, "hash")
    /\ Go(p, IF content[proc[p].file] = proc[p].hash THEN "read" ELSE "filters")
    /\ UNCHANGED <<now, files, kept, book, left, past>>

\* The content that is compiled is read after the hash was compared.
ReadFilter(p) ==
    /\ At(p, "read")
    /\ proc' = [proc EXCEPT ![p].pc = "filters", ![p].used = @ \cup
                   {[file |-> proc[p].file, hashed |-> proc[p].hash,
                     read |-> content[proc[p].file]]}]
    /\ UNCHANGED <<now, files, kept, book, left, past>>

-----------------------------------------------------------------------------
(* tee.rs: the raw output of the command is kept *)

\* The command runs; should_save depends on its output, and opening may fail.
RunCommand(p) ==
    /\ At(p, "filters") /\ proc[p].todo = {}
    /\ \E save \in BOOLEAN :
          proc' = [proc EXCEPT ![p] = [Resting EXCEPT
                       !.run = proc[p].run, !.cmd = proc[p].cmd,
                       !.pc = IF save THEN "open" ELSE "log",
                       !.id = IF save THEN <<now, proc[p].cmd>> ELSE None]]
    /\ UNCHANGED <<now, files, kept, book, left, past>>

Overlapping(p) == {proc[q].id : q \in {q \in Proc \ {p} : At(q, "write")}}
Raced(p) == IF proc[p].id \notin past.opened /\ Overlapping(p) = {} THEN {}
            ELSE Overlapping(p) \cup {proc[p].id}

\* The id is the second and the slug: an older output with this id is gone.
SaveOpen(p) ==
    /\ At(p, "open")
    /\ writes' = writes + 1 /\ Go(p, "write")
    /\ tee' = [tee EXCEPT ![proc[p].id] = Kept(None, now, writes + 1)]
    /\ past' = [past EXCEPT !.kept = proc[p].id,
                            !.opened = @ \cup {proc[p].id}, !.cut = @ \ {proc[p].id},
                            !.raced = @ \cup Raced(p)]
    /\ UNCHANGED <<now, files, book, left>>

\* The write fails: save returns before rotate, and the file stays.
SaveFails(p) ==
    /\ At(p, "write") /\ Spend("faults") /\ StopHalfWay(p)
    /\ proc' = [proc EXCEPT ![p].pc = "log", ![p].id = None]
    /\ UNCHANGED <<now, files, kept, book>>

SaveWrite(p) ==
    /\ At(p, "write")
    /\ writes' = writes + 1
    /\ tee' = IF tee[proc[p].id] = None THEN tee   \* removed while it was open
              ELSE [tee EXCEPT ![proc[p].id] = Kept(proc[p].run, now, writes + 1)]
    /\ past' = [past EXCEPT !.kept = IF tee[proc[p].id] = None THEN @ ELSE proc[p].id]
    /\ Go(p, "rotate")
    /\ UNCHANGED <<now, files, book, left>>

KeptIds == {i \in Id : tee[i] # None}
Newer(i) == {j \in KeptIds : tee[j].nth > tee[i].nth}

\* Mutant: one file less is kept.
DoomedOneMore == {i \in KeptIds : Cardinality(Newer(i)) + 1 >= MaxFiles}

\* What rotate removes of what it lists: all but the newest, and what is too old.
Doomed == {i \in KeptIds : Cardinality(Newer(i)) >= MaxFiles \/ now - tee[i].at > Ttl}

RotateList(p) ==
    /\ At(p, "rotate")
    /\ proc' = [proc EXCEPT ![p].pc = "remove", ![p].drop = Doomed]
    /\ UNCHANGED <<now, files, kept, book, left, past>>

RotateRemove(p) ==
    /\ At(p, "remove")
    /\ \/ \E i \in proc[p].drop :
             /\ tee' = [tee EXCEPT ![i] = None]
             /\ proc' = [proc EXCEPT ![p].drop = @ \ {i}]
       \/ /\ proc[p].drop = {} /\ UNCHANGED tee
          /\ proc' = [proc EXCEPT ![p].pc = "log", ![p].id = None]
    /\ UNCHANGED <<now, files, writes, book, left, past>>

\* `ig tee clear`: the files listed when it starts.
ClearTee(p) ==
    /\ At(p, "idle") /\ Spend("ops") /\ KeptIds # {}
    /\ tee' = [i \in Id |-> None] /\ past' = [past EXCEPT !.kept = None]
    /\ UNCHANGED <<now, files, writes, book, proc>>

-----------------------------------------------------------------------------
(* tracking.rs: a line of the history, then a row of the table *)

\* Mutant: the history is opened for writing and not for appending.
AppendFromStart(p) ==
    /\ At(p, "log") /\ Go(p, "marker")
    /\ jsonl' = <<Line(proc[p].run, now, proc[p].cmd)>>
    /\ UNCHANGED <<now, files, kept, rows, marker, left, past>>

\* The line is one append under a lock of the file; the text was printed before.
\* That the write fails is not looked at.
AppendLine(p) ==
    /\ At(p, "log") /\ Go(p, "marker")
    /\ \/ /\ jsonl' = Append(jsonl, Line(proc[p].run, now, proc[p].cmd))
          /\ UNCHANGED left
       \/ Spend("faults") /\ UNCHANGED jsonl
    /\ UNCHANGED <<now, files, kept, rows, marker, past>>

\* Each run looks for the marker, and when there is none reads the history, if the
\* database can be opened.
EnsureMigrated(p) ==
    /\ At(p, "marker")
    /\ \/ Go(p, IF marker THEN "record" ELSE "read_history") /\ UNCHANGED left
       \/ ~marker /\ Go(p, "record") /\ Spend("faults")
    /\ UNCHANGED <<now, files, kept, book, past>>

ReadHistory(p) ==
    /\ At(p, "read_history")
    /\ proc' = [proc EXCEPT ![p].lines = jsonl, ![p].pc = "migrate"]
    /\ UNCHANGED <<now, files, kept, book, left, past>>

Row(ts, s) == [ts |-> ts, cmd |-> s]
HasRow(row) == \E i \in DOMAIN rows : rows[i] = row

\* Mutant: the dedup probe does not ask for the time.
HasRowOfCommand(row) == \E i \in DOMAIN rows : rows[i].cmd = row.cmd

\* The dedup probe of record_with_ts: a row of this second, command and sizes.
Probe(row) == HasRow(row)

\* migrate_jsonl_to_sqlite: a line that has no row yet gets one, in two statements.
MigrateLine(p) ==
    /\ At(p, "migrate") /\ proc[p].lines # <<>>
    /\ LET l == Head(proc[p].lines)
       IN IF Probe(Row(l.ts, l.cmd))
          THEN proc' = [proc EXCEPT ![p].lines = Tail(@)]
          ELSE Go(p, "insert_line")
    /\ UNCHANGED <<now, files, kept, book, left, past>>

InsertLine(p) ==
    /\ At(p, "insert_line")
    /\ LET l == Head(proc[p].lines) IN rows' = Append(rows, Row(l.ts, l.cmd))
    /\ proc' = [proc EXCEPT ![p].pc = "migrate", ![p].lines = Tail(@)]
    /\ UNCHANGED <<now, files, kept, jsonl, marker, left, past>>

\* Reading the history or a statement fails: the error is dropped and the marker
\* is written all the same.
MigrateFails(p) ==
    /\ \/ At(p, "read_history")
       \/ proc[p].pc \in {"migrate", "insert_line"} /\ proc[p].lines # <<>>
    /\ Spend("faults")
    /\ proc' = [proc EXCEPT ![p].pc = "migrate", ![p].lines = <<>>]
    /\ past' = [past EXCEPT !.failed = TRUE]
    /\ UNCHANGED <<now, files, kept, book>>

\* Mutant: the marker is there before the lines are.
WriteMarkerFirst(p) ==
    /\ At(p, "migrate") /\ marker' = TRUE
    /\ Go(p, IF proc[p].lines = <<>> THEN "record" ELSE "migrate")
    /\ UNCHANGED <<now, files, kept, jsonl, rows, left, past>>

\* Mutant: after the migration the run is logged once more.
WriteMarkerAndRetry(p) ==
    /\ At(p, "migrate") /\ proc[p].lines = <<>>
    /\ marker' = TRUE /\ Go(p, "log")
    /\ UNCHANGED <<now, files, kept, jsonl, rows, left, past>>

\* That the marker cannot be written is not looked at: the next run migrates again.
WriteMarker(p) ==
    /\ At(p, "migrate") /\ proc[p].lines = <<>> /\ Go(p, "record")
    /\ \/ marker' = TRUE /\ UNCHANGED left
       \/ Spend("faults") /\ UNCHANGED marker
    /\ UNCHANGED <<now, files, kept, jsonl, rows, past>>

End(p) == /\ proc' = [proc EXCEPT ![p] = Resting]
          /\ past' = [past EXCEPT !.ended = @ \cup
                         {[run |-> proc[p].run, row |-> Row(proc[p].ts, proc[p].cmd)]}]

\* The history cannot be opened, and log_savings returns before the table; or the
\* database cannot, or a statement of record fails: a message, and no row.
GiveUp(p) ==
    /\ proc[p].pc \in {"log", "record", "probe", "insert"} /\ Spend("faults")
    /\ proc' = [proc EXCEPT ![p] = Resting]
    /\ UNCHANGED <<now, files, kept, book, past>>

\* record_to_sqlite takes the time again; the probe and the insertion are two
\* statements; a row that is there already is the row of this run too.
Record(p) ==
    /\ At(p, "record")
    /\ proc' = [proc EXCEPT ![p].ts = now, ![p].pc = "probe"]
    /\ UNCHANGED <<now, files, kept, book, left, past>>

ProbeRow(p) ==
    /\ At(p, "probe")
    /\ IF Probe(Row(proc[p].ts, proc[p].cmd)) THEN End(p)
       ELSE Go(p, "insert") /\ UNCHANGED past
    /\ UNCHANGED <<now, files, kept, book, left>>

InsertRow(p) ==
    /\ At(p, "insert") /\ End(p)
    /\ rows' = Append(rows, Row(proc[p].ts, proc[p].cmd))
    /\ UNCHANGED <<now, files, kept, jsonl, marker, left>>

\* `ig gain --clear` removes the history; the table keeps its rows.
ClearHistory(p) ==
    /\ At(p, "idle") /\ Spend("ops") /\ jsonl # <<>>
    /\ jsonl' = <<>>
    /\ UNCHANGED <<now, files, kept, rows, marker, proc, past>>

-----------------------------------------------------------------------------
Step(p) ==
    \/ \E f \in Filter : TrustPath(p, f) \/ UntrustPath(p, f) \/ LookUp(p, f)
    \/ \E s \in Slug : StartRun(p, s)
    \/ TruncateStore(p) \/ WriteStore(p) \/ Hash(p) \/ ReadFilter(p)
    \/ RunCommand(p) \/ SaveOpen(p) \/ SaveFails(p) \/ SaveWrite(p)
    \/ RotateList(p) \/ RotateRemove(p)
    \/ AppendLine(p) \/ EnsureMigrated(p) \/ ReadHistory(p) \/ MigrateLine(p)
    \/ InsertLine(p) \/ MigrateFails(p) \/ WriteMarker(p)
    \/ Record(p) \/ ProbeRow(p) \/ InsertRow(p) \/ GiveUp(p)
    \/ ClearTee(p) \/ ClearHistory(p) \/ Crash(p)

Next == Tick \/ (\E f \in Filter : Edit(f)) \/ (\E p \in Proc : Step(p))

Spec == Init /\ [][Next]_vars

-----------------------------------------------------------------------------
(* Properties *)

\* What is on disk has a shape that the readers of ig understand, and so has what a
\* process carries from one step to the next. A kept output that is not whole is being
\* written, or its writer died or failed at it; the readers show it as if it were whole.
RTypeOK ==
    /\ now \in 0 .. MaxNow /\ content \in [Filter -> Version]
    /\ store = Torn \/ store \in [Filter -> Version \cup {None}]
    /\ tee \in [Id -> KeptType \cup {None}]
    /\ \A i \in Id : /\ tee[i] = None \/ tee[i].nth <= writes
                     /\ HalfWritten(i) => i \in past.cut \/ \E p \in Proc : Writing(p, i)
    /\ jsonl \in Seq(LineType) /\ rows \in Seq(RowType) /\ marker \in BOOLEAN
    /\ \A i, j \in DOMAIN jsonl : jsonl[i].run = jsonl[j].run => i = j
    /\ \A p \in Proc :
          /\ proc[p].pc \in Outside \cup Running \cup Booking
          /\ proc[p].lines \in Seq(LineType) /\ proc[p].drop \subseteq Id
          /\ proc[p].pc = "insert_line" => proc[p].lines # <<>>
          /\ proc[p].pc \in {"open", "write"} => proc[p].id \in Id

\* A project's filter is used only when somebody trusted the very content that
\* was hashed, whatever happened to the store and the file since (trust.rs:64-82).
\* Not excluded: that another content is read after the hash was compared, and that
\* an untrust is lost to a trust that loaded the store before it.
OnlyTrustedFilters ==
    \A p \in Proc : \A u \in proc[p].used : <<u.file, u.hashed>> \in past.approved

\* The newest output stays while rotations of other processes go on, until it is
\* cleared or too old: rotate keeps the newest (tee.rs:200-201). Two cases are left
\* out: an id used twice in its second, be it after its file was removed, and two
\* outputs written at once. There a rotation that listed the older file removes the
\* newer one.
NewestIsKept ==
    \/ past.kept = None \/ past.kept \in past.raced \/ tee[past.kept] # None
    \/ now - past.kept[1] > Ttl

\* A run that ends and did not give up has a row of its command at the time it took,
\* whoever else records, migrates, gives up or dies (tracking.rs:115-119). It gave up
\* when the history or the database could not be opened or its record failed (97-99,
\* 128-138): such a run has no row, and no line either in the first case.
EndedRunsHaveRows == \A e \in past.ended : HasRow(e.row)

\* Once the marker is there the lines of the old history have rows: a migration
\* that dies or finds no database is done again by the next run (tracking.rs:141-143).
\* One that cannot read the history or meets a failing statement is not.
OldHistoryIsInTheTable ==
    marker /\ ~past.failed =>
        \A i \in DOMAIN jsonl : jsonl[i].run \in Old => HasRow(Row(jsonl[i].ts, jsonl[i].cmd))

\* A run is in the log from when its line is written; until then it may end without.
Unlogged == {p \in Proc : proc[p].pc \in Running}
LoggedRuns == [i \in DOMAIN jsonl |-> jsonl[i].run]

Log == INSTANCE History WITH
    log <- LoggedRuns, running <- {proc[p].run : p \in Unlogged}

\* history.jsonl is a log of the runs: a run appends its line once or, when it dies
\* or cannot write, not at all, and no other process, crash or failing statement
\* takes a line out of it.
LogOfRuns == Log!HSpec

\* sqlite.rs:122-124 says of record: "Idempotent dedup: `(timestamp, command,
\* original_bytes, output_bytes)` is treated as a natural key".
RowsAreDistinct == \A i, j \in DOMAIN rows : rows[i] = rows[j] => i = j
=============================================================================
