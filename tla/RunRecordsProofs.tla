-------------------------- MODULE RunRecordsProofs --------------------------
(***************************************************************************)
(* What holds of the records of `ig run` for any processes, filters and    *)
(* commands, any bounds, and any interleaving with edits, deaths and half  *)
(* written stores. Five inductive invariants, one after the other:         *)
(* TrustInv (only trusted filters are used), BookInv (types, and a run has *)
(* one line of the history), TableInv (the history is in the table, and so *)
(* is every run that ended), OutputsInv (no rotation drops the newest      *)
(* output) and HalvesInv (who left an output that is not whole).           *)
(***************************************************************************)
EXTENDS RunRecords, SequenceTheorems, FiniteSetTheorems, TLAPS

(* Every process has all its locals. *)
Shape(r) ==
    r = [pc |-> r.pc, run |-> r.run, cmd |-> r.cmd, file |-> r.file, hash |-> r.hash,
         todo |-> r.todo, used |-> r.used, seen |-> r.seen, id |-> r.id, drop |-> r.drop,
         lines |-> r.lines, ts |-> r.ts]

RecordsShape ==
    /\ proc = [p \in Proc |-> proc[p]] /\ \A p \in Proc : Shape(proc[p])
    /\ content = [f \in Filter |-> content[f]]
    /\ past = [approved |-> past.approved, kept |-> past.kept, opened |-> past.opened,
               raced |-> past.raced, cut |-> past.cut, ended |-> past.ended,
               failed |-> past.failed]

(* A store as it is held in memory or read from disk has approved hashes only. *)
Approved(st) ==
    /\ st = [f \in Filter |-> st[f]]
    /\ \A f \in Filter : st[f] = None \/ <<f, st[f]>> \in past.approved

StoresApproved == Approved(LoadStore) /\ \A p \in Proc : Approved(proc[p].seen)

(* What a run compares, and what it has used, was approved. *)
ComparedIsApproved ==
    \A p \in Proc : proc[p].pc \in {"hash", "read"} =>
        proc[p].file \in Filter /\ <<proc[p].file, proc[p].hash>> \in past.approved

(* The inductive invariant. *)
TrustInv == RecordsShape /\ StoresApproved /\ ComparedIsApproved /\ OnlyTrustedFilters

-----------------------------------------------------------------------------
LEMMA InitTrustInv == Init => TrustInv
  <1> SUFFICES ASSUME Init PROVE TrustInv
    OBVIOUS
  <1>1. RecordsShape
    BY DEF Init, Resting, RecordsShape, Shape
  <1>2. Approved(NoTrust)
    BY DEF Approved, NoTrust
  <1>3. StoresApproved
    BY <1>2 DEF Init, Resting, StoresApproved, LoadStore
  <1>4. ComparedIsApproved
    BY DEF Init, Resting, ComparedIsApproved
  <1>5. OnlyTrustedFilters
    BY DEF Init, Resting, OnlyTrustedFilters
  <1> QED
    BY <1>1, <1>3, <1>4, <1>5 DEF TrustInv

(* A step of a process that leaves the store alone, and of its own locals those that *)
(* are about filters, or forgets these. Most steps are of this kind.                 *)
Unrelated(p) ==
    /\ UNCHANGED <<content, store>>
    /\ past'.approved = past.approved
    /\ past' = [approved |-> past'.approved, kept |-> past'.kept, opened |-> past'.opened,
                raced |-> past'.raced, cut |-> past'.cut, ended |-> past'.ended,
                failed |-> past'.failed]
    /\ proc' = [proc EXCEPT ![p] = proc'[p]]
    /\ Shape(proc'[p])
    /\ proc'[p].seen \in {proc[p].seen, NoTrust}
    /\ proc'[p].used \in {proc[p].used, {}}
    /\ proc'[p].pc \in {"hash", "read"} =>
          /\ proc[p].pc \in {"hash", "read"}
          /\ proc'[p].file = proc[p].file /\ proc'[p].hash = proc[p].hash

LEMMA UnrelatedTrustInv ==
    ASSUME TrustInv, NEW p \in Proc, Unrelated(p) PROVE TrustInv'
  <1> USE DEF TrustInv, RecordsShape
  <1>1. RecordsShape'
    BY DEF Unrelated, Shape
  <1>2. StoresApproved'
    BY DEF Unrelated, StoresApproved, Approved, LoadStore, NoTrust
  <1>3. ComparedIsApproved'
    BY DEF Unrelated, ComparedIsApproved
  <1>4. OnlyTrustedFilters'
    BY DEF Unrelated, OnlyTrustedFilters
  <1> QED
    BY <1>1, <1>2, <1>3, <1>4

(* The steps about the store and the filters.  Each has a step that says what it *)
(* does to the process, from which the rest follows.                             *)
LEMMA TrustPathTrustInv ==
    ASSUME TrustInv, NEW p \in Proc, NEW f \in Filter, TrustPath(p, f) \/ UntrustPath(p, f)
    PROVE  TrustInv'
  <1> DEFINE r == proc'[p]
  <1>1. /\ RecordsShape' /\ UNCHANGED store /\ past.approved \subseteq past'.approved
        /\ proc' = [proc EXCEPT ![p] = r] /\ r.used = proc[p].used /\ r.pc = "truncate"
    BY DEF TrustInv, RecordsShape, Shape, TrustPath, UntrustPath, files
  <1>2. \/ r.seen = [LoadStore EXCEPT ![f] = None]
        \/ r.seen = [LoadStore EXCEPT ![f] = content[f]] /\ <<f, content[f]>> \in past'.approved
    <2> DEFINE With(st) == [proc[p] EXCEPT !.pc = "truncate", !.seen = st]
    <2>0. \A st : proc' = [proc EXCEPT ![p] = With(st)] => r.seen = st
      BY DEF TrustInv, RecordsShape, Shape
    <2>1. CASE TrustPath(p, f)
      <3>0. proc' = [proc EXCEPT ![p] = With([LoadStore EXCEPT ![f] = content[f]])]
        BY <2>1 DEF TrustPath
      <3>1. r.seen = [LoadStore EXCEPT ![f] = content[f]]
        BY <2>0, <3>0
      <3>2. past'.approved = past.approved \cup {<<f, content[f]>>}
        BY <2>1 DEF TrustInv, RecordsShape, TrustPath
      <3> QED
        BY <3>1, <3>2
    <2>2. CASE UntrustPath(p, f)
      <3>1. proc' = [proc EXCEPT ![p] = With([LoadStore EXCEPT ![f] = None])]
        BY <2>2 DEF UntrustPath
      <3> QED
        BY <2>0, <3>1
    <2> QED
      BY <2>1, <2>2
  <1>3. StoresApproved'
    BY <1>1, <1>2 DEF TrustInv, RecordsShape, StoresApproved, Approved, LoadStore
  <1>4. ComparedIsApproved'
    BY <1>1 DEF TrustInv, RecordsShape, ComparedIsApproved
  <1>5. OnlyTrustedFilters'
    BY <1>1 DEF TrustInv, RecordsShape, OnlyTrustedFilters
  <1> QED
    BY <1>1, <1>3, <1>4, <1>5 DEF TrustInv

LEMMA WriteStoreTrustInv ==
    ASSUME TrustInv, NEW p \in Proc, TruncateStore(p) \/ WriteStore(p) PROVE TrustInv'
  <1> DEFINE r == proc'[p]
  <1>1. /\ RecordsShape' /\ UNCHANGED past /\ store' \in {Torn, proc[p].seen}
        /\ proc' = [proc EXCEPT ![p] = r] /\ r.used \in {proc[p].used, {}}
        /\ r.seen \in {proc[p].seen, NoTrust} /\ r.pc \in {"write_store", "idle"}
    BY DEF TrustInv, RecordsShape, Shape, TruncateStore, WriteStore, Go, Resting
  <1>2. Approved(NoTrust)'
    BY DEF Approved, NoTrust
  <1>3. StoresApproved'
    BY <1>1, <1>2 DEF TrustInv, RecordsShape, StoresApproved, Approved, LoadStore
  <1>4. ComparedIsApproved'
    BY <1>1 DEF TrustInv, RecordsShape, ComparedIsApproved
  <1>5. OnlyTrustedFilters'
    BY <1>1 DEF TrustInv, RecordsShape, OnlyTrustedFilters
  <1> QED
    BY <1>1, <1>3, <1>4, <1>5 DEF TrustInv

LEMMA LookUpTrustInv ==
    ASSUME TrustInv, NEW p \in Proc, NEW f \in Filter, LookUp(p, f) PROVE TrustInv'
  <1> DEFINE r == proc'[p]
  <1>1. /\ RecordsShape' /\ UNCHANGED <<past, store>>
        /\ proc' = [proc EXCEPT ![p] = r] /\ r.used = proc[p].used /\ r.seen = proc[p].seen
        /\ r.file = f /\ r.hash = LoadStore[f]
        /\ r.pc = IF LoadStore[f] = None THEN "filters" ELSE "hash"
    <2>1. /\ UNCHANGED <<content, past, store>>
          /\ proc' = [proc EXCEPT ![p] = [proc[p] EXCEPT
                          !.todo = @ \ {f}, !.file = f, !.hash = LoadStore[f],
                          !.pc = IF LoadStore[f] = None THEN "filters" ELSE "hash"]]
      BY DEF LookUp, files
    <2>2. RecordsShape'
      BY <2>1 DEF TrustInv, RecordsShape, Shape
    <2>3. proc[p] = [pc |-> proc[p].pc, run |-> proc[p].run, cmd |-> proc[p].cmd, file |-> proc[p].file,
                     hash |-> proc[p].hash, todo |-> proc[p].todo, used |-> proc[p].used,
                     seen |-> proc[p].seen, id |-> proc[p].id, drop |-> proc[p].drop,
                     lines |-> proc[p].lines, ts |-> proc[p].ts]
      BY DEF TrustInv, RecordsShape, Shape
    <2>4. r = [proc[p] EXCEPT
                          !.todo = @ \ {f}, !.file = f, !.hash = LoadStore[f],
                          !.pc = IF LoadStore[f] = None THEN "filters" ELSE "hash"]
      BY <2>1 DEF TrustInv, RecordsShape
    <2> QED
      BY <2>1, <2>2, <2>3, <2>4 DEF TrustInv, RecordsShape
  <1>2. StoresApproved'
    BY <1>1 DEF TrustInv, RecordsShape, StoresApproved, Approved, LoadStore
  <1>3. ComparedIsApproved'
    BY <1>1 DEF TrustInv, RecordsShape, ComparedIsApproved, StoresApproved, Approved
  <1>4. OnlyTrustedFilters'
    BY <1>1 DEF TrustInv, RecordsShape, OnlyTrustedFilters
  <1> QED
    BY <1>1, <1>2, <1>3, <1>4 DEF TrustInv

LEMMA ReadFilterTrustInv ==
    ASSUME TrustInv, NEW p \in Proc, ReadFilter(p) PROVE TrustInv'
  <1> DEFINE r == proc'[p]
             u == [file |-> proc[p].file, hashed |-> proc[p].hash, read |-> content[proc[p].file]]
  <1>1. /\ RecordsShape' /\ UNCHANGED <<past, store>>
        /\ proc' = [proc EXCEPT ![p] = r] /\ r.used = proc[p].used \cup {u}
        /\ r.seen = proc[p].seen /\ r.pc = "filters"
    <2>1. /\ UNCHANGED <<content, past, store>>
          /\ proc' = [proc EXCEPT ![p] = [proc[p] EXCEPT !.pc = "filters", !.used = @ \cup {u}]]
      BY DEF ReadFilter, files
    <2>2. RecordsShape'
      BY <2>1 DEF TrustInv, RecordsShape, Shape
    <2>3. proc[p] = [pc |-> proc[p].pc, run |-> proc[p].run, cmd |-> proc[p].cmd, file |-> proc[p].file,
                     hash |-> proc[p].hash, todo |-> proc[p].todo, used |-> proc[p].used,
                     seen |-> proc[p].seen, id |-> proc[p].id, drop |-> proc[p].drop,
                     lines |-> proc[p].lines, ts |-> proc[p].ts]
      BY DEF TrustInv, RecordsShape, Shape
    <2>4. r = [proc[p] EXCEPT !.pc = "filters", !.used = @ \cup {u}]
      BY <2>1 DEF TrustInv, RecordsShape
    <2> QED
      BY <2>1, <2>2, <2>3, <2>4 DEF TrustInv, RecordsShape
  <1>2. <<u.file, u.hashed>> \in past.approved
    BY DEF TrustInv, ComparedIsApproved, ReadFilter, At
  <1>3. StoresApproved'
    BY <1>1 DEF TrustInv, RecordsShape, StoresApproved, Approved, LoadStore
  <1>4. ComparedIsApproved'
    BY <1>1 DEF TrustInv, RecordsShape, ComparedIsApproved
  <1>5. OnlyTrustedFilters'
    BY <1>1, <1>2 DEF TrustInv, RecordsShape, OnlyTrustedFilters
  <1> QED
    BY <1>1, <1>3, <1>4, <1>5 DEF TrustInv

LEMMA StepsUnrelated ==
    ASSUME TrustInv, NEW p \in Proc,
           \/ \E s \in Slug : StartRun(p, s)
           \/ Hash(p) \/ RunCommand(p) \/ SaveOpen(p) \/ SaveWrite(p) \/ RotateList(p)
           \/ RotateRemove(p) \/ AppendLine(p) \/ EnsureMigrated(p) \/ ReadHistory(p)
           \/ MigrateLine(p) \/ InsertLine(p) \/ MigrateFails(p) \/ WriteMarker(p) \/ Record(p)
           \/ ProbeRow(p) \/ InsertRow(p) \/ ClearTee(p) \/ ClearHistory(p)
           \/ Crash(p) \/ SaveFails(p) \/ GiveUp(p)
    PROVE  Unrelated(p)
  <1> USE DEF Unrelated, TrustInv, RecordsShape, Shape, Go, At, Resting, files
  <1>1. CASE \E s \in Slug : StartRun(p, s)
    <2> PICK s \in Slug : StartRun(p, s)
      BY <1>1
    <2>1. /\ UNCHANGED <<content, past, store>>
          /\ \E n : proc' = [proc EXCEPT ![p] = [Resting EXCEPT !.pc = "filters", !.cmd = s, !.run = n, !.todo = Filter]]
      BY DEF StartRun
    <2> QED
      BY <2>1, ZenonT(60)
  <1>2. CASE Hash(p)
    BY <1>2 DEF Hash
  <1>3. CASE RunCommand(p)
    <2> PICK save \in BOOLEAN :
             proc' = [proc EXCEPT ![p] = [Resting EXCEPT
                          !.run = proc[p].run, !.cmd = proc[p].cmd,
                          !.pc = IF save THEN "open" ELSE "log",
                          !.id = IF save THEN <<now, proc[p].cmd>> ELSE None]]
      BY <1>3 DEF RunCommand
    <2> QED
      BY <1>3 DEF RunCommand
  <1>4. CASE SaveOpen(p) \/ SaveWrite(p)
    <2>0. UNCHANGED <<store, content>> /\ \E label \in {"write", "rotate"} : Go(p, label)
      BY <1>4 DEF SaveOpen, SaveWrite
    <2>1. /\ past'.approved = past.approved
          /\ past' = [approved |-> past'.approved, kept |-> past'.kept, opened |-> past'.opened,
                      raced |-> past'.raced, cut |-> past'.cut, ended |-> past'.ended,
                      failed |-> past'.failed]
      <3>1. CASE SaveOpen(p)
        BY <3>1 DEF SaveOpen
      <3>2. CASE SaveWrite(p)
        BY <3>2 DEF SaveWrite
      <3> QED
        BY <1>4, <3>1, <3>2
    <2> QED
      BY <2>0, <2>1
  <1>5. CASE RotateList(p) \/ RotateRemove(p)
    BY <1>5 DEF RotateList, RotateRemove
  <1>6. CASE AppendLine(p) \/ EnsureMigrated(p) \/ ReadHistory(p)
    BY <1>6 DEF AppendLine, EnsureMigrated, ReadHistory
  <1>7. CASE MigrateLine(p) \/ InsertLine(p)
    BY <1>7 DEF MigrateLine, InsertLine
  <1>8. CASE MigrateFails(p) \/ WriteMarker(p)
    BY <1>8 DEF MigrateFails, WriteMarker
  <1>9. CASE Record(p) \/ ProbeRow(p) \/ InsertRow(p)
    BY <1>9 DEF Record, ProbeRow, InsertRow, End
  <1>10. CASE ClearTee(p) \/ ClearHistory(p)
    BY <1>10 DEF ClearTee, ClearHistory
  <1>11. CASE Crash(p)
    BY <1>11 DEF Crash, StopHalfWay
  <1>12. CASE SaveFails(p) \/ GiveUp(p)
    BY <1>12 DEF SaveFails, GiveUp, StopHalfWay
  <1> QED
    BY <1>1, <1>2, <1>3, <1>4, <1>5, <1>6, <1>7, <1>8, <1>9, <1>10, <1>11, <1>12

LEMMA StepTrustInv ==
    ASSUME TrustInv, NEW p \in Proc, Step(p) PROVE TrustInv'
  <1>1. CASE \E f \in Filter : TrustPath(p, f) \/ UntrustPath(p, f) \/ LookUp(p, f)
    BY <1>1, TrustPathTrustInv, LookUpTrustInv
  <1>2. CASE TruncateStore(p) \/ WriteStore(p) \/ ReadFilter(p)
    BY <1>2, WriteStoreTrustInv, ReadFilterTrustInv
  <1>3. CASE Unrelated(p)
    BY <1>3, UnrelatedTrustInv
  <1> QED
    BY <1>1, <1>2, <1>3, StepsUnrelated DEF Step

LEMMA NextTrustInv == TrustInv /\ [Next]_vars => TrustInv'
  <1> SUFFICES ASSUME TrustInv, [Next]_vars PROVE TrustInv'
    OBVIOUS
  <1>0. ASSUME UNCHANGED <<store, proc, past>>, content' = [f \in Filter |-> content'[f]]
        PROVE  TrustInv'
    BY <1>0 DEF TrustInv, RecordsShape, StoresApproved, Approved, LoadStore, ComparedIsApproved,
                OnlyTrustedFilters
  <1>1. CASE Tick
    BY <1>0, <1>1 DEF Tick, TrustInv, RecordsShape, files
  <1>2. CASE \E f \in Filter : Edit(f)
    <2> PICK f \in Filter : Edit(f)
      BY <1>2
    <2>1. \E v : content' = [content EXCEPT ![f] = v]
      BY DEF Edit
    <2> QED
      BY <1>0, <2>1 DEF Edit, TrustInv, RecordsShape
  <1>3. CASE \E p \in Proc : Step(p)
    BY <1>3, StepTrustInv
  <1>4. CASE UNCHANGED vars
    BY <1>0, <1>4 DEF vars, files, TrustInv, RecordsShape
  <1> QED
    BY <1>1, <1>2, <1>3, <1>4 DEF Next

(* A project's filter is used only when somebody trusted the very content that was *)
(* hashed, however the store was written, cut or raced for since (check_trust).    *)
THEOREM OnlyTrustedFiltersHolds == Spec => []OnlyTrustedFilters
  <1>1. TrustInv => OnlyTrustedFilters
    BY DEF TrustInv
  <1> QED
    BY <1>1, InitTrustInv, NextTrustInv, PTL DEF Spec

-----------------------------------------------------------------------------
(* The usage history and its table: what a step of a process does to them. *)
LeftShape == left = [runs |-> left.runs, ops |-> left.ops, edits |-> left.edits, faults |-> left.faults]
Others(p) == \A q \in Proc \ {p} : proc'[q] = proc[q]
SameRun(p) == proc'[p].run = proc[p].run /\ proc'[p].cmd = proc[p].cmd

(* It leaves them alone: the command runs on, or it is no run, or it dies. *)
Aside(p) ==
    /\ UNCHANGED <<now, book>> /\ past'.ended = past.ended /\ past'.failed = past.failed
    /\ left'.runs = left.runs /\ LeftShape' /\ Others(p)
    /\ \/ proc[p].pc \in Running /\ proc'[p].pc \in Running /\ SameRun(p)
       \/ proc'[p].pc \in Outside
       \/ proc'[p] = proc[p]
    /\ proc'[p].lines \in {<<>>, proc[p].lines} /\ proc'[p].ts \in {0, proc[p].ts}

(* A run starts. *)
Begins(p) ==
    /\ UNCHANGED <<now, book, past>> /\ left.runs > 0 /\ left'.runs = left.runs - 1 /\ LeftShape'
    /\ Others(p) /\ proc[p].pc \notin Running
    /\ proc'[p].pc = "filters" /\ proc'[p].run = MaxRuns - left.runs + 1 /\ proc'[p].cmd \in Slug
    /\ proc'[p].lines = <<>> /\ proc'[p].ts = 0

(* It writes its line and its row, after those of the history. *)
Books(p) ==
    /\ UNCHANGED now /\ left'.runs = left.runs /\ LeftShape' /\ Others(p)
    /\ \/ /\ proc[p].pc = "log" /\ proc'[p].pc = "marker"
          /\ jsonl' = Append(jsonl, Line(proc[p].run, now, proc[p].cmd))
       \/ proc[p].pc \in Booking /\ UNCHANGED jsonl
       \/ proc[p].pc = "log" /\ proc'[p].pc = "marker" /\ UNCHANGED jsonl
    /\ \/ UNCHANGED rows
       \/ proc[p].pc = "insert" /\ rows' = Append(rows, Row(proc[p].ts, proc[p].cmd))
       \/ /\ proc[p].pc = "insert_line"
          /\ rows' = Append(rows, Row(Head(proc[p].lines).ts, Head(proc[p].lines).cmd))
    /\ \/ proc'[p].pc \in Booking /\ SameRun(p) /\ (proc'[p].pc = "insert_line" => proc'[p].lines # <<>>)
       \/ proc'[p].pc = "idle"
    /\ \/ proc'[p].lines \in {<<>>, proc[p].lines, jsonl}
       \/ /\ proc[p].pc = "insert_line" \/ proc[p].lines # <<>>
          /\ proc'[p].lines = Tail(proc[p].lines)
    /\ proc'[p].ts \in {0, proc[p].ts, now} /\ marker' \in {marker, TRUE}

LEMMA LocalsOf ==
    ASSUME RecordsShape, NEW p \in Proc, NEW r, proc' = [proc EXCEPT ![p] = r]
    PROVE  proc'[p] = r /\ Others(p)
  BY DEF RecordsShape, Others

LEMMA RunsBegin ==
    ASSUME RecordsShape, LeftShape, NEW p \in Proc, NEW s \in Slug, StartRun(p, s) PROVE Begins(p)
  <1>1. /\ At(p, "idle") /\ left.runs > 0 /\ left' = [left EXCEPT !.runs = @ - 1]
        /\ proc' = [proc EXCEPT ![p] = [Resting EXCEPT !.pc = "filters", !.cmd = s,
                                            !.run = MaxRuns - left.runs + 1, !.todo = Filter]]
        /\ UNCHANGED <<now, book, past>>
    BY DEF StartRun, Spend
  <1>2. proc'[p] = [Resting EXCEPT !.pc = "filters", !.cmd = s,
                       !.run = MaxRuns - left.runs + 1, !.todo = Filter] /\ Others(p)
    BY <1>1 DEF RecordsShape, Others
  <1>3. left'.runs = left.runs - 1 /\ LeftShape'
    BY <1>1 DEF LeftShape
  <1>4. /\ proc'[p].pc = "filters" /\ proc'[p].run = MaxRuns - left.runs + 1 /\ proc'[p].cmd = s
        /\ proc'[p].lines = <<>> /\ proc'[p].ts = 0
    BY <1>2 DEF Resting
  <1> QED
    BY <1>1, <1>2, <1>3, <1>4 DEF Begins, At, Running

LEMMA StepsAside ==
    ASSUME RecordsShape, LeftShape, NEW p \in Proc,
           \/ \E f \in Filter : TrustPath(p, f) \/ UntrustPath(p, f) \/ LookUp(p, f)
           \/ TruncateStore(p) \/ WriteStore(p) \/ Hash(p) \/ ReadFilter(p) \/ RunCommand(p)
           \/ SaveOpen(p) \/ SaveWrite(p) \/ RotateList(p) \/ RotateRemove(p)
           \/ ClearTee(p) \/ Crash(p) \/ SaveFails(p) \/ GiveUp(p)
    PROVE  Aside(p)
  <1> USE DEF Aside, RecordsShape, Shape, LeftShape, Others, SameRun, Go, At, Spend, Running, Outside
  <1>1. ASSUME NEW f \in Filter, TrustPath(p, f) PROVE Aside(p)
    <2> DEFINE r == [proc[p] EXCEPT !.pc = "truncate", !.seen = [LoadStore EXCEPT ![f] = content[f]]]
    <2>1. proc' = [proc EXCEPT ![p] = r] /\ UNCHANGED <<now, book>> /\ left' = [left EXCEPT !.ops = @ - 1]
          /\ past' = [past EXCEPT !.approved = @ \cup {<<f, content[f]>>}]
      BY <1>1 DEF TrustPath
    <2>2. r.pc = "truncate" /\ r.lines = proc[p].lines /\ r.ts = proc[p].ts
      OBVIOUS
    <2> HIDE DEF r
    <2>3. proc'[p] = r /\ Others(p)
      BY <2>1, LocalsOf
    <2> QED
      BY <2>1, <2>2, <2>3
  <1>2. ASSUME NEW f \in Filter, UntrustPath(p, f) PROVE Aside(p)
    <2> DEFINE r == [proc[p] EXCEPT !.pc = "truncate", !.seen = [LoadStore EXCEPT ![f] = None]]
    <2>1. proc' = [proc EXCEPT ![p] = r] /\ UNCHANGED <<now, book, past>> /\ left' = [left EXCEPT !.ops = @ - 1]
      BY <1>2 DEF UntrustPath
    <2>2. r.pc = "truncate" /\ r.lines = proc[p].lines /\ r.ts = proc[p].ts
      OBVIOUS
    <2> HIDE DEF r
    <2>3. proc'[p] = r /\ Others(p)
      BY <2>1, LocalsOf
    <2> QED
      BY <2>1, <2>2, <2>3
  <1>3. ASSUME NEW f \in Filter, LookUp(p, f) PROVE Aside(p)
    <2> DEFINE r == [proc[p] EXCEPT !.todo = @ \ {f}, !.file = f, !.hash = LoadStore[f],
                                     !.pc = IF LoadStore[f] = None THEN "filters" ELSE "hash"]
    <2>1. proc' = [proc EXCEPT ![p] = r] /\ UNCHANGED <<now, book, past, left>> /\ proc[p].pc = "filters"
      BY <1>3 DEF LookUp
    <2>2. /\ r.pc \in {"filters", "hash"} /\ r.lines = proc[p].lines /\ r.ts = proc[p].ts
          /\ r.run = proc[p].run /\ r.cmd = proc[p].cmd
      OBVIOUS
    <2> HIDE DEF r
    <2>3. proc'[p] = r /\ Others(p)
      BY <2>1, LocalsOf
    <2> QED
      BY <2>1, <2>2, <2>3
  <1>4. CASE TruncateStore(p) \/ WriteStore(p)
    BY <1>4 DEF TruncateStore, WriteStore, Resting
  <1>5. CASE Hash(p)
    BY <1>5 DEF Hash
  <1>6. CASE ReadFilter(p)
    <2> DEFINE r == [proc[p] EXCEPT !.pc = "filters", !.used = @ \cup
                        {[file |-> proc[p].file, hashed |-> proc[p].hash, read |-> content[proc[p].file]]}]
    <2>1. proc' = [proc EXCEPT ![p] = r] /\ UNCHANGED <<now, book, past, left>> /\ proc[p].pc = "read"
      BY <1>6 DEF ReadFilter
    <2>2. /\ r.pc = "filters" /\ r.lines = proc[p].lines /\ r.ts = proc[p].ts
          /\ r.run = proc[p].run /\ r.cmd = proc[p].cmd
      OBVIOUS
    <2> HIDE DEF r
    <2>3. proc'[p] = r /\ Others(p)
      BY <2>1, LocalsOf
    <2> QED
      BY <2>1, <2>2, <2>3
  <1>7. CASE RunCommand(p)
    <2> PICK save \in BOOLEAN :
             proc' = [proc EXCEPT ![p] = [Resting EXCEPT
                          !.run = proc[p].run, !.cmd = proc[p].cmd,
                          !.pc = IF save THEN "open" ELSE "log",
                          !.id = IF save THEN <<now, proc[p].cmd>> ELSE None]]
      BY <1>7 DEF RunCommand
    <2> DEFINE r == [Resting EXCEPT !.run = proc[p].run, !.cmd = proc[p].cmd,
                          !.pc = IF save THEN "open" ELSE "log",
                          !.id = IF save THEN <<now, proc[p].cmd>> ELSE None]
    <2>1. UNCHANGED <<now, book, past, left>> /\ proc[p].pc = "filters"
      BY <1>7 DEF RunCommand
    <2>2. /\ r.pc \in {"open", "log"} /\ r.lines = <<>> /\ r.ts = 0
          /\ r.run = proc[p].run /\ r.cmd = proc[p].cmd
      BY DEF Resting
    <2>3. proc' = [proc EXCEPT ![p] = r]
      OBVIOUS
    <2> HIDE DEF r
    <2>4. proc'[p] = r /\ Others(p)
      BY <2>3, LocalsOf
    <2> QED
      BY <2>1, <2>2, <2>4
  <1>8. CASE SaveOpen(p)
    BY <1>8 DEF SaveOpen
  <1>9. CASE SaveWrite(p)
    BY <1>9 DEF SaveWrite
  <1>10. CASE RotateList(p)
    BY <1>10 DEF RotateList
  <1>11. CASE RotateRemove(p)
    BY <1>11 DEF RotateRemove
  <1>12. CASE ClearTee(p)
    BY <1>12 DEF ClearTee
  <1>13. CASE Crash(p)
    BY <1>13 DEF Crash, StopHalfWay, Resting
  <1>14. CASE GiveUp(p)
    BY <1>14 DEF GiveUp, Resting
  <1>15. CASE SaveFails(p)
    <2> DEFINE r == [proc[p] EXCEPT !.pc = "log", !.id = None]
    <2>1. /\ proc' = [proc EXCEPT ![p] = r] /\ UNCHANGED <<now, book>> /\ proc[p].pc = "write"
          /\ left' = [left EXCEPT !.faults = @ - 1]
          /\ past'.ended = past.ended /\ past'.failed = past.failed
      BY <1>15 DEF SaveFails, StopHalfWay
    <2>2. /\ r.pc = "log" /\ r.lines = proc[p].lines /\ r.ts = proc[p].ts
          /\ r.run = proc[p].run /\ r.cmd = proc[p].cmd
      OBVIOUS
    <2> HIDE DEF r
    <2>3. proc'[p] = r /\ Others(p)
      BY <2>1, LocalsOf
    <2> QED
      BY <2>1, <2>2, <2>3
  <1> QED
    BY <1>1, <1>2, <1>3, <1>4, <1>5, <1>6, <1>7, <1>8, <1>9, <1>10, <1>11, <1>12, <1>13,
       <1>14, <1>15

LEMMA RunsAreBooked ==
    ASSUME RecordsShape, LeftShape, NEW p \in Proc,
           \/ AppendLine(p) \/ EnsureMigrated(p) \/ ReadHistory(p) \/ MigrateLine(p) \/ InsertLine(p)
           \/ MigrateFails(p) \/ WriteMarker(p) \/ Record(p) \/ ProbeRow(p) \/ InsertRow(p)
    PROVE  Books(p)
  <1> USE DEF Books, RecordsShape, Shape, LeftShape, Others, SameRun, Go, At, Spend, Booking, book
  <1>1. CASE AppendLine(p)
    BY <1>1 DEF AppendLine
  <1>2. CASE EnsureMigrated(p)
    BY <1>2 DEF EnsureMigrated
  <1>3. CASE ReadHistory(p)
    BY <1>3 DEF ReadHistory
  <1>4. CASE MigrateLine(p)
    <2> DEFINE h == Head(proc[p].lines)
    <2>0. /\ proc[p].pc = "migrate" /\ proc[p].lines # <<>>
          /\ UNCHANGED <<now, book, left, past>>
          /\ IF Probe(Row(h.ts, h.cmd))
             THEN proc' = [proc EXCEPT ![p].lines = Tail(@)]
             ELSE proc' = [proc EXCEPT ![p].pc = "insert_line"]
      BY <1>4 DEF MigrateLine
    <2>1. CASE proc' = [proc EXCEPT ![p].lines = Tail(@)]
      <3> DEFINE r == [proc[p] EXCEPT !.lines = Tail(@)]
      <3>1. proc' = [proc EXCEPT ![p] = r]
        BY <2>1
      <3>2. /\ r.pc = proc[p].pc /\ r.lines = Tail(proc[p].lines) /\ r.ts = proc[p].ts
            /\ r.run = proc[p].run /\ r.cmd = proc[p].cmd
        OBVIOUS
      <3> HIDE DEF r, h
      <3>3. proc'[p] = r /\ Others(p)
        BY <3>1, LocalsOf
      <3> QED
        BY <2>0, <3>2, <3>3
    <2>2. CASE proc' = [proc EXCEPT ![p].pc = "insert_line"]
      <3> HIDE DEF h
      <3> QED
        BY <2>0, <2>2
    <2> QED
      BY <2>0, <2>1, <2>2
  <1>5. CASE InsertLine(p)
    <2> DEFINE r == [proc[p] EXCEPT !.pc = "migrate", !.lines = Tail(@)]
    <2>1. /\ proc' = [proc EXCEPT ![p] = r] /\ UNCHANGED <<now, jsonl, marker, left, past>>
          /\ proc[p].pc = "insert_line"
          /\ rows' = Append(rows, Row(Head(proc[p].lines).ts, Head(proc[p].lines).cmd))
      BY <1>5 DEF InsertLine
    <2>2. /\ r.pc = "migrate" /\ r.lines = Tail(proc[p].lines) /\ r.ts = proc[p].ts
          /\ r.run = proc[p].run /\ r.cmd = proc[p].cmd
      OBVIOUS
    <2> HIDE DEF r
    <2>3. proc'[p] = r /\ Others(p)
      BY <2>1, LocalsOf
    <2> QED
      BY <2>1, <2>2, <2>3
  <1>6. CASE MigrateFails(p)
    <2> DEFINE r == [proc[p] EXCEPT !.pc = "migrate", !.lines = <<>>]
    <2>1. /\ proc' = [proc EXCEPT ![p] = r] /\ UNCHANGED <<now, book>>
          /\ proc[p].pc \in {"read_history", "migrate", "insert_line"}
          /\ left' = [left EXCEPT !.faults = @ - 1]
      BY <1>6 DEF MigrateFails
    <2>2. /\ r.pc = "migrate" /\ r.lines = <<>> /\ r.ts = proc[p].ts
          /\ r.run = proc[p].run /\ r.cmd = proc[p].cmd
      OBVIOUS
    <2> HIDE DEF r
    <2>3. proc'[p] = r /\ Others(p)
      BY <2>1, LocalsOf
    <2> QED
      BY <2>1, <2>2, <2>3
  <1>7. CASE WriteMarker(p)
    <2>1. /\ proc' = [proc EXCEPT ![p].pc = "record"] /\ proc[p].pc = "migrate"
          /\ UNCHANGED <<now, jsonl, rows>> /\ marker' \in {marker, TRUE}
          /\ left' = left \/ left' = [left EXCEPT !.faults = @ - 1]
      BY <1>7 DEF WriteMarker
    <2>2. left'.runs = left.runs /\ LeftShape'
      BY <2>1
    <2>3. /\ Others(p) /\ proc'[p].pc = "record" /\ SameRun(p)
          /\ proc'[p].lines = proc[p].lines /\ proc'[p].ts = proc[p].ts
      BY <2>1
    <2> QED
      BY <2>1, <2>2, <2>3
  <1>8. CASE Record(p)
    BY <1>8 DEF Record
  <1>9. CASE ProbeRow(p)
    BY <1>9 DEF ProbeRow, End, Resting
  <1>10. CASE InsertRow(p)
    BY <1>10 DEF InsertRow, End, Resting
  <1> QED
    BY <1>1, <1>2, <1>3, <1>4, <1>5, <1>6, <1>7, <1>8, <1>9, <1>10

-----------------------------------------------------------------------------
(* The types of the history, of the table and of what a run holds of them. *)
Started == 1 .. (MaxRuns - left.runs)
Counted == left.runs \in 0 .. MaxRuns /\ LeftShape /\ now \in 0 .. MaxNow
BookTyped == jsonl \in Seq(LineType) /\ rows \in Seq(RowType) /\ marker \in BOOLEAN
RunTyped(p) ==
    /\ proc[p].pc \in Running \cup Booking \cup Outside
    /\ proc[p].lines \in Seq(LineType) /\ proc[p].ts \in Nat
    /\ proc[p].pc \in Running \cup Booking => proc[p].run \in Started /\ proc[p].cmd \in Slug
    /\ proc[p].pc = "insert_line" => proc[p].lines # <<>>

(* A run has one line, or is still running and has none. *)
LinesOnce ==
    /\ \A i \in DOMAIN jsonl : jsonl[i].run \in Old \cup Started
    /\ \A i, j \in DOMAIN jsonl : jsonl[i].run = jsonl[j].run => i = j
RunsOnce ==
    /\ \A p \in Proc : proc[p].pc \in Running => \A i \in DOMAIN jsonl : jsonl[i].run # proc[p].run
    /\ \A p, q \in Proc : /\ proc[p].pc \in Running /\ proc[q].pc \in Running
                          /\ proc[p].run = proc[q].run
                          => p = q

(* The inductive invariant of the history. *)
BookInv == Counted /\ BookTyped /\ (\A p \in Proc : RunTyped(p)) /\ LinesOnce /\ RunsOnce

LEMMA InitBookInv == Init => BookInv
  <1> SUFFICES ASSUME Init PROVE BookInv
    OBVIOUS
  <1>1. Counted
    BY RecordsAssumption DEF Init, Counted, LeftShape
  <1>2. PICK q \in OldLines, s \in Slug : jsonl = [i \in DOMAIN q |-> Line(q[i], 0, s)]
    BY DEF Init
  <1>3. /\ Cardinality(Old) \in Nat /\ DOMAIN q = 1 .. Cardinality(Old)
        /\ \A i \in DOMAIN q : q[i] \in Old
        /\ \A i, j \in DOMAIN q : q[i] = q[j] => i = j
    BY OldAssumption, FS_CardinalityType DEF OldLines
  <1>4. DOMAIN jsonl = DOMAIN q /\ \A i \in DOMAIN jsonl : jsonl[i] = Line(q[i], 0, s)
    BY <1>2
  <1>5. jsonl \in Seq(LineType)
    <2>1. \A i \in 1 .. Cardinality(Old) : Line(q[i], 0, s) \in LineType
      BY <1>3 DEF LineType, Line, Run
    <2>2. jsonl = [i \in 1 .. Cardinality(Old) |-> Line(q[i], 0, s)]
      BY <1>2, <1>3
    <2> QED
      BY <1>3, <2>1, <2>2
  <1>6. BookTyped /\ \A p \in Proc : RunTyped(p)
    BY <1>5, EmptySeq DEF Init, BookTyped, RunTyped, Resting, Running, Booking, Outside
  <1>7. LinesOnce
    BY <1>3, <1>4 DEF LinesOnce, Line
  <1>8. RunsOnce
    BY DEF Init, RunsOnce, Resting, Running
  <1> QED
    BY <1>1, <1>6, <1>7, <1>8 DEF BookInv

LEMMA AsideBookInv ==
    ASSUME BookInv, NEW p \in Proc, Aside(p) PROVE BookInv'
  <1> USE DEF BookInv
  <1>1. Counted' /\ Started' = Started /\ BookTyped'
    BY DEF Aside, Counted, LeftShape, BookTyped, Started, book
  <1>2. ASSUME NEW q \in Proc PROVE RunTyped(q)'
    <2>1. CASE q # p
      BY <1>1, <2>1 DEF Aside, Others, RunTyped
    <2>2. CASE q = p
      <3>1. RunTyped(p)
        OBVIOUS
      <3>2. proc'[p].lines \in Seq(LineType) /\ proc'[p].ts \in Nat
        <4>1. proc'[p].lines \in {<<>>, proc[p].lines} /\ proc'[p].ts \in {0, proc[p].ts}
          BY DEF Aside
        <4>2. <<>> \in Seq(LineType)
          BY EmptySeq
        <4>3. proc[p].lines \in Seq(LineType) /\ proc[p].ts \in Nat
          BY <3>1 DEF RunTyped
        <4>4. proc'[p].lines \in Seq(LineType)
          BY <4>1, <4>2, <4>3
        <4>5. proc'[p].ts \in Nat
          BY <4>1, <4>3
        <4> QED
          BY <4>4, <4>5
      <3>3. CASE proc'[p].pc \in Outside
        BY <2>2, <3>2, <3>3 DEF RunTyped, Running, Booking, Outside
      <3>4. CASE proc[p].pc \in Running /\ proc'[p].pc \in Running /\ SameRun(p)
        BY <1>1, <2>2, <3>1, <3>2, <3>4 DEF SameRun, RunTyped, Running
      <3>5. CASE proc'[p] = proc[p]
        BY <1>1, <2>2, <3>1, <3>5 DEF RunTyped
      <3> QED
        BY <3>3, <3>4, <3>5 DEF Aside
    <2> QED
      BY <2>1, <2>2
  <1>3. LinesOnce'
    BY <1>1 DEF LinesOnce, Aside, book
  <1>4. \A q \in Proc : proc'[q].pc \in Running => proc[q].pc \in Running /\ proc'[q].run = proc[q].run
    BY DEF Aside, Others, SameRun, Running, Outside
  <1>5. RunsOnce'
    BY <1>4 DEF RunsOnce, Aside, book
  <1> QED
    BY <1>1, <1>2, <1>3, <1>5

LEMMA BeginsBookInv ==
    ASSUME BookInv, NEW p \in Proc, Begins(p) PROVE BookInv'
  <1> USE DEF BookInv
  <1> DEFINE new == MaxRuns - left.runs + 1
  <1>1. /\ Counted' /\ Started' = Started \cup {new} /\ BookTyped'
        /\ new \notin Started /\ new \notin Old
    BY RecordsAssumption, OldAssumption DEF Begins, Counted, LeftShape, BookTyped, Started, book
  <1>2. ASSUME NEW q \in Proc PROVE RunTyped(q)'
    <2>1. CASE q # p
      BY <1>1, <2>1 DEF Begins, Others, RunTyped
    <2>2. CASE q = p
      <3>1. proc'[p].lines \in Seq(LineType) /\ proc'[p].ts \in Nat
        BY EmptySeq DEF Begins
      <3>2. proc'[p].pc = "filters" /\ proc'[p].run \in Started' /\ proc'[p].cmd \in Slug
        BY <1>1 DEF Begins
      <3> QED
        BY <2>2, <3>1, <3>2 DEF RunTyped, Running
    <2> QED
      BY <2>1, <2>2
  <1>3. LinesOnce'
    BY <1>1 DEF LinesOnce, Begins, book
  <1>4. /\ UNCHANGED jsonl /\ proc'[p].run = new /\ \A i \in DOMAIN jsonl : jsonl[i].run # new
        /\ \A q \in Proc \ {p} : proc'[q] = proc[q]
    BY <1>1 DEF Begins, book, Others, LinesOnce
  <1>5. \A q \in Proc : proc[q].pc \in Running => proc[q].run # new
    BY <1>1 DEF RunTyped
  <1>6. RunsOnce'
    BY <1>4, <1>5 DEF RunsOnce
  <1> QED
    BY <1>1, <1>2, <1>3, <1>6

LEMMA BooksBookInv ==
    ASSUME BookInv, NEW p \in Proc, Books(p) PROVE BookInv'
  <1> USE DEF BookInv
  <1> DEFINE l == Line(proc[p].run, now, proc[p].cmd)
  <1>1. Counted' /\ Started' = Started
    BY DEF Books, Counted, LeftShape, Started
  <1>2. \/ UNCHANGED jsonl
        \/ proc[p].pc = "log" /\ jsonl' = Append(jsonl, l)
    BY DEF Books
  <1>3. proc[p].pc = "log" => l \in LineType /\ l.run = proc[p].run /\ l.run \in Started
    BY RecordsAssumption DEF RunTyped, Running, Line, LineType, Run, Started, Counted
  <1>4. jsonl' \in Seq(LineType)
    <2> HIDE DEF l
    <2> QED
      BY <1>2, <1>3, AppendProperties DEF BookTyped
  <1>5. rows' \in Seq(RowType)
    <2>1. RunTyped(p)
      OBVIOUS
    <2>2. ASSUME proc[p].pc = "insert_line"
          PROVE  Row(Head(proc[p].lines).ts, Head(proc[p].lines).cmd) \in RowType
      <3>1. Head(proc[p].lines) \in LineType
        BY <2>1, <2>2 DEF RunTyped
      <3> QED
        BY <3>1 DEF LineType, RowType, Row
    <2>3. ASSUME proc[p].pc = "insert" PROVE Row(proc[p].ts, proc[p].cmd) \in RowType
      BY <2>1, <2>3 DEF RunTyped, Booking, RowType, Row
    <2>4. rows' = rows \/ \E r \in RowType : rows' = Append(rows, r)
      BY <2>2, <2>3 DEF Books
    <2> QED
      BY <2>4, AppendProperties DEF BookTyped
  <1>6. BookTyped'
    BY <1>4, <1>5 DEF BookTyped, Books
  <1>7. ASSUME NEW q \in Proc PROVE RunTyped(q)'
    <2>1. CASE q # p
      BY <1>1, <2>1 DEF Books, Others, RunTyped
    <2>2. CASE q = p
      <3>1. proc'[p].lines \in Seq(LineType)
        <4>1. proc[p].lines \in Seq(LineType) /\ jsonl \in Seq(LineType)
              /\ (proc[p].pc = "insert_line" => proc[p].lines # <<>>)
          BY DEF RunTyped, BookTyped
        <4>2. proc[p].lines # <<>> => Tail(proc[p].lines) \in Seq(LineType)
          BY <4>1
        <4> QED
          BY <4>1, <4>2, EmptySeq DEF Books
      <3>2. proc'[p].ts \in Nat
        BY DEF RunTyped, Books, Counted
      <3>3. proc[p].pc \in Running \cup Booking
        BY DEF Books, Running, Booking
      <3> QED
        BY <1>1, <2>2, <3>1, <3>2, <3>3 DEF Books, SameRun, RunTyped, Booking, Running, Outside
    <2> QED
      BY <2>1, <2>2
  <1>8. \A q \in Proc : proc'[q].pc \in Running => q # p /\ proc'[q] = proc[q]
    BY DEF Books, Others, Running, Booking
  <1>9. CASE UNCHANGED jsonl
    <2>1. LinesOnce' /\ RunsOnce'
      BY <1>1, <1>8, <1>9 DEF LinesOnce, RunsOnce
    <2> QED
      BY <1>1, <1>6, <1>7, <2>1
  <1>10. CASE proc[p].pc = "log" /\ jsonl' = Append(jsonl, l)
    <2>1. proc[p].pc \in Running /\ l.run = proc[p].run /\ l.run \in Started
      BY <1>3, <1>10 DEF Running
    <2> HIDE DEF l
    <2>2. /\ DOMAIN jsonl = 1 .. Len(jsonl) /\ Len(jsonl) \in Nat
          /\ DOMAIN jsonl' = 1 .. Len(jsonl) + 1
          /\ jsonl'[Len(jsonl) + 1] = l /\ \A i \in DOMAIN jsonl : jsonl'[i] = jsonl[i]
      BY <1>3, <1>10, AppendProperties DEF BookTyped
    <2>3. \A i \in DOMAIN jsonl : jsonl[i].run # l.run
      BY <2>1 DEF RunsOnce
    <2>4. LinesOnce'
      <3>1. \A i \in DOMAIN jsonl' : jsonl'[i].run \in Old \cup Started
        BY <2>1, <2>2 DEF LinesOnce
      <3>2. \A i, j \in DOMAIN jsonl' : jsonl'[i].run = jsonl'[j].run => i = j
        <4> SUFFICES ASSUME NEW i \in DOMAIN jsonl', NEW j \in DOMAIN jsonl',
                            jsonl'[i].run = jsonl'[j].run
                     PROVE  i = j
          OBVIOUS
        <4>1. i \in DOMAIN jsonl \/ i = Len(jsonl) + 1
          BY <2>2
        <4>2. j \in DOMAIN jsonl \/ j = Len(jsonl) + 1
          BY <2>2
        <4> QED
          BY <2>2, <2>3, <4>1, <4>2 DEF LinesOnce
      <3> QED
        BY <1>1, <3>1, <3>2 DEF LinesOnce
    <2>5. ASSUME NEW q \in Proc, proc'[q].pc \in Running, NEW i \in DOMAIN jsonl'
          PROVE  jsonl'[i].run # proc'[q].run
      <3>1. q # p /\ proc'[q] = proc[q] /\ proc[q].run # l.run
        BY <1>8, <2>1, <2>5 DEF RunsOnce
      <3>2. i \in DOMAIN jsonl \/ i = Len(jsonl) + 1
        BY <2>2
      <3> QED
        BY <2>2, <2>5, <3>1, <3>2 DEF RunsOnce
    <2>6. RunsOnce'
      BY <1>8, <2>5 DEF RunsOnce
    <2> QED
      BY <1>1, <1>6, <1>7, <2>4, <2>6
  <1> QED
    BY <1>2, <1>9, <1>10

(* The other steps change the clock, the filters, or clear the history. *)
LEMMA NextBookInv == TrustInv /\ BookInv /\ [Next]_vars => BookInv'
  <1> SUFFICES ASSUME TrustInv, BookInv, [Next]_vars PROVE BookInv'
    OBVIOUS
  <1> USE DEF TrustInv
  <1>0. LeftShape
    BY DEF BookInv, Counted
  <1>1. ASSUME UNCHANGED <<proc, rows, marker>>, left'.runs = left.runs, LeftShape',
               now' \in 0 .. MaxNow, jsonl' \in {jsonl, <<>>}
        PROVE  BookInv'
    <2>1. Counted' /\ Started' = Started
      BY <1>1 DEF BookInv, Counted, Started
    <2>2. BookTyped'
      BY <1>1, EmptySeq DEF BookInv, BookTyped
    <2>3. \A p \in Proc : RunTyped(p)'
      BY <1>1, <2>1 DEF BookInv, RunTyped
    <2>4. LinesOnce' /\ RunsOnce'
      BY <1>1, <2>1 DEF BookInv, LinesOnce, RunsOnce
    <2> QED
      BY <2>1, <2>2, <2>3, <2>4 DEF BookInv
  <1>2. CASE Tick
    <2>1. now \in 0 .. MaxNow
      BY DEF BookInv, Counted
    <2>2. now' \in 0 .. MaxNow
      BY <1>2, <2>1, RecordsAssumption DEF Tick
    <2>3. UNCHANGED <<proc, left, jsonl, rows, marker>> /\ LeftShape'
      BY <1>0, <1>2 DEF Tick, LeftShape, book
    <2> QED
      BY <1>1, <2>2, <2>3
  <1>3. CASE \E f \in Filter : Edit(f)
    BY <1>0, <1>1, <1>3 DEF Edit, Spend, BookInv, Counted, LeftShape, book
  <1>4. ASSUME NEW p \in Proc, Step(p) PROVE BookInv'
    <2>1. CASE \E s \in Slug : StartRun(p, s)
      BY <1>0, <2>1, RunsBegin, BeginsBookInv
    <2>2. CASE ClearHistory(p)
      BY <1>0, <1>1, <2>2 DEF ClearHistory, Spend, BookInv, Counted, LeftShape
    <2>3. CASE \/ \E f \in Filter : TrustPath(p, f) \/ UntrustPath(p, f) \/ LookUp(p, f)
               \/ TruncateStore(p) \/ WriteStore(p) \/ Hash(p) \/ ReadFilter(p) \/ RunCommand(p)
               \/ SaveOpen(p) \/ SaveWrite(p) \/ RotateList(p) \/ RotateRemove(p)
               \/ ClearTee(p) \/ Crash(p) \/ SaveFails(p) \/ GiveUp(p)
      BY <1>0, <2>3, StepsAside, AsideBookInv
    <2>4. CASE \/ AppendLine(p) \/ EnsureMigrated(p) \/ ReadHistory(p) \/ MigrateLine(p)
               \/ InsertLine(p) \/ MigrateFails(p) \/ WriteMarker(p) \/ Record(p) \/ ProbeRow(p)
               \/ InsertRow(p)
      BY <1>0, <2>4, RunsAreBooked, BooksBookInv
    <2> QED
      BY <1>4, <2>1, <2>2, <2>3, <2>4 DEF Step
  <1>5. CASE UNCHANGED vars
    BY <1>1, <1>5 DEF vars, book, BookInv, Counted, LeftShape
  <1> QED
    BY <1>2, <1>3, <1>4, <1>5 DEF Next

-----------------------------------------------------------------------------
(* The table: what the old history still waits for, and which runs have ended. *)
OldLine(l) == l.run \in Old /\ \E i \in DOMAIN jsonl : jsonl[i] = l
Held(p, l) == \E k \in DOMAIN proc[p].lines : proc[p].lines[k] = l
Migrating(p) == proc[p].pc \in {"migrate", "insert_line"}

(* Until one fails, a migration holds every old line that has no row yet. *)
MigrationHoldsTheRest ==
    \A p \in Proc : Migrating(p) /\ ~past.failed =>
        \A l : OldLine(l) => HasRow(Row(l.ts, l.cmd)) \/ Held(p, l)

TableInv == EndedRunsHaveRows /\ OldHistoryIsInTheTable /\ MigrationHoldsTheRest

(* What every step does to the history and the table. *)
Ledger(p) ==
    /\ \A l : OldLine(l)' => OldLine(l)
    /\ \A row : HasRow(row) => HasRow(row)'
    /\ past'.failed \in {past.failed, TRUE} /\ Others(p)
    /\ marker' => marker \/ (Migrating(p) /\ \A l : ~Held(p, l))
    /\ \/ ~Migrating(p)' \/ past'.failed
       \/ proc[p].pc = "read_history" /\ \A l : OldLine(l) => Held(p, l)'
       \/ Migrating(p) /\ \A l : Held(p, l) => Held(p, l)' \/ HasRow(Row(l.ts, l.cmd))'
    /\ \A e \in past'.ended : e \in past.ended \/ HasRow(e.row)'

LEMMA LedgerTableInv ==
    ASSUME TableInv, NEW p \in Proc, Ledger(p) PROVE TableInv'
  <1>1. EndedRunsHaveRows'
    BY DEF TableInv, EndedRunsHaveRows, Ledger
  <1>2. ASSUME NEW q \in Proc, Migrating(q)', ~past'.failed, NEW l, OldLine(l)'
        PROVE  HasRow(Row(l.ts, l.cmd))' \/ Held(q, l)'
    <2>0. OldLine(l) /\ ~past.failed
      BY <1>2 DEF Ledger
    <2>1. CASE q # p
      <3>1. Migrating(q) /\ (Held(q, l) <=> Held(q, l)')
        BY <1>2, <2>1 DEF Ledger, Others, Migrating, Held
      <3> QED
        BY <2>0, <3>1 DEF Ledger, TableInv, MigrationHoldsTheRest
    <2>2. CASE q = p
      <3>1. Migrating(p) => HasRow(Row(l.ts, l.cmd)) \/ Held(p, l)
        BY <2>0 DEF TableInv, MigrationHoldsTheRest
      <3> QED
        BY <1>2, <2>0, <2>2, <3>1 DEF Ledger
    <2> QED
      BY <2>1, <2>2
  <1>3. MigrationHoldsTheRest'
    BY <1>2 DEF MigrationHoldsTheRest
  <1>4. ASSUME marker', ~past'.failed, NEW l, OldLine(l)'
        PROVE  HasRow(Row(l.ts, l.cmd))'
    <2>1. OldLine(l) /\ ~past.failed
      BY <1>4 DEF Ledger
    <2>2. CASE marker
      <3>1. HasRow(Row(l.ts, l.cmd))
        BY <2>1, <2>2 DEF TableInv, OldHistoryIsInTheTable, OldLine
      <3> QED
        BY <3>1 DEF Ledger
    <2>3. CASE Migrating(p) /\ \A m : ~Held(p, m)
      <3>1. HasRow(Row(l.ts, l.cmd))
        BY <2>1, <2>3 DEF TableInv, MigrationHoldsTheRest
      <3> QED
        BY <3>1 DEF Ledger
    <2> QED
      BY <1>4, <2>2, <2>3 DEF Ledger
  <1>5. OldHistoryIsInTheTable'
    <2>1. ASSUME marker', ~past'.failed, NEW i \in DOMAIN jsonl', jsonl'[i].run \in Old
          PROVE  HasRow(Row(jsonl[i].ts, jsonl[i].cmd))'
      BY <1>4, <2>1 DEF OldLine
    <2> QED
      BY <2>1 DEF OldHistoryIsInTheTable
  <1> QED
    BY <1>1, <1>3, <1>5 DEF TableInv

LEMMA InitTableInv == Init => TableInv
  BY DEF Init, TableInv, EndedRunsHaveRows, OldHistoryIsInTheTable, MigrationHoldsTheRest,
         Migrating, Resting

LEMMA RowsGrow ==
    ASSUME BookTyped, NEW r \in RowType, rows' = Append(rows, r)
    PROVE  (\A row : HasRow(row) => HasRow(row)') /\ HasRow(r)'
  <1>1. /\ DOMAIN rows = 1 .. Len(rows) /\ Len(rows) \in Nat /\ DOMAIN rows' = 1 .. Len(rows) + 1
        /\ rows'[Len(rows) + 1] = r /\ \A i \in DOMAIN rows : rows'[i] = rows[i]
    BY AppendProperties DEF BookTyped
  <1> QED
    BY <1>1 DEF HasRow

(* A line that is held is the first one, or it stays held when that one is dropped. *)
LEMMA HeadIsDropped ==
    ASSUME NEW p \in Proc, RunTyped(p), proc[p].lines # <<>>, proc'[p].lines = Tail(proc[p].lines), NEW l,
           Held(p, l)
    PROVE  l = Head(proc[p].lines) \/ Held(p, l)'
  <1> DEFINE q == proc[p].lines
  <1>1. PICK k \in DOMAIN q : q[k] = l
    BY DEF Held
  <1>2. q \in Seq(LineType) /\ q # <<>> /\ proc'[p].lines = Tail(q)
    BY DEF RunTyped
  <1> HIDE DEF q
  <1>3. CASE k = 1
    BY <1>1, <1>2, <1>3 DEF q
  <1>4. CASE k # 1
    <2>1. k \in 2 .. Len(q) /\ Len(q) \in Nat
      BY <1>1, <1>2, <1>4
    <2>2. k - 1 \in DOMAIN Tail(q) /\ Tail(q)[k - 1] = q[k]
      BY <1>2, <2>1
    <2> QED
      BY <1>1, <1>2, <2>2 DEF Held
  <1> QED
    BY <1>3, <1>4

LEMMA AsideLedger ==
    ASSUME NEW p \in Proc, Aside(p) PROVE Ledger(p)
  <1>1. UNCHANGED <<jsonl, rows, marker>> /\ past'.ended = past.ended /\ past'.failed = past.failed
    BY DEF Aside, book
  <1>2. /\ \A l : OldLine(l)' <=> OldLine(l)
        /\ \A row : HasRow(row)' <=> HasRow(row)
    BY <1>1 DEF OldLine, HasRow
  <1>3. ~Migrating(p)' \/ proc'[p] = proc[p]
    BY DEF Aside, Migrating, Running, Outside
  <1>4. proc'[p] = proc[p] => \A l : Held(p, l)' <=> Held(p, l)
    BY DEF Held
  <1>5. ~Migrating(p)' \/ (Migrating(p) /\ \A l : Held(p, l) => Held(p, l)')
    BY <1>3, <1>4 DEF Migrating
  <1> QED
    BY <1>1, <1>2, <1>5 DEF Ledger, Aside

LEMMA BeginsLedger ==
    ASSUME NEW p \in Proc, Begins(p) PROVE Ledger(p)
  <1>1. UNCHANGED <<jsonl, rows, marker, past>>
    BY DEF Begins, book
  <1>2. /\ \A l : OldLine(l)' <=> OldLine(l)
        /\ \A row : HasRow(row)' <=> HasRow(row)
    BY <1>1 DEF OldLine, HasRow
  <1>3. ~Migrating(p)'
    BY DEF Begins, Migrating
  <1> QED
    BY <1>1, <1>2, <1>3 DEF Ledger, Begins

LEMMA BooksLedger ==
    ASSUME RecordsShape, BookInv, NEW p \in Proc,
           \/ AppendLine(p) \/ EnsureMigrated(p) \/ ReadHistory(p) \/ MigrateLine(p) \/ InsertLine(p)
           \/ MigrateFails(p) \/ WriteMarker(p) \/ Record(p) \/ ProbeRow(p) \/ InsertRow(p)
    PROVE  Ledger(p)
  <1>0. BookTyped /\ RunTyped(p) /\ RunTyped(p)' /\ BookTyped' /\ Books(p)
    <2>1. Books(p)
      BY RunsAreBooked DEF BookInv, Counted
    <2> QED
      BY <2>1, BooksBookInv DEF BookInv
  <1>1. Others(p)
    BY <1>0 DEF Books
  <1>2. /\ UNCHANGED jsonl => \A l : OldLine(l)' <=> OldLine(l)
        /\ UNCHANGED rows => \A row : HasRow(row)' <=> HasRow(row)
    BY DEF OldLine, HasRow
  <1>3. CASE EnsureMigrated(p) \/ Record(p)
    <2>1. UNCHANGED <<jsonl, rows, marker, past>> /\ ~Migrating(p)'
      BY <1>3 DEF EnsureMigrated, Record, Go, RecordsShape, Shape, Migrating, book
    <2> QED
      BY <1>1, <1>2, <2>1 DEF Ledger
  <1>4. CASE AppendLine(p)
    <2> DEFINE new == Line(proc[p].run, now, proc[p].cmd)
    <2>1. /\ jsonl' = Append(jsonl, new) \/ UNCHANGED jsonl
          /\ UNCHANGED <<rows, marker, past>> /\ ~Migrating(p)'
      BY <1>4 DEF AppendLine, Go, RecordsShape, Shape, Migrating
    <2>2. new.run \notin Old /\ new \in LineType
      <3>1. proc[p].run \in Started /\ proc[p].cmd \in Slug
        BY <1>0, <1>4 DEF AppendLine, At, RunTyped, Running
      <3>2. left.runs \in 0 .. MaxRuns /\ now \in Nat /\ MaxRuns \in Nat
        BY RecordsAssumption DEF BookInv, Counted
      <3>3. proc[p].run \in 1 .. MaxRuns
        BY <3>1, <3>2 DEF Started
      <3> QED
        BY <3>1, <3>2, <3>3, OldAssumption DEF Line, LineType, Run
    <2> HIDE DEF new
    <2>3. ASSUME jsonl' = Append(jsonl, new), NEW l, OldLine(l)' PROVE OldLine(l)
      <3>1. /\ DOMAIN jsonl = 1 .. Len(jsonl) /\ Len(jsonl) \in Nat
            /\ DOMAIN jsonl' = 1 .. Len(jsonl) + 1
            /\ jsonl'[Len(jsonl) + 1] = new /\ \A i \in DOMAIN jsonl : jsonl'[i] = jsonl[i]
        BY <1>0, <2>2, <2>3, AppendProperties DEF BookTyped
      <3>2. PICK i \in DOMAIN jsonl' : jsonl'[i] = l
        BY <2>3 DEF OldLine
      <3>3. i # Len(jsonl) + 1 /\ l.run \in Old
        BY <2>2, <2>3, <3>1, <3>2 DEF OldLine
      <3> QED
        BY <3>1, <3>2, <3>3 DEF OldLine
    <2> QED
      BY <1>1, <1>2, <2>1, <2>3 DEF Ledger
  <1>5. CASE ReadHistory(p)
    <2> DEFINE r == [proc[p] EXCEPT !.lines = jsonl, !.pc = "migrate"]
    <2>1. /\ proc' = [proc EXCEPT ![p] = r] /\ UNCHANGED <<jsonl, rows, marker, past>>
          /\ proc[p].pc = "read_history"
      BY <1>5 DEF ReadHistory, book, At
    <2>2. r.lines = jsonl
      BY DEF RecordsShape, Shape
    <2> HIDE DEF r
    <2>3. proc'[p] = r
      BY <2>1, LocalsOf
    <2>4. \A l : OldLine(l) => Held(p, l)'
      BY <2>1, <2>2, <2>3 DEF OldLine, Held
    <2> QED
      BY <1>1, <1>2, <2>1, <2>4 DEF Ledger
  <1>6. CASE MigrateLine(p)
    <2> DEFINE h == Head(proc[p].lines)
    <2>1. /\ proc[p].pc = "migrate" /\ proc[p].lines # <<>> /\ UNCHANGED <<jsonl, rows, marker, past>>
          /\ \/ HasRow(Row(h.ts, h.cmd)) /\ proc' = [proc EXCEPT ![p].lines = Tail(@)]
             \/ proc' = [proc EXCEPT ![p].pc = "insert_line"]
      BY <1>6 DEF MigrateLine, Probe, At, Go, book
    <2>2. Migrating(p)
      BY <2>1 DEF Migrating
    <2>3. CASE HasRow(Row(h.ts, h.cmd)) /\ proc' = [proc EXCEPT ![p].lines = Tail(@)]
      <3> DEFINE r == [proc[p] EXCEPT !.lines = Tail(@)]
      <3>0. proc' = [proc EXCEPT ![p] = r] /\ r.lines = Tail(proc[p].lines)
        BY <2>3 DEF RecordsShape, Shape
      <3> HIDE DEF r
      <3>1. proc'[p].lines = Tail(proc[p].lines)
        BY <3>0, LocalsOf
      <3>2. \A l : Held(p, l) => Held(p, l)' \/ l = h
        BY <1>0, <2>1, <3>1, HeadIsDropped
      <3> HIDE DEF h
      <3>3. \A l : Held(p, l) => Held(p, l)' \/ HasRow(Row(l.ts, l.cmd))'
        BY <1>2, <2>1, <2>3, <3>2
      <3> QED
        BY <1>1, <1>2, <2>1, <2>2, <3>3 DEF Ledger
    <2>4. CASE proc' = [proc EXCEPT ![p].pc = "insert_line"]
      <3>1. proc'[p].lines = proc[p].lines
        BY <2>4 DEF RecordsShape, Shape
      <3>2. \A l : Held(p, l) => Held(p, l)'
        BY <3>1 DEF Held
      <3> QED
        BY <1>1, <1>2, <2>1, <2>2, <3>2 DEF Ledger
    <2> QED
      BY <2>1, <2>3, <2>4
  <1>7. ASSUME NEW h, h = Head(proc[p].lines), InsertLine(p) PROVE Ledger(p)
    <2>1. /\ proc[p].pc = "insert_line" /\ UNCHANGED <<jsonl, marker, past>>
          /\ rows' = Append(rows, Row(h.ts, h.cmd))
          /\ proc' = [proc EXCEPT ![p].pc = "migrate", ![p].lines = Tail(@)]
      BY <1>7 DEF InsertLine, At
    <2> DEFINE r == [proc[p] EXCEPT !.pc = "migrate", !.lines = Tail(@)]
    <2>0. proc' = [proc EXCEPT ![p] = r]
      BY <1>7 DEF InsertLine
    <2>9. r.lines = Tail(proc[p].lines)
      BY DEF RecordsShape, Shape
    <2> HIDE DEF r
    <2>2. proc'[p].lines = Tail(proc[p].lines) /\ proc[p].lines # <<>> /\ Migrating(p)
      BY <1>0, <2>1, <2>0, <2>9, LocalsOf DEF RunTyped, Migrating
    <2>3. \A l : Held(p, l) => Held(p, l)' \/ l = h
      BY <1>0, <1>7, <2>2, HeadIsDropped
    <2>4. h \in LineType
      BY <1>0, <1>7, <2>2 DEF RunTyped
    <2>5. Row(h.ts, h.cmd) \in RowType
      BY <2>4 DEF LineType, RowType, Row
    <2>6. (\A row : HasRow(row) => HasRow(row)') /\ HasRow(Row(h.ts, h.cmd))'
      BY <1>0, <2>1, <2>5, RowsGrow
    <2>7. \A l : Held(p, l) => Held(p, l)' \/ HasRow(Row(l.ts, l.cmd))'
      BY <2>3, <2>6
    <2> QED
      BY <1>1, <1>2, <2>1, <2>2, <2>6, <2>7 DEF Ledger
  <1>8. CASE MigrateFails(p)
    <2>1. UNCHANGED <<jsonl, rows, marker>> /\ past' = [past EXCEPT !.failed = TRUE]
      BY <1>8 DEF MigrateFails, book
    <2>2. past'.failed = TRUE /\ past'.ended = past.ended
      BY <2>1 DEF RecordsShape
    <2> QED
      BY <1>1, <1>2, <2>1, <2>2 DEF Ledger
  <1>9. CASE WriteMarker(p)
    <2>1. /\ UNCHANGED <<jsonl, rows, past>> /\ proc[p].pc = "migrate" /\ proc[p].lines = <<>>
          /\ Go(p, "record")
      BY <1>9 DEF WriteMarker, At
    <2>2. ~Migrating(p)' /\ Migrating(p)
      BY <2>1 DEF Go, RecordsShape, Shape, Migrating
    <2>3. \A l : ~Held(p, l)
      BY <2>1 DEF Held
    <2>4. marker' \in {marker, TRUE}
      BY <1>9 DEF WriteMarker
    <2> QED
      BY <1>1, <1>2, <2>1, <2>2, <2>3, <2>4 DEF Ledger
  <1> DEFINE ended(row) == [run |-> proc[p].run, row |-> row]
  <1>10. End(p) => /\ proc'[p].pc = "idle" /\ past'.failed = past.failed
                   /\ past'.ended = past.ended \cup {ended(Row(proc[p].ts, proc[p].cmd))}
    BY DEF End, RecordsShape, Resting
  <1>11. ASSUME NEW row, row = Row(proc[p].ts, proc[p].cmd), ProbeRow(p) PROVE Ledger(p)
    <2>1. UNCHANGED <<jsonl, rows, marker>> /\ IF HasRow(row) THEN End(p) ELSE Go(p, "insert") /\ UNCHANGED past
      BY <1>11 DEF ProbeRow, Probe, book
    <2>2. CASE HasRow(row) /\ End(p)
      <3>1. ~Migrating(p)'
        BY <1>10, <2>2 DEF Migrating
      <3>2. \A x \in past'.ended : x \in past.ended \/ HasRow(x.row)'
        BY <1>2, <1>10, <1>11, <2>1, <2>2
      <3> QED
        BY <1>1, <1>2, <1>10, <2>1, <2>2, <3>1, <3>2 DEF Ledger
    <2>3. CASE Go(p, "insert") /\ UNCHANGED past
      <3>1. ~Migrating(p)'
        BY <2>3 DEF Go, RecordsShape, Shape, Migrating
      <3> QED
        BY <1>1, <1>2, <2>1, <2>3, <3>1 DEF Ledger
    <2> QED
      BY <2>1, <2>2, <2>3
  <1>12. ASSUME NEW row, row = Row(proc[p].ts, proc[p].cmd), InsertRow(p) PROVE Ledger(p)
    <2>1. /\ UNCHANGED <<jsonl, marker>> /\ proc[p].pc = "insert" /\ End(p)
          /\ rows' = Append(rows, row)
      BY <1>12 DEF InsertRow, At
    <2>2. row \in RowType
      BY <1>0, <1>12, <2>1 DEF RunTyped, Booking, RowType, Row
    <2>3. ~Migrating(p)'
      BY <1>10, <2>1 DEF Migrating
    <2>4. (\A r : HasRow(r) => HasRow(r)') /\ HasRow(row)'
      BY <1>0, <2>1, <2>2, RowsGrow
    <2>5. \A x \in past'.ended : x \in past.ended \/ HasRow(x.row)'
      BY <1>10, <1>12, <2>1, <2>4
    <2> QED
      BY <1>1, <1>2, <1>10, <2>1, <2>3, <2>4, <2>5 DEF Ledger
  <1> QED
    BY <1>3, <1>4, <1>5, <1>6, <1>7, <1>8, <1>9, <1>11, <1>12

(* Clearing the history, the clock and the editors take nothing from the table. *)
LEMMA NextTableInv == TrustInv /\ BookInv /\ TableInv /\ [Next]_vars => TableInv'
  <1> SUFFICES ASSUME TrustInv, BookInv, TableInv, [Next]_vars PROVE TableInv'
    OBVIOUS
  <1>0. LeftShape /\ RecordsShape
    BY DEF TrustInv, BookInv, Counted
  <1>1. ASSUME UNCHANGED <<rows, marker, proc, past>>, jsonl' \in {jsonl, <<>>} PROVE TableInv'
    <2>1. /\ \A row : HasRow(row)' <=> HasRow(row)
          /\ \A q \in Proc : Migrating(q)' <=> Migrating(q)
          /\ \A q \in Proc : \A l : Held(q, l)' <=> Held(q, l)
      BY <1>1 DEF HasRow, Migrating, Held
    <2>2. \A l : OldLine(l)' => OldLine(l)
      BY <1>1 DEF OldLine
    <2>3. EndedRunsHaveRows'
      BY <1>1, <2>1 DEF TableInv, EndedRunsHaveRows
    <2>4. MigrationHoldsTheRest'
      BY <1>1, <2>1, <2>2 DEF TableInv, MigrationHoldsTheRest
    <2>5. OldHistoryIsInTheTable'
      BY <1>1, <2>1 DEF TableInv, OldHistoryIsInTheTable
    <2> QED
      BY <2>3, <2>4, <2>5 DEF TableInv
  <1>2. CASE Tick \/ (\E f \in Filter : Edit(f)) \/ UNCHANGED vars
    BY <1>1, <1>2 DEF Tick, Edit, vars, book
  <1>3. ASSUME NEW p \in Proc, Step(p) PROVE TableInv'
    <2>1. CASE \E s \in Slug : StartRun(p, s)
      BY <1>0, <2>1, RunsBegin, BeginsLedger, LedgerTableInv
    <2>2. CASE ClearHistory(p)
      BY <1>1, <2>2 DEF ClearHistory
    <2>3. CASE \/ \E f \in Filter : TrustPath(p, f) \/ UntrustPath(p, f) \/ LookUp(p, f)
               \/ TruncateStore(p) \/ WriteStore(p) \/ Hash(p) \/ ReadFilter(p) \/ RunCommand(p)
               \/ SaveOpen(p) \/ SaveWrite(p) \/ RotateList(p) \/ RotateRemove(p)
               \/ ClearTee(p) \/ Crash(p) \/ SaveFails(p) \/ GiveUp(p)
      BY <1>0, <2>3, StepsAside, AsideLedger, LedgerTableInv
    <2>4. CASE \/ AppendLine(p) \/ EnsureMigrated(p) \/ ReadHistory(p) \/ MigrateLine(p)
               \/ InsertLine(p) \/ MigrateFails(p) \/ WriteMarker(p) \/ Record(p) \/ ProbeRow(p)
               \/ InsertRow(p)
      BY <1>0, <2>4, BooksLedger, LedgerTableInv
    <2> QED
      BY <1>3, <2>1, <2>2, <2>3, <2>4 DEF Step
  <1> QED
    BY <1>2, <1>3 DEF Next

(* A run that ends and did not give up has a row of its command at the time it took, *)
(* whoever else records, migrates, gives up or dies (record_to_sqlite).              *)
THEOREM EndedRunsHaveRowsHolds == Spec => []EndedRunsHaveRows
  <1>1. TableInv => EndedRunsHaveRows
    BY DEF TableInv
  <1> QED
    BY <1>1, InitTrustInv, NextTrustInv, InitBookInv, NextBookInv, InitTableInv, NextTableInv, PTL
    DEF Spec

(* Unless a migration failed, the marker means that the old history is in the table, *)
(* however many runs migrate it at once and wherever they die (ensure_migrated).     *)
THEOREM OldHistoryIsInTheTableHolds == Spec => []OldHistoryIsInTheTable
  <1>1. TableInv => OldHistoryIsInTheTable
    BY DEF TableInv
  <1> QED
    BY <1>1, InitTrustInv, NextTrustInv, InitBookInv, NextBookInv, InitTableInv, NextTableInv, PTL
    DEF Spec

-----------------------------------------------------------------------------
(* The history implements the abstract log. *)
Live == {proc[p].run : p \in Unlogged}
LogStep == [Log!HNext]_<<LoggedRuns, Live>>

LEMMA RunsOfLines ==
    ASSUME NEW q \in Seq(LineType)
    PROVE  DOMAIN q = 1 .. Len(q) /\ Len(q) \in Nat /\ \A i \in 1 .. Len(q) : q[i].run \in Run
  <1>1. \A i \in 1 .. Len(q) : q[i] \in LineType
    BY ElementOfSeq
  <1>2. \A l \in LineType : l.run \in Run
    BY DEF LineType
  <1> QED
    BY <1>1, <1>2, LenProperties

LEMMA StepOfRun ==
    ASSUME NEW r \in Run, Log!HBegin(r) \/ Log!HRecord(r) \/ Log!HLeave(r) PROVE LogStep
  BY DEF LogStep, Log!HNext

(* A run that dies or cannot write leaves without an entry. *)
LEMMA LeavesLogStep ==
    ASSUME BookInv, NEW p \in Proc, LoggedRuns' = LoggedRuns, \A q \in Proc \ {p} : proc'[q] = proc[q],
           proc[p].pc \in Running, proc'[p].pc \notin Running
    PROVE  LogStep
  <1>1. /\ \A q \in Proc : q \in Unlogged' <=> q \in Unlogged /\ q # p
        /\ \A q \in Unlogged : proc[q].run = proc[p].run => q = p
    BY DEF Unlogged, Running, BookInv, RunsOnce
  <1>2. Live' = Live \ {proc[p].run} /\ proc[p].run \in Live
    BY <1>1 DEF Live, Unlogged, Running
  <1>3. proc[p].run \in Run
    BY RecordsAssumption DEF BookInv, RunTyped, Started, Run, Counted
  <1> PICK r \in Run : r = proc[p].run
    BY <1>3
  <1>4. Log!HLeave(r)
    BY <1>2 DEF Log!HLeave, Live
  <1> QED
    BY <1>4, StepOfRun

LEMMA AsideLogStep ==
    ASSUME BookInv, NEW p \in Proc, Aside(p) PROVE LogStep
  <1>1. LoggedRuns' = LoggedRuns
    BY DEF Aside, book, LoggedRuns
  <1>2. \A q \in Proc \ {p} : proc'[q] = proc[q]
    BY DEF Aside, Others
  <1>3. CASE proc'[p].pc \in Running => proc[p].pc \in Running /\ SameRun(p)
    <2>1. CASE proc[p].pc \in Running <=> proc'[p].pc \in Running
      <3>1. Live' = Live
        BY <1>2, <1>3, <2>1 DEF Live, SameRun, Unlogged, Running
      <3> QED
        BY <1>1, <3>1 DEF LogStep
    <2>2. CASE proc[p].pc \in Running /\ proc'[p].pc \notin Running
      BY <1>1, <1>2, <2>2, LeavesLogStep
    <2> QED
      BY <1>3, <2>1, <2>2
  <1> QED
    BY <1>3 DEF Aside, SameRun, Running, Outside

LEMMA BeginsLogStep ==
    ASSUME BookInv, NEW p \in Proc, Begins(p) PROVE LogStep
  <1> DEFINE new == MaxRuns - left.runs + 1
  <1>1. LoggedRuns' = LoggedRuns
    BY DEF Begins, book, LoggedRuns
  <1>2. /\ \A q \in Proc \ {p} : proc'[q] = proc[q]
        /\ proc'[p].run = new /\ proc'[p].pc = "filters" /\ proc[p].pc \notin Running
    BY DEF Begins, Others
  <1>3. new \in Run /\ new \notin Started
    BY RecordsAssumption DEF Begins, BookInv, Counted, Run, Started
  <1>4. new \notin Live
    BY <1>3 DEF Live, Unlogged, BookInv, RunTyped, Running
  <1>5. Live' = Live \cup {new}
    <2>1. \A q \in Proc : q \in Unlogged' <=> q \in Unlogged \/ q = p
      BY <1>2 DEF Unlogged, Running
    <2>2. p \notin Unlogged
      BY <1>2 DEF Unlogged, Running
    <2> QED
      BY <1>2, <2>1, <2>2 DEF Live, Unlogged
  <1> PICK r \in Run : r = new
    BY <1>3
  <1>6. Log!HBegin(r)
    BY <1>1, <1>4, <1>5 DEF Log!HBegin, Live
  <1> QED
    BY <1>6, StepOfRun

LEMMA BooksLogStep ==
    ASSUME BookInv, NEW p \in Proc, Books(p) PROVE LogStep
  <1>1. \A q \in Proc \ {p} : proc'[q] = proc[q]
    BY DEF Books, Others
  <1>2. proc'[p].pc \notin Running
    BY DEF Books, Running, Booking
  <1>3. CASE UNCHANGED jsonl /\ proc[p].pc \in Booking
    <2>1. Unlogged' = Unlogged /\ p \notin Unlogged
      BY <1>1, <1>2, <1>3 DEF Unlogged, Running, Booking
    <2>2. Live' = Live /\ LoggedRuns' = LoggedRuns
      BY <1>1, <1>3, <2>1 DEF Live, LoggedRuns, Unlogged
    <2> QED
      BY <2>2 DEF LogStep
  <1>4. CASE proc[p].pc = "log" /\ jsonl' = Append(jsonl, Line(proc[p].run, now, proc[p].cmd))
    <2> DEFINE l == Line(proc[p].run, now, proc[p].cmd)
    <2>1. l.run = proc[p].run /\ proc[p].pc \in Running
      BY <1>4 DEF Line, Running
    <2>2. l \in LineType /\ l.run \in Run
      <3>1. proc[p].run \in Started /\ proc[p].cmd \in Slug
        BY <2>1 DEF BookInv, RunTyped
      <3>2. left.runs \in 0 .. MaxRuns /\ now \in Nat /\ MaxRuns \in Nat
        BY RecordsAssumption DEF BookInv, Counted
      <3>3. proc[p].run \in 1 .. MaxRuns
        BY <3>1, <3>2 DEF Started
      <3> QED
        BY <3>1, <3>2, <3>3 DEF Line, LineType, Run
    <2>3. jsonl' = Append(jsonl, l)
      BY <1>4
    <2> HIDE DEF l
    <2>4. jsonl \in Seq(LineType)
      BY DEF BookInv, BookTyped
    <2>5. /\ DOMAIN jsonl = 1 .. Len(jsonl) /\ Len(jsonl) \in Nat
          /\ DOMAIN jsonl' = 1 .. Len(jsonl) + 1
          /\ jsonl'[Len(jsonl) + 1] = l /\ \A i \in DOMAIN jsonl : jsonl'[i] = jsonl[i]
      BY <2>2, <2>3, <2>4, AppendProperties
    <2>6. LoggedRuns \in Seq(Run) /\ Len(LoggedRuns) = Len(jsonl)
      <3>1. \A i \in 1 .. Len(jsonl) : jsonl[i].run \in Run
        BY <2>4, RunsOfLines
      <3> QED
        BY <2>5, <3>1 DEF LoggedRuns
    <2>7. LoggedRuns' = Append(LoggedRuns, l.run)
      <3>1. LoggedRuns' = [i \in 1 .. Len(jsonl) + 1 |-> jsonl'[i].run]
        BY <2>5 DEF LoggedRuns
      <3>2. /\ Append(LoggedRuns, l.run) \in Seq(Run) /\ DOMAIN Append(LoggedRuns, l.run) = 1 .. Len(jsonl) + 1
            /\ Append(LoggedRuns, l.run)[Len(jsonl) + 1] = l.run
            /\ \A i \in 1 .. Len(jsonl) : Append(LoggedRuns, l.run)[i] = LoggedRuns[i]
        BY <2>2, <2>6, AppendProperties
      <3>3. \A i \in 1 .. Len(jsonl) : LoggedRuns[i] = jsonl[i].run
        BY <2>5 DEF LoggedRuns
      <3>4. \A i \in 1 .. Len(jsonl) + 1 : Append(LoggedRuns, l.run)[i] = LoggedRuns'[i]
        BY <2>5, <3>1, <3>2, <3>3
      <3>5. LoggedRuns' \in Seq(Run) /\ Len(LoggedRuns') = Len(jsonl) + 1
        <4>1. \A i \in 1 .. Len(jsonl) + 1 : jsonl'[i].run \in Run
          BY <2>2, <2>4, <2>5, RunsOfLines
        <4> QED
          BY <2>5, <3>1, <4>1
      <3> QED
        BY <2>5, <3>2, <3>4, <3>5, SeqEqual
    <2>8. /\ \A q \in Proc : q \in Unlogged' <=> q \in Unlogged /\ q # p
          /\ \A q \in Unlogged : proc[q].run = proc[p].run => q = p
      BY <1>1, <1>2, <2>1 DEF Unlogged, Running, BookInv, RunsOnce
    <2>9. Live' = Live \ {l.run} /\ l.run \in Live
      BY <1>1, <2>1, <2>8 DEF Live, Unlogged, Running
    <2> PICK r \in Run : r = l.run
      BY <2>2
    <2>10. Log!HRecord(r)
      BY <2>7, <2>9 DEF Log!HRecord, Live
    <2> QED
      BY <2>10, StepOfRun
  <1>5. CASE proc[p].pc = "log" /\ UNCHANGED jsonl
    <2>1. LoggedRuns' = LoggedRuns /\ proc[p].pc \in Running
      BY <1>5 DEF LoggedRuns, Running
    <2> QED
      BY <1>1, <1>2, <2>1, LeavesLogStep
  <1> QED
    BY <1>3, <1>4, <1>5 DEF Books

(* history.jsonl is a log of the runs: each appends its line once, unless it dies or *)
(* cannot write, and only clearing takes lines out of it (History.tla; log_entry,     *)
(* clear_history).                                                                   *)
THEOREM LogOfRunsHolds == Spec => LogOfRuns
  <1>1. Init => Log!HInit
    <2> SUFFICES ASSUME Init PROVE Log!HInit
      OBVIOUS
    <2>1. jsonl \in Seq(LineType)
      BY InitBookInv DEF BookInv, BookTyped
    <2>2. /\ DOMAIN jsonl = 1 .. Len(jsonl) /\ Len(jsonl) \in Nat
          /\ \A i \in 1 .. Len(jsonl) : jsonl[i].run \in Run
      BY <2>1, RunsOfLines
    <2>3. LoggedRuns \in Seq(Run)
      BY <2>2 DEF LoggedRuns
    <2>4. Live = {}
      BY DEF Init, Live, Unlogged, Resting, Running
    <2> QED
      BY <2>3, <2>4 DEF Log!HInit, Live
  <1>2. TrustInv /\ BookInv /\ [Next]_vars => LogStep
    <2> SUFFICES ASSUME TrustInv, BookInv, [Next]_vars PROVE LogStep
      OBVIOUS
    <2>0. LeftShape /\ RecordsShape
      BY DEF TrustInv, BookInv, Counted
    <2>1. CASE Tick \/ (\E f \in Filter : Edit(f)) \/ UNCHANGED vars
      BY <2>1 DEF Tick, Edit, vars, book, LogStep, Live, Unlogged, LoggedRuns
    <2>2. ASSUME NEW p \in Proc, Step(p) PROVE LogStep
      <3>1. CASE \E s \in Slug : StartRun(p, s)
        BY <2>0, <3>1, RunsBegin, BeginsLogStep
      <3>2. CASE ClearHistory(p)
        <4>1. UNCHANGED proc /\ jsonl' = <<>>
          BY <3>2 DEF ClearHistory
        <4>2. LoggedRuns' = <<>> /\ Live' = Live
          BY <4>1 DEF LoggedRuns, Live, Unlogged
        <4> QED
          BY <4>2 DEF LogStep, Log!HNext, Log!HClear, Live
      <3>3. CASE \/ \E f \in Filter : TrustPath(p, f) \/ UntrustPath(p, f) \/ LookUp(p, f)
                 \/ TruncateStore(p) \/ WriteStore(p) \/ Hash(p) \/ ReadFilter(p)
                 \/ RunCommand(p) \/ SaveOpen(p) \/ SaveWrite(p) \/ RotateList(p)
                 \/ RotateRemove(p) \/ ClearTee(p) \/ Crash(p)
                 \/ SaveFails(p) \/ GiveUp(p)
        BY <2>0, <3>3, StepsAside, AsideLogStep
      <3>4. CASE \/ AppendLine(p) \/ EnsureMigrated(p) \/ ReadHistory(p) \/ MigrateLine(p)
                 \/ InsertLine(p) \/ MigrateFails(p) \/ WriteMarker(p) \/ Record(p)
                 \/ ProbeRow(p) \/ InsertRow(p)
        BY <2>0, <3>4, RunsAreBooked, BooksLogStep
      <3> QED
        BY <2>2, <3>1, <3>2, <3>3, <3>4 DEF Step
    <2> QED
      BY <2>1, <2>2 DEF Next
  <1> QED
    BY <1>1, <1>2, InitTrustInv, NextTrustInv, InitBookInv, NextBookInv, PTL
    DEF Spec, LogOfRuns, Log!HSpec, LogStep, Live

-----------------------------------------------------------------------------
(* The store and the filters keep their types. *)
StoreType == [Filter -> Version \cup {None}]
StoreTyped ==
    /\ content \in [Filter -> Version]
    /\ store = Torn \/ store \in StoreType
    /\ \A p \in Proc : proc[p].seen \in StoreType

LEMMA InitStoreTyped == Init => StoreTyped
  BY RecordsAssumption DEF Init, StoreTyped, StoreType, Version, NoTrust, Resting

LEMMA NextStoreTyped == TrustInv /\ StoreTyped /\ [Next]_vars => StoreTyped'
  <1> SUFFICES ASSUME TrustInv, StoreTyped, [Next]_vars PROVE StoreTyped'
    OBVIOUS
  <1>0. NoTrust \in StoreType /\ LoadStore \in StoreType
    BY DEF NoTrust, StoreType, LoadStore, StoreTyped
  <1>1. ASSUME UNCHANGED <<store, proc>>, content' \in [Filter -> Version] PROVE StoreTyped'
    BY <1>1 DEF StoreTyped
  <1>2. CASE Tick \/ (\E f \in Filter : Edit(f)) \/ UNCHANGED vars
    BY <1>1, <1>2 DEF Tick, Edit, vars, files, StoreTyped
  <1>3. ASSUME NEW p \in Proc, UNCHANGED content, store' = Torn \/ store' \in StoreType \/ UNCHANGED store,
               NEW r, proc' = [proc EXCEPT ![p] = r], r.seen \in StoreType
        PROVE  StoreTyped'
    BY <1>3 DEF StoreTyped, TrustInv, RecordsShape
  <1>4. ASSUME NEW p \in Proc, Step(p) PROVE StoreTyped'
    <2>1. CASE Unrelated(p)
      BY <1>0, <1>3, <2>1 DEF Unrelated, StoreTyped
    <2>2. ASSUME NEW f \in Filter, TrustPath(p, f) \/ UntrustPath(p, f) PROVE StoreTyped'
      <3> PICK v \in {None, content[f]} :
              proc' = [proc EXCEPT ![p] = [proc[p] EXCEPT !.pc = "truncate", !.seen = [LoadStore EXCEPT ![f] = v]]]
        BY <2>2 DEF TrustPath, UntrustPath
      <3> DEFINE r == [proc[p] EXCEPT !.pc = "truncate", !.seen = [LoadStore EXCEPT ![f] = v]]
      <3>1. [LoadStore EXCEPT ![f] = v] \in StoreType
        BY <1>0 DEF StoreType, StoreTyped
      <3>2. r.seen = [LoadStore EXCEPT ![f] = v]
        BY DEF TrustInv, RecordsShape, Shape
      <3>3. UNCHANGED <<content, store>>
        BY <2>2 DEF TrustPath, UntrustPath, files
      <3>4. proc' = [proc EXCEPT ![p] = r]
        OBVIOUS
      <3> HIDE DEF r
      <3>5. r.seen \in StoreType
        BY <3>1, <3>2
      <3>6. proc'[p] = r
        BY <3>4, LocalsOf DEF TrustInv
      <3> QED
        BY <1>3, <3>3, <3>4, <3>5, <3>6
    <2>3. CASE TruncateStore(p) \/ WriteStore(p)
      <3> DEFINE r == proc'[p]
      <3>1. /\ UNCHANGED content /\ store' \in {Torn, proc[p].seen} /\ proc' = [proc EXCEPT ![p] = r]
            /\ r.seen \in {proc[p].seen, NoTrust}
        BY <2>3 DEF TruncateStore, WriteStore, TrustInv, RecordsShape, Shape, Go, Resting
      <3> QED
        BY <1>0, <1>3, <3>1 DEF StoreTyped
    <2>4. ASSUME \/ ReadFilter(p) \/ \E f \in Filter : LookUp(p, f) PROVE StoreTyped'
      <3>1. UNCHANGED <<content, store>>
        BY <2>4 DEF ReadFilter, LookUp, files
      <3>2. proc' = [proc EXCEPT ![p] = proc'[p]] /\ proc'[p].seen = proc[p].seen
        <4>1. CASE ReadFilter(p)
          <5> DEFINE r == [proc[p] EXCEPT !.pc = "filters", !.used = @ \cup
                 {[file |-> proc[p].file, hashed |-> proc[p].hash, read |-> content[proc[p].file]]}]
          <5>1. proc' = [proc EXCEPT ![p] = r]
            BY <4>1 DEF ReadFilter
          <5>2. r.seen = proc[p].seen
            OBVIOUS
          <5> HIDE DEF r
          <5>3. proc'[p] = r
            BY <5>1, LocalsOf DEF TrustInv
          <5> QED
            BY <5>1, <5>2, <5>3
        <4>2. CASE \E f \in Filter : LookUp(p, f)
          <5> PICK f \in Filter : LookUp(p, f)
            BY <4>2
          <5> DEFINE r == [proc[p] EXCEPT !.todo = @ \ {f}, !.file = f, !.hash = LoadStore[f],
                                     !.pc = IF LoadStore[f] = None THEN "filters" ELSE "hash"]
          <5>1. proc' = [proc EXCEPT ![p] = r]
            BY DEF LookUp
          <5>2. r.seen = proc[p].seen
            OBVIOUS
          <5> HIDE DEF r
          <5>3. proc'[p] = r
            BY <5>1, LocalsOf DEF TrustInv
          <5> QED
            BY <5>1, <5>2, <5>3
        <4> QED
          BY <2>4, <4>1, <4>2
      <3> QED
        BY <1>3, <3>1, <3>2 DEF StoreTyped
    <2> QED
      BY <1>4, <2>1, <2>2, <2>3, <2>4, StepsUnrelated DEF Step
  <1> QED
    BY <1>2, <1>4 DEF Next

-----------------------------------------------------------------------------
(* The kept outputs: their types, and who holds what. *)
OutputsTyped ==
    /\ tee = [i \in Id |-> tee[i]] /\ writes \in Nat /\ past.opened \subseteq Id
    /\ past.kept \in Id \cup {None}
    /\ \A i \in Id : tee[i] # None =>
          tee[i] \in KeptType /\ tee[i].nth <= writes /\ i[1] <= tee[i].at /\ i \in past.opened
    /\ \A p \in Proc :
          /\ proc[p].drop \subseteq past.opened
          /\ proc[p].pc \in {"open", "write"} => proc[p].id \in Id /\ proc[p].id[1] <= now

(* The newest output that no other process could have mistaken for an older one. *)
Watched == past.kept # None /\ past.kept \notin past.raced /\ ~(now - past.kept[1] > Ttl)
NoRotationDropsIt ==
    Watched =>
        /\ past.kept \in Id /\ tee[past.kept] # None
        /\ \A j \in Id : j # past.kept /\ tee[j] # None => tee[j].nth < tee[past.kept].nth
        /\ \A p \in Proc : past.kept \notin proc[p].drop
OverlapsAreRaced ==
    \A p, q \in Proc : p # q /\ At(p, "write") /\ At(q, "write") => proc[p].id \in past.raced
WriterHoldsTheNewest ==
    \A p \in Proc : /\ At(p, "write") /\ proc[p].id \notin past.raced /\ tee[proc[p].id] # None
                    => past.kept = proc[p].id

(* The inductive invariant of the outputs. *)
OutputsInv == OutputsTyped /\ NoRotationDropsIt /\ OverlapsAreRaced /\ WriterHoldsTheNewest

LEMMA InitOutputsInv == Init => OutputsInv
  BY DEF Init, OutputsInv, OutputsTyped, NoRotationDropsIt, Watched, OverlapsAreRaced,
         WriterHoldsTheNewest, Resting, At

(* Most steps of a process leave the outputs alone, or only choose the name of the next. *)
OutputsAside(p) ==
    /\ UNCHANGED <<now, tee, writes>> /\ Others(p)
    /\ past'.kept = past.kept /\ past'.opened = past.opened /\ past'.raced = past.raced
    /\ proc'[p].drop \in {{}, proc[p].drop}
    /\ \/ proc'[p].pc \notin {"open", "write"}
       \/ proc'[p].pc = "open" /\ proc'[p].id \in Id /\ proc'[p].id[1] <= now

LEMMA OutputsAsideInv ==
    ASSUME OutputsInv, NEW p \in Proc, OutputsAside(p) PROVE OutputsInv'
  <1> USE DEF OutputsInv
  <1>1. \A q \in Proc : /\ proc'[q].drop \in {{}, proc[q].drop}
                        /\ proc'[q].pc = "write" => proc[q].pc = "write" /\ proc'[q].id = proc[q].id
    BY DEF OutputsAside, Others
  <1>2. UNCHANGED <<now, tee, writes>> /\ past'.kept = past.kept /\ past'.opened = past.opened
        /\ past'.raced = past.raced
    BY DEF OutputsAside
  <1>3. OutputsTyped'
    <2>1. \A q \in Proc : proc'[q].drop \subseteq past.opened
      BY <1>1 DEF OutputsTyped
    <2>2. \A q \in Proc : proc'[q].pc \in {"open", "write"} => proc'[q].id \in Id /\ proc'[q].id[1] <= now
      BY DEF OutputsTyped, OutputsAside, Others
    <2> QED
      BY <1>2, <2>1, <2>2 DEF OutputsTyped
  <1>4. NoRotationDropsIt'
    <2>1. Watched' <=> Watched
      BY <1>2 DEF Watched
    <2> QED
      BY <1>1, <1>2, <2>1 DEF NoRotationDropsIt
  <1>5. OverlapsAreRaced' /\ WriterHoldsTheNewest'
    BY <1>1, <1>2 DEF OverlapsAreRaced, WriterHoldsTheNewest, At
  <1> QED
    BY <1>3, <1>4, <1>5

LEMMA SaveOpenInv ==
    ASSUME RecordsShape, Counted, OutputsInv, NEW p \in Proc, SaveOpen(p) PROVE OutputsInv'
  <1> USE DEF OutputsInv
  <1>1. proc[p].id \in Id /\ proc[p].id[1] <= now
    BY DEF SaveOpen, At, OutputsTyped
  <1> PICK i \in Id : i = proc[p].id
    BY <1>1
  <1> DEFINE new == Kept(None, now, writes + 1)
  <1>2. /\ tee' = [tee EXCEPT ![i] = new] /\ writes' = writes + 1 /\ UNCHANGED now
        /\ past'.kept = i /\ past'.opened = past.opened \cup {i} /\ past'.raced = past.raced \cup Raced(p)
    BY DEF SaveOpen, RecordsShape
  <1>3. /\ \A q \in Proc \ {p} : proc'[q] = proc[q]
        /\ proc'[p].pc = "write" /\ proc'[p].id = i /\ proc'[p].drop = proc[p].drop
    BY DEF SaveOpen, Go, RecordsShape, Shape
  <1>4. new \in KeptType /\ new # None /\ new.nth = writes + 1 /\ i[1] <= new.at
    <2>1. new \in KeptType /\ new.nth = writes + 1 /\ new.at = now
      BY DEF Kept, KeptType, Counted, OutputsTyped
    <2> QED
      BY <1>1, <2>1, NoneAssumption
  <1> HIDE DEF new
  <1>5. tee' = [j \in Id |-> tee'[j]] /\ tee'[i] = new /\ \A j \in Id : j # i => tee'[j] = tee[j]
    BY <1>2 DEF OutputsTyped
  <1>6. i \in past.opened => i \in past'.raced
    BY <1>2 DEF Raced
  <1>7. \A q \in Proc : q # p /\ At(q, "write") => proc[q].id \in past'.raced /\ i \in past'.raced
    <2>1. \A q \in Proc : q # p /\ At(q, "write") => proc[q].id \in Overlapping(p)
      BY DEF Overlapping
    <2> QED
      BY <1>2, <2>1 DEF Raced
  <1>8. OutputsTyped'
    <2>1. writes' \in Nat /\ past'.opened \subseteq Id /\ past'.kept \in Id \cup {None}
      BY <1>2 DEF OutputsTyped
    <2>2. ASSUME NEW j \in Id, tee'[j] # None
          PROVE  tee'[j] \in KeptType /\ tee'[j].nth <= writes' /\ j[1] <= tee'[j].at /\ j \in past'.opened
      <3>1. CASE j = i
        BY <1>2, <1>4, <1>5, <3>1 DEF OutputsTyped
      <3>2. CASE j # i
        <4>1. tee'[j] = tee[j] /\ tee[j] \in KeptType /\ tee[j].nth <= writes /\ j[1] <= tee[j].at
              /\ j \in past.opened
          BY <1>5, <2>2, <3>2 DEF OutputsTyped
        <4>2. tee[j].nth \in Nat /\ writes \in Nat
          BY <4>1 DEF KeptType, OutputsTyped
        <4> QED
          BY <1>2, <4>1, <4>2
      <3> QED
        BY <3>1, <3>2
    <2>3. ASSUME NEW q \in Proc
          PROVE  /\ proc'[q].drop \subseteq past'.opened
                 /\ proc'[q].pc \in {"open", "write"} => proc'[q].id \in Id /\ proc'[q].id[1] <= now'
      BY <1>1, <1>2, <1>3 DEF OutputsTyped
    <2> QED
      BY <1>5, <2>1, <2>2, <2>3 DEF OutputsTyped
  <1>9. NoRotationDropsIt'
    <2> SUFFICES ASSUME i \notin past'.raced
                 PROVE  /\ tee'[i] # None
                        /\ \A j \in Id : j # i /\ tee'[j] # None => tee'[j].nth < tee'[i].nth
                        /\ \A q \in Proc : i \notin proc'[q].drop
      BY <1>2 DEF NoRotationDropsIt, Watched
    <2>1. ASSUME NEW j \in Id, j # i, tee'[j] # None PROVE tee'[j].nth < tee'[i].nth
      <3>1. tee[j].nth \in Nat /\ tee[j].nth <= writes /\ writes \in Nat
        BY <1>5, <2>1 DEF OutputsTyped, KeptType
      <3> QED
        BY <1>4, <1>5, <2>1, <3>1
    <2>2. \A q \in Proc : i \notin proc'[q].drop
      BY <1>3, <1>6 DEF OutputsTyped
    <2> QED
      BY <1>4, <1>5, <2>1, <2>2
  <1>10. OverlapsAreRaced'
    <2>1. \A q \in Proc : q # p /\ At(q, "write")' => proc'[q].id \in past'.raced /\ i \in past'.raced
      BY <1>3, <1>7 DEF At
    <2> QED
      BY <1>3, <2>1 DEF OverlapsAreRaced, At
  <1>11. WriterHoldsTheNewest'
    BY <1>2, <1>3, <1>7 DEF WriterHoldsTheNewest, At
  <1> QED
    BY <1>8, <1>9, <1>10, <1>11

LEMMA SaveWriteInv ==
    ASSUME RecordsShape, BookInv, OutputsInv, NEW p \in Proc, SaveWrite(p) PROVE OutputsInv'
  <1> USE DEF OutputsInv
  <1>1. proc[p].id \in Id /\ proc[p].id[1] <= now /\ At(p, "write")
    BY DEF SaveWrite, At, OutputsTyped
  <1> PICK i \in Id : i = proc[p].id
    BY <1>1
  <1> DEFINE new == Kept(proc[p].run, now, writes + 1)
  <1>2. /\ tee' = IF tee[i] = None THEN tee ELSE [tee EXCEPT ![i] = new]
        /\ writes' = writes + 1 /\ UNCHANGED now
        /\ past'.kept = (IF tee[i] = None THEN past.kept ELSE i)
        /\ past'.opened = past.opened /\ past'.raced = past.raced
    BY DEF SaveWrite, RecordsShape
  <1>3. /\ \A q \in Proc \ {p} : proc'[q] = proc[q]
        /\ proc'[p].pc = "rotate" /\ proc'[p].drop = proc[p].drop
    BY DEF SaveWrite, Go, RecordsShape, Shape
  <1>4. new \in KeptType /\ new # None /\ new.nth = writes + 1 /\ i[1] <= new.at
    <2>1. proc[p].run \in Run
      <3>1. proc[p].run \in Started /\ left.runs \in 0 .. MaxRuns
        BY <1>1 DEF BookInv, Counted, RunTyped, At, Running
      <3> QED
        BY <3>1, RecordsAssumption DEF Started, Run
    <2>2. new \in KeptType /\ new.nth = writes + 1 /\ new.at = now
      BY <2>1 DEF Kept, KeptType, BookInv, Counted, OutputsTyped
    <2> QED
      BY <1>1, <2>2, NoneAssumption
  <1> HIDE DEF new
  <1>5. /\ tee' = [j \in Id |-> tee'[j]] /\ \A j \in Id : j # i => tee'[j] = tee[j]
        /\ tee'[i] = IF tee[i] = None THEN None ELSE new
    BY <1>2 DEF OutputsTyped
  <1>6. OutputsTyped'
    <2>1. ASSUME NEW j \in Id, tee'[j] # None
          PROVE  tee'[j] \in KeptType /\ tee'[j].nth <= writes' /\ j[1] <= tee'[j].at /\ j \in past'.opened
      <3>1. CASE j = i
        BY <1>2, <1>4, <1>5, <2>1, <3>1 DEF OutputsTyped
      <3>2. CASE j # i
        <4>1. tee'[j] = tee[j] /\ tee[j] \in KeptType /\ tee[j].nth <= writes /\ j[1] <= tee[j].at
              /\ j \in past.opened
          BY <1>5, <2>1, <3>2 DEF OutputsTyped
        <4>2. tee[j].nth \in Nat /\ writes \in Nat
          BY <4>1 DEF KeptType, OutputsTyped
        <4> QED
          BY <1>2, <4>1, <4>2
      <3> QED
        BY <3>1, <3>2
    <2>2. ASSUME NEW q \in Proc
          PROVE  /\ proc'[q].drop \subseteq past'.opened
                 /\ proc'[q].pc \in {"open", "write"} => proc'[q].id \in Id /\ proc'[q].id[1] <= now'
      BY <1>2, <1>3 DEF OutputsTyped
    <2> QED
      BY <1>2, <1>5, <2>1, <2>2 DEF OutputsTyped
  <1>7. \A q \in Proc : proc'[q].drop = proc[q].drop
    BY <1>3
  <1>8. NoRotationDropsIt'
    <2>1. CASE tee[i] = None
      <3>1. tee' = tee /\ (Watched' <=> Watched) /\ past'.kept = past.kept
        BY <1>2, <2>1 DEF Watched
      <3> QED
        BY <1>7, <3>1 DEF NoRotationDropsIt
    <2>2. CASE tee[i] # None
      <3> SUFFICES ASSUME Watched'
                   PROVE  /\ \A j \in Id : j # i /\ tee'[j] # None => tee'[j].nth < tee'[i].nth
                          /\ \A q \in Proc : i \notin proc'[q].drop
        BY <1>2, <1>4, <1>5, <2>2 DEF NoRotationDropsIt
      <3>1. past.kept = i /\ Watched
        BY <1>1, <1>2, <2>2 DEF Watched, WriterHoldsTheNewest
      <3>2. \A q \in Proc : i \notin proc'[q].drop
        BY <1>7, <3>1 DEF NoRotationDropsIt
      <3>3. ASSUME NEW j \in Id, j # i, tee'[j] # None PROVE tee'[j].nth < tee'[i].nth
        <4>1. tee[j].nth \in Nat /\ tee[j].nth <= writes /\ writes \in Nat
          BY <1>5, <3>3 DEF OutputsTyped, KeptType
        <4> QED
          BY <1>4, <1>5, <2>2, <3>3, <4>1
      <3> QED
        BY <3>2, <3>3
    <2> QED
      BY <2>1, <2>2
  <1>9. \A q \in Proc : At(q, "write")' => q # p /\ At(q, "write") /\ proc'[q].id = proc[q].id
    BY <1>3 DEF At
  <1>10. OverlapsAreRaced'
    BY <1>2, <1>9 DEF OverlapsAreRaced
  <1>11. WriterHoldsTheNewest'
    <2>1. \A q \in Proc : At(q, "write")' => proc'[q].id \in past'.raced
      BY <1>1, <1>2, <1>9 DEF OverlapsAreRaced
    <2> QED
      BY <2>1 DEF WriterHoldsTheNewest
  <1> QED
    BY <1>6, <1>8, <1>10, <1>11

(* What rotate lists is never the newest: that one has no newer ones and is not too old. *)
LEMMA NewestIsNotDoomed ==
    ASSUME OutputsInv, Counted, Watched PROVE past.kept \notin Doomed
  <1> DEFINE i == past.kept
  <1>1. /\ i \in Id /\ tee[i] # None
        /\ \A j \in Id : j # i /\ tee[j] # None => tee[j].nth < tee[i].nth
    BY DEF OutputsInv, NoRotationDropsIt
  <1>2. i[1] <= tee[i].at /\ tee[i] \in KeptType /\ i[1] \in Nat
    BY <1>1 DEF OutputsInv, OutputsTyped, Id
  <1>3. tee[i].at \in Nat /\ tee[i].nth \in Nat /\ now \in Nat /\ Ttl \in Nat
    BY <1>2, RecordsAssumption DEF KeptType, Counted
  <1>4. \A j \in KeptIds : ~(tee[j].nth > tee[i].nth)
    <2> SUFFICES ASSUME NEW j \in KeptIds, j # i PROVE ~(tee[j].nth > tee[i].nth)
      BY <1>3
    <2>1. j \in Id /\ tee[j] # None /\ tee[j].nth \in Nat
      BY DEF KeptIds, OutputsInv, OutputsTyped, KeptType
    <2> QED
      BY <1>1, <1>3, <2>1
  <1>5. Newer(i) = {}
    BY <1>4 DEF Newer
  <1>6. Cardinality(Newer(i)) = 0
    BY <1>5, FS_EmptySet
  <1>7. ~(now - tee[i].at > Ttl) /\ ~(0 >= MaxFiles)
    BY <1>2, <1>3, RecordsAssumption DEF Watched
  <1> QED
    BY <1>6, <1>7 DEF Doomed

LEMMA RotateInv ==
    ASSUME RecordsShape, Counted, OutputsInv, NEW p \in Proc, RotateList(p) \/ RotateRemove(p)
    PROVE  OutputsInv'
  <1> USE DEF OutputsInv
  <1>1. UNCHANGED <<now, writes, past>> /\ \A q \in Proc \ {p} : proc'[q] = proc[q]
    BY DEF RotateList, RotateRemove, RecordsShape, kept
  <1>2. /\ proc'[p].pc \in {"remove", "log"}
        /\ \/ proc'[p].drop = Doomed /\ UNCHANGED tee
           \/ proc'[p].drop \subseteq proc[p].drop /\ \E i \in proc[p].drop : tee' = [tee EXCEPT ![i] = None]
           \/ proc'[p].drop = proc[p].drop /\ UNCHANGED tee
    BY DEF RotateList, RotateRemove, RecordsShape, Shape, kept, At
  <1>3. /\ tee' = [j \in Id |-> tee'[j]] /\ \A j \in Id : tee'[j] # None => tee'[j] = tee[j]
        /\ \A j \in Id : j \notin proc[p].drop => tee'[j] = tee[j]
    BY <1>2 DEF OutputsTyped
  <1>4. Doomed \subseteq past.opened
    BY DEF Doomed, KeptIds, OutputsTyped
  <1>5. OutputsTyped'
    <2>1. \A q \in Proc : proc'[q].drop \subseteq past.opened
      BY <1>1, <1>2, <1>4 DEF OutputsTyped
    <2>2. \A q \in Proc : proc'[q].pc \in {"open", "write"} => proc'[q].id \in Id /\ proc'[q].id[1] <= now
      BY <1>1, <1>2 DEF OutputsTyped
    <2> QED
      BY <1>1, <1>3, <2>1, <2>2 DEF OutputsTyped
  <1>6. NoRotationDropsIt'
    <2> SUFFICES ASSUME Watched'
                 PROVE  /\ past.kept \in Id /\ tee'[past.kept] # None
                        /\ \A j \in Id : j # past.kept /\ tee'[j] # None => tee'[j].nth < tee'[past.kept].nth
                        /\ \A q \in Proc : past.kept \notin proc'[q].drop
      BY <1>1 DEF NoRotationDropsIt
    <2>1. Watched
      BY <1>1 DEF Watched
    <2>2. /\ past.kept \in Id /\ tee[past.kept] # None
          /\ \A j \in Id : j # past.kept /\ tee[j] # None => tee[j].nth < tee[past.kept].nth
          /\ \A q \in Proc : past.kept \notin proc[q].drop
      BY <2>1 DEF NoRotationDropsIt
    <2>3. past.kept \notin Doomed
      BY <2>1, NewestIsNotDoomed
    <2>4. tee'[past.kept] = tee[past.kept]
      BY <1>3, <2>2
    <2>5. \A q \in Proc : past.kept \notin proc'[q].drop
      BY <1>1, <1>2, <2>2, <2>3
    <2> QED
      BY <1>3, <2>2, <2>4, <2>5
  <1>7. \A q \in Proc : At(q, "write")' => At(q, "write") /\ proc'[q].id = proc[q].id /\ q # p
    BY <1>1, <1>2 DEF At
  <1>8. OverlapsAreRaced'
    BY <1>1, <1>7 DEF OverlapsAreRaced
  <1>9. WriterHoldsTheNewest'
    <2> SUFFICES ASSUME NEW q \in Proc, At(q, "write")', proc'[q].id \notin past.raced, tee'[proc'[q].id] # None
                 PROVE  past.kept = proc[q].id
      BY <1>1, <1>7 DEF WriterHoldsTheNewest
    <2>1. proc'[q].id = proc[q].id /\ At(q, "write") /\ proc[q].id \in Id
      BY <1>7 DEF OutputsTyped, At
    <2>2. tee[proc[q].id] # None
      BY <1>3, <2>1
    <2> QED
      BY <2>1, <2>2 DEF WriterHoldsTheNewest
  <1> QED
    BY <1>5, <1>6, <1>8, <1>9

LEMMA StepsOutputsAside ==
    ASSUME RecordsShape, BookInv, NEW p \in Proc,
           \/ \E f \in Filter : TrustPath(p, f) \/ UntrustPath(p, f) \/ LookUp(p, f)
           \/ \E s \in Slug : StartRun(p, s)
           \/ TruncateStore(p) \/ WriteStore(p) \/ Hash(p) \/ ReadFilter(p) \/ RunCommand(p)
           \/ AppendLine(p) \/ EnsureMigrated(p) \/ ReadHistory(p) \/ MigrateLine(p)
           \/ InsertLine(p) \/ MigrateFails(p) \/ WriteMarker(p) \/ Record(p) \/ ProbeRow(p)
           \/ InsertRow(p) \/ ClearHistory(p) \/ Crash(p) \/ SaveFails(p) \/ GiveUp(p)
    PROVE  OutputsAside(p)
  <1>0. LeftShape
    BY DEF BookInv, Counted
  (* A step that leaves the outputs alone and gives the process a record r. *)
  <1>1. ASSUME NEW r, proc' = [proc EXCEPT ![p] = r], UNCHANGED <<now, kept>>,
               past'.kept = past.kept /\ past'.opened = past.opened /\ past'.raced = past.raced,
               r.drop \in {{}, proc[p].drop},
               r.pc \notin {"open", "write"} \/ (r.pc = "open" /\ r.id \in Id /\ r.id[1] <= now)
        PROVE  OutputsAside(p)
    <2>1. proc'[p] = r /\ Others(p)
      BY <1>1, LocalsOf
    <2> QED
      BY <1>1, <2>1 DEF OutputsAside, kept
  <1> USE DEF RecordsShape, Shape
  <1>2. CASE RunCommand(p)
    <2> PICK save \in BOOLEAN :
             proc' = [proc EXCEPT ![p] = [Resting EXCEPT
                          !.run = proc[p].run, !.cmd = proc[p].cmd,
                          !.pc = IF save THEN "open" ELSE "log",
                          !.id = IF save THEN <<now, proc[p].cmd>> ELSE None]]
      BY <1>2 DEF RunCommand
    <2> DEFINE r == [Resting EXCEPT !.run = proc[p].run, !.cmd = proc[p].cmd,
                          !.pc = IF save THEN "open" ELSE "log",
                          !.id = IF save THEN <<now, proc[p].cmd>> ELSE None]
    <2>1. UNCHANGED <<now, kept, past>> /\ proc[p].pc = "filters"
      BY <1>2 DEF RunCommand, At
    <2>2. proc[p].cmd \in Slug /\ now \in 0 .. MaxNow /\ now <= now
      BY <2>1, RecordsAssumption DEF BookInv, RunTyped, Counted, Running
    <2>3. <<now, proc[p].cmd>> \in Id /\ <<now, proc[p].cmd>>[1] <= now
      BY <2>2 DEF Id
    <2>4. r.drop = {} /\ (r.pc = "log" \/ (r.pc = "open" /\ r.id = <<now, proc[p].cmd>>))
      BY DEF Resting
    <2>5. proc' = [proc EXCEPT ![p] = r]
      OBVIOUS
    <2> HIDE DEF r
    <2> QED
      BY <1>1, <2>1, <2>3, <2>4, <2>5
  <1>3. ASSUME NEW f \in Filter, TrustPath(p, f) \/ UntrustPath(p, f) PROVE OutputsAside(p)
    <2> PICK v \in {None, content[f]} :
            proc' = [proc EXCEPT ![p] = [proc[p] EXCEPT !.pc = "truncate", !.seen = [LoadStore EXCEPT ![f] = v]]]
      BY <1>3 DEF TrustPath, UntrustPath
    <2> DEFINE r == [proc[p] EXCEPT !.pc = "truncate", !.seen = [LoadStore EXCEPT ![f] = v]]
    <2>1. /\ UNCHANGED <<now, kept>>
          /\ past'.kept = past.kept /\ past'.opened = past.opened /\ past'.raced = past.raced
      BY <1>3 DEF TrustPath, UntrustPath
    <2>2. r.drop = proc[p].drop /\ r.pc = "truncate" /\ proc' = [proc EXCEPT ![p] = r]
      OBVIOUS
    <2> HIDE DEF r
    <2> QED
      BY <1>1, <2>1, <2>2
  <1>4. ASSUME NEW f \in Filter, LookUp(p, f) PROVE OutputsAside(p)
    <2> DEFINE r == [proc[p] EXCEPT !.todo = @ \ {f}, !.file = f, !.hash = LoadStore[f],
                                     !.pc = IF LoadStore[f] = None THEN "filters" ELSE "hash"]
    <2>1. UNCHANGED <<now, kept, past>> /\ proc' = [proc EXCEPT ![p] = r]
      BY <1>4 DEF LookUp
    <2>2. r.drop = proc[p].drop /\ r.pc \in {"filters", "hash"}
      OBVIOUS
    <2> HIDE DEF r
    <2> QED
      BY <1>1, <2>1, <2>2
  <1>5. ASSUME NEW s \in Slug, StartRun(p, s) PROVE OutputsAside(p)
    <2> DEFINE r == [Resting EXCEPT !.pc = "filters", !.cmd = s,
                                    !.run = MaxRuns - left.runs + 1, !.todo = Filter]
    <2>1. UNCHANGED <<now, kept, past>> /\ proc' = [proc EXCEPT ![p] = r]
      BY <1>5 DEF StartRun
    <2>2. r.drop = {} /\ r.pc = "filters"
      BY DEF Resting
    <2> HIDE DEF r
    <2> QED
      BY <1>1, <2>1, <2>2
  <1>6. CASE ReadFilter(p)
    <2> DEFINE r == [proc[p] EXCEPT !.pc = "filters", !.used = @ \cup
                 {[file |-> proc[p].file, hashed |-> proc[p].hash, read |-> content[proc[p].file]]}]
    <2>1. UNCHANGED <<now, kept, past>> /\ proc' = [proc EXCEPT ![p] = r]
      BY <1>6 DEF ReadFilter
    <2>2. r.drop = proc[p].drop /\ r.pc = "filters"
      OBVIOUS
    <2> HIDE DEF r
    <2> QED
      BY <1>1, <2>1, <2>2
  <1>7. CASE TruncateStore(p) \/ WriteStore(p) \/ Hash(p)
    <2>1. PICK label \in {"write_store", "read", "filters"} :
               proc' \in {[proc EXCEPT ![p] = [proc[p] EXCEPT !.pc = label]], [proc EXCEPT ![p] = Resting]}
      BY <1>7 DEF TruncateStore, WriteStore, Hash, Go
    <2>2. UNCHANGED <<now, kept, past>>
      BY <1>7 DEF TruncateStore, WriteStore, Hash
    <2> QED
      BY <1>1, <2>1, <2>2 DEF Resting
  <1>8. CASE \/ AppendLine(p) \/ EnsureMigrated(p) \/ ReadHistory(p) \/ MigrateLine(p) \/ InsertLine(p)
             \/ MigrateFails(p) \/ WriteMarker(p) \/ Record(p) \/ ProbeRow(p) \/ InsertRow(p)
    <2>1. Books(p)
      BY <1>0, <1>8, RunsAreBooked
    <2>2. UNCHANGED now /\ Others(p) /\ proc'[p].pc \notin {"open", "write"}
      BY <2>1 DEF Books, Booking
    <2>3. UNCHANGED kept
      BY <1>8 DEF AppendLine, EnsureMigrated, ReadHistory, MigrateLine, InsertLine, MigrateFails,
                  WriteMarker, Record, ProbeRow, InsertRow
    <2>4. past'.kept = past.kept /\ past'.opened = past.opened /\ past'.raced = past.raced
      <3>1. CASE UNCHANGED past
        BY <3>1
      <3>2. CASE MigrateFails(p)
        BY <3>2 DEF MigrateFails
      <3>3. CASE End(p)
        BY <3>3 DEF End
      <3> QED
        BY <1>8, <3>1, <3>2, <3>3 DEF AppendLine, EnsureMigrated, ReadHistory, MigrateLine, InsertLine,
                                      WriteMarker, Record, ProbeRow, InsertRow
    <2>5. proc'[p].drop \in {{}, proc[p].drop}
      <3>1. CASE End(p)
        BY <3>1 DEF End, Resting
      <3>2. CASE AppendLine(p) \/ EnsureMigrated(p) \/ WriteMarker(p)
        BY <3>2 DEF AppendLine, EnsureMigrated, WriteMarker, Go
      <3>3. CASE ReadHistory(p)
        BY <3>3 DEF ReadHistory
      <3>4. CASE Record(p)
        BY <3>4 DEF Record
      <3>5. ASSUME NEW r, proc' = [proc EXCEPT ![p] = r], r.drop = proc[p].drop
            PROVE  proc'[p].drop = proc[p].drop
        BY <3>5
      <3>6. CASE MigrateLine(p) \/ InsertLine(p)
        <4> DEFINE next == [proc[p] EXCEPT !.lines = Tail(@)]
                   done == [proc[p] EXCEPT !.pc = "migrate", !.lines = Tail(@)]
        <4>1. \/ proc' = [proc EXCEPT ![p] = next]
              \/ proc' = [proc EXCEPT ![p] = done]
              \/ proc' = [proc EXCEPT ![p].pc = "insert_line"]
          BY <3>6 DEF MigrateLine, InsertLine, Go
        <4>2. next.drop = proc[p].drop /\ done.drop = proc[p].drop
          OBVIOUS
        <4>3. CASE proc' = [proc EXCEPT ![p].pc = "insert_line"]
          BY <4>3
        <4> HIDE DEF next, done
        <4> QED
          BY <3>5, <4>1, <4>2, <4>3
      <3>7. CASE MigrateFails(p)
        <4> DEFINE r == [proc[p] EXCEPT !.pc = "migrate", !.lines = <<>>]
        <4>1. proc' = [proc EXCEPT ![p] = r]
          BY <3>7 DEF MigrateFails
        <4>2. r.drop = proc[p].drop
          OBVIOUS
        <4> HIDE DEF r
        <4> QED
          BY <3>5, <4>1, <4>2
      <3>8. CASE ProbeRow(p) \/ InsertRow(p)
        <4>1. End(p) \/ Go(p, "insert")
          BY <3>8 DEF ProbeRow, InsertRow
        <4> QED
          BY <3>1, <4>1 DEF Go
      <3> QED
        BY <1>8, <3>2, <3>3, <3>4, <3>6, <3>7, <3>8
    <2> QED
      BY <2>2, <2>3, <2>4, <2>5 DEF OutputsAside, kept
  <1>9. CASE ClearHistory(p)
    BY <1>9 DEF ClearHistory, At, OutputsAside, Others, kept
  <1>10. CASE Crash(p) \/ GiveUp(p)
    BY <1>1, <1>10 DEF Crash, GiveUp, StopHalfWay, Resting
  <1>11. CASE SaveFails(p)
    <2> DEFINE r == [proc[p] EXCEPT !.pc = "log", !.id = None]
    <2>1. UNCHANGED <<now, kept>> /\ proc' = [proc EXCEPT ![p] = r]
      BY <1>11 DEF SaveFails
    <2>2. past'.kept = past.kept /\ past'.opened = past.opened /\ past'.raced = past.raced
      BY <1>11 DEF SaveFails, StopHalfWay
    <2>3. r.drop = proc[p].drop /\ r.pc = "log"
      OBVIOUS
    <2> HIDE DEF r
    <2> QED
      BY <1>1, <2>1, <2>2, <2>3
  <1> QED
    BY <1>2, <1>3, <1>4, <1>5, <1>6, <1>7, <1>8, <1>9, <1>10, <1>11

LEMMA NextOutputsInv == TrustInv /\ BookInv /\ OutputsInv /\ [Next]_vars => OutputsInv'
  <1> SUFFICES ASSUME TrustInv, BookInv, OutputsInv, [Next]_vars PROVE OutputsInv'
    OBVIOUS
  <1>0. RecordsShape /\ Counted
    BY DEF TrustInv, BookInv
  <1>1. CASE UNCHANGED <<kept, proc, past>> /\ now' \in {now, now + 1}
    <2>1. \A i \in Id : i[1] \in Nat
      BY RecordsAssumption DEF Id
    <2>2. OutputsTyped'
      <3>1. \A p \in Proc : proc[p].pc \in {"open", "write"} => proc[p].id[1] <= now'
        BY <1>0, <1>1, <2>1, RecordsAssumption DEF OutputsInv, OutputsTyped, Counted
      <3> QED
        BY <1>1, <3>1 DEF OutputsInv, OutputsTyped, kept
    <2>3. NoRotationDropsIt'
      <3>1. CASE Watched
        BY <1>1, <3>1 DEF OutputsInv, NoRotationDropsIt, Watched, kept
      <3>2. CASE ~Watched /\ Watched'
        <4>1. past.kept # None /\ past.kept \notin past.raced /\ now - past.kept[1] > Ttl
              /\ ~(now' - past.kept[1] > Ttl)
          BY <1>1, <3>2 DEF Watched
        <4>2. past.kept[1] \in Nat /\ now \in Nat /\ Ttl \in Nat /\ now' \in {now, now + 1}
          BY <1>0, <1>1, <2>1, <4>1, RecordsAssumption DEF OutputsInv, OutputsTyped, Counted
        <4> QED
          BY <4>1, <4>2
      <3> QED
        BY <3>1, <3>2 DEF NoRotationDropsIt
    <2>4. OverlapsAreRaced' /\ WriterHoldsTheNewest'
      BY <1>1 DEF OutputsInv, OverlapsAreRaced, WriterHoldsTheNewest, At, kept
    <2> QED
      BY <2>2, <2>3, <2>4 DEF OutputsInv
  <1>2. CASE Tick \/ (\E f \in Filter : Edit(f)) \/ UNCHANGED vars
    BY <1>1, <1>2 DEF Tick, Edit, vars
  <1>3. ASSUME NEW p \in Proc, Step(p) PROVE OutputsInv'
    <2>1. CASE SaveOpen(p) \/ SaveWrite(p)
      BY <1>0, <2>1, SaveOpenInv, SaveWriteInv
    <2>2. CASE RotateList(p) \/ RotateRemove(p)
      BY <1>0, <2>2, RotateInv
    <2>3. CASE ClearTee(p)
      <3>1. /\ UNCHANGED <<now, writes, proc>> /\ tee' = [i \in Id |-> None]
            /\ past'.kept = None /\ past'.opened = past.opened /\ past'.raced = past.raced
        BY <1>0, <2>3 DEF ClearTee, RecordsShape
      <3>2. OutputsTyped'
        BY <3>1 DEF OutputsInv, OutputsTyped
      <3>3. NoRotationDropsIt' /\ OverlapsAreRaced' /\ WriterHoldsTheNewest'
        BY <3>1 DEF OutputsInv, NoRotationDropsIt, Watched, OverlapsAreRaced, WriterHoldsTheNewest,
                    OutputsTyped, At
      <3> QED
        BY <3>2, <3>3 DEF OutputsInv
    <2> QED
      BY <1>0, <1>3, <2>1, <2>2, <2>3, StepsOutputsAside, OutputsAsideInv DEF Step
  <1> QED
    BY <1>2, <1>3 DEF Next

(* The newest output stays, whatever the rotations of other processes listed before, *)
(* unless its name was used twice or two outputs were written at once (tee.rs).      *)
THEOREM NewestIsKeptHolds == Spec => []NewestIsKept
  <1>1. OutputsInv => NewestIsKept
    BY DEF OutputsInv, NoRotationDropsIt, Watched, NewestIsKept
  <1> QED
    BY <1>1, InitTrustInv, NextTrustInv, InitBookInv, NextBookInv, InitOutputsInv, NextOutputsInv, PTL
    DEF Spec

-----------------------------------------------------------------------------
(* Who is to blame for an output that is not whole. *)
HalvesInv == \A i \in Id : HalfWritten(i) => i \in past.cut \/ \E p \in Proc : Writing(p, i)

(* A step that writes no output keeps the blame: whoever stops writing is recorded. *)
KeepsBlame(p) ==
    /\ past.cut \subseteq past'.cut
    /\ At(p, "write") => \/ At(p, "write")' /\ proc'[p].id = proc[p].id
                         \/ proc[p].id \in past'.cut

LEMMA StepsKeepBlame ==
    ASSUME RecordsShape, NEW p \in Proc, Step(p), ~SaveOpen(p), ~SaveWrite(p)
    PROVE  KeepsBlame(p)
  <1> USE DEF RecordsShape, KeepsBlame, At
  <1>1. CASE \E f \in Filter : TrustPath(p, f) \/ UntrustPath(p, f) \/ LookUp(p, f)
    BY <1>1 DEF TrustPath, UntrustPath, LookUp
  <1>2. CASE \/ \E s \in Slug : StartRun(p, s)
             \/ TruncateStore(p) \/ WriteStore(p) \/ Hash(p) \/ ReadFilter(p) \/ RunCommand(p)
    BY <1>2 DEF StartRun, TruncateStore, WriteStore, Hash, ReadFilter, RunCommand
  <1>3. CASE RotateList(p) \/ RotateRemove(p) \/ ClearTee(p) \/ ClearHistory(p)
    BY <1>3 DEF RotateList, RotateRemove, ClearTee, ClearHistory
  <1>4. CASE AppendLine(p) \/ EnsureMigrated(p) \/ ReadHistory(p) \/ MigrateLine(p) \/ InsertLine(p)
    BY <1>4 DEF AppendLine, EnsureMigrated, ReadHistory, MigrateLine, InsertLine
  <1>5. CASE MigrateFails(p) \/ WriteMarker(p) \/ Record(p)
    BY <1>5 DEF MigrateFails, WriteMarker, Record
  <1>6. CASE ProbeRow(p) \/ InsertRow(p) \/ GiveUp(p)
    BY <1>6 DEF ProbeRow, InsertRow, GiveUp, End
  <1>7. CASE Crash(p) \/ SaveFails(p)
    BY <1>7 DEF Crash, SaveFails, StopHalfWay
  <1> QED
    BY <1>1, <1>2, <1>3, <1>4, <1>5, <1>6, <1>7 DEF Step

(* Outputs are removed only, and the other processes write on. *)
LEMMA ShrinkHalvesInv ==
    ASSUME HalvesInv, NEW p \in Proc, KeepsBlame(p), Others(p),
           \A i \in Id : tee'[i] \in {None, tee[i]}
    PROVE  HalvesInv'
  <1> SUFFICES ASSUME NEW i \in Id, HalfWritten(i)'
               PROVE  i \in past'.cut \/ \E q \in Proc : Writing(q, i)'
    BY DEF HalvesInv
  <1>1. HalfWritten(i)
    BY DEF HalfWritten
  <1>2. CASE i \in past.cut
    BY <1>2 DEF KeepsBlame
  <1>3. CASE \E q \in Proc : Writing(q, i)
    <2> PICK q \in Proc : Writing(q, i)
      BY <1>3
    <2>1. CASE q = p
      BY <2>1 DEF KeepsBlame, Writing, At
    <2>2. CASE q # p
      BY <2>2 DEF Others, Writing, At
    <2> QED
      BY <2>1, <2>2
  <1> QED
    BY <1>1, <1>2, <1>3 DEF HalvesInv

LEMMA SavesHalvesInv ==
    ASSUME RecordsShape, BookInv, OutputsInv, HalvesInv, NEW p \in Proc, SaveOpen(p) \/ SaveWrite(p)
    PROVE  HalvesInv'
  <1>1. proc[p].id \in Id
    BY DEF OutputsInv, OutputsTyped, SaveOpen, SaveWrite, At
  <1> PICK i \in Id : i = proc[p].id
    BY <1>1
  <1>2. \A q \in Proc \ {p} : proc'[q] = proc[q]
    BY DEF SaveOpen, SaveWrite, Go, RecordsShape
  <1>3. CASE SaveOpen(p)
    <2>1. /\ \A j \in Id \ {i} : tee'[j] = tee[j]
          /\ past'.cut = past.cut \ {i} /\ ~At(p, "write")
      BY <1>3 DEF SaveOpen, OutputsInv, OutputsTyped, RecordsShape, At
    <2>2. Writing(p, i)'
      BY <1>3 DEF SaveOpen, Writing, At, Go, RecordsShape, Shape
    <2>3. ASSUME NEW j \in Id, j # i, HalfWritten(j)'
          PROVE  j \in past'.cut \/ \E q \in Proc : Writing(q, j)'
      <3>1. HalfWritten(j)
        BY <2>1, <2>3 DEF HalfWritten
      <3>2. ASSUME NEW q \in Proc, Writing(q, j) PROVE Writing(q, j)'
        BY <1>2, <2>1, <3>2 DEF Writing, At
      <3> QED
        BY <2>1, <2>3, <3>1, <3>2 DEF HalvesInv
    <2> QED
      BY <2>2, <2>3 DEF HalvesInv
  <1>4. CASE SaveWrite(p)
    <2>1. /\ tee' = IF tee[i] = None THEN tee
                    ELSE [tee EXCEPT ![i] = Kept(proc[p].run, now, writes + 1)]
          /\ past'.cut = past.cut /\ proc[p].pc = "write"
      BY <1>4 DEF SaveWrite, RecordsShape, At
    <2>2. proc[p].run # None
      <3>1. proc[p].run \in Started /\ left.runs \in 0 .. MaxRuns
        BY <2>1 DEF BookInv, Counted, RunTyped, Running
      <3>2. proc[p].run \in Run
        BY <3>1, RecordsAssumption DEF Started, Run
      <3> QED
        BY <3>2, NoneAssumption
    <2>3. /\ \A j \in Id \ {i} : tee'[j] = tee[j]
          /\ ((tee'[i] = tee[i] /\ tee[i] = None) \/ tee'[i].run = proc[p].run)
      BY <2>1 DEF OutputsInv, OutputsTyped, Kept
    <2>4. ~HalfWritten(i)'
      BY <2>2, <2>3 DEF HalfWritten
    <2>5. ASSUME NEW j \in Id, HalfWritten(j)'
          PROVE  j \in past'.cut \/ \E q \in Proc : Writing(q, j)'
      <3>1. j # i /\ HalfWritten(j)
        BY <2>3, <2>4, <2>5 DEF HalfWritten
      <3>2. ASSUME NEW q \in Proc, Writing(q, j) PROVE Writing(q, j)'
        BY <1>2, <3>1, <3>2 DEF Writing, At
      <3> QED
        BY <2>1, <3>1, <3>2 DEF HalvesInv
    <2> QED
      BY <2>5 DEF HalvesInv
  <1> QED
    BY <1>3, <1>4

LEMMA NextHalvesInv == TrustInv /\ BookInv /\ OutputsInv /\ HalvesInv /\ [Next]_vars => HalvesInv'
  <1> SUFFICES ASSUME TrustInv, BookInv, OutputsInv, HalvesInv, [Next]_vars PROVE HalvesInv'
    OBVIOUS
  <1>0. RecordsShape /\ tee = [i \in Id |-> tee[i]]
    BY DEF TrustInv, OutputsInv, OutputsTyped
  <1>1. CASE Tick \/ (\E f \in Filter : Edit(f)) \/ UNCHANGED vars
    BY <1>1 DEF Tick, Edit, vars, kept, HalvesInv, HalfWritten, Writing, At
  <1>2. ASSUME NEW p \in Proc, Step(p) PROVE HalvesInv'
    <2>1. CASE SaveOpen(p) \/ SaveWrite(p)
      BY <1>0, <2>1, SavesHalvesInv
    <2>2. CASE ~SaveOpen(p) /\ ~SaveWrite(p)
      <3>1. KeepsBlame(p)
        BY <1>0, <1>2, <2>2, StepsKeepBlame
      <3>2. Others(p) /\ \A i \in Id : tee'[i] \in {None, tee[i]}
        <4>1. CASE RotateList(p) \/ RotateRemove(p)
          BY <1>0, <4>1 DEF RotateList, RotateRemove, RecordsShape, Others, kept
        <4>2. CASE ClearTee(p)
          BY <4>2 DEF ClearTee, Others
        <4>3. CASE OutputsAside(p)
          BY <4>3 DEF OutputsAside
        <4> QED
          BY <1>0, <1>2, <2>2, <4>1, <4>2, <4>3, StepsOutputsAside DEF Step
      <3> QED
        BY <3>1, <3>2, ShrinkHalvesInv
    <2> QED
      BY <2>1, <2>2
  <1> QED
    BY <1>1, <1>2 DEF Next

(* What is on disk has a shape that the readers of ig understand, a run has one line *)
(* at most in the history, an output that is not whole has a writer or one that      *)
(* stopped, and the rows, the lines and the label of a process are of their types.   *)
THEOREM RecordsTypeCorrect == Spec => []RTypeOK
  <1>1. BookInv /\ StoreTyped /\ OutputsInv /\ HalvesInv => RTypeOK
    <2> SUFFICES ASSUME BookInv, StoreTyped, OutputsInv, HalvesInv PROVE RTypeOK
      OBVIOUS
    <2>1. tee \in [Id -> KeptType \cup {None}]
      BY DEF OutputsInv, OutputsTyped
    <2>2. \A i \in Id : tee[i] = None \/ tee[i].nth <= writes
      BY DEF OutputsInv, OutputsTyped
    <2>3. ASSUME NEW p \in Proc
          PROVE  /\ proc[p].pc \in Outside \cup Running \cup Booking
                 /\ proc[p].lines \in Seq(LineType) /\ proc[p].drop \subseteq Id
                 /\ proc[p].pc = "insert_line" => proc[p].lines # <<>>
                 /\ proc[p].pc \in {"open", "write"} => proc[p].id \in Id
      BY DEF BookInv, RunTyped, OutputsInv, OutputsTyped
    <2> QED
      BY <2>1, <2>2, <2>3 DEF RTypeOK, HalvesInv, BookInv, BookTyped, Counted, LinesOnce, StoreTyped,
                              StoreType
  <1>2. Init => HalvesInv
    BY DEF Init, HalvesInv, HalfWritten
  <1> QED
    BY <1>1, <1>2, InitTrustInv, NextTrustInv, InitBookInv, NextBookInv, InitStoreTyped, NextStoreTyped,
       InitOutputsInv, NextOutputsInv, NextHalvesInv, PTL
    DEF Spec
=============================================================================
