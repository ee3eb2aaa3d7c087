----------------------------- MODULE CacheLayout -----------------------------
(***************************************************************************)
(* ensure_layout of src/src/cache.rs: every command first moves what an    *)
(* older version left at the root of the cache to projects/, under a lock  *)
(* file that holds the owner's pid; main goes on with the command whatever *)
(* comes of it.  And migrate_root, a command that moves a project's own    *)
(* .ig into the cache.                                                     *)
(***************************************************************************)
EXTENDS Naturals, FiniteSets

CONSTANTS
    Caller,      \* the ig processes
    Entry,       \* the cache entries
    File,        \* the files of a project's .ig
    Nothing,
    Patience,    \* LAYOUT_LOCK_LIVE_TIMEOUT, in rounds of the waiting loop
    MaxVersion,  \* bound: versions of an entry
    MaxDeaths,   \* bound: processes that die
    MaxErrors    \* bound: calls of the file system that fail

ASSUME LayoutAssumption ==
    /\ {Patience, MaxDeaths, MaxErrors} \subseteq Nat /\ MaxVersion \in Nat \ {0}
    /\ \A S \in SUBSET File : S /= Nothing

VARIABLES
    marker,      \* .layout-v1 exists
    lock,        \* .layout.lock: Nothing, or who made it, or whose pid it holds
    legacy, new, \* [Entry -> the version at the root and under projects/]
    newest,      \* history: the last version written of each entry
    daemon,      \* the old version's daemon runs
    local, dest, \* the files of .ig and of its cache entry; Nothing: no directory
    caller,      \* [Caller -> what it is doing]
    faults,      \* deaths and errors so far; the entries a migration passed over
                 \* because a call failed, and those a removal left half of
    alone        \* scenario: one command at a time

layout == <<marker, lock, legacy, new, newest, daemon>>
project == <<local, dest>>
lvars == <<layout, project, caller, faults, alone>>

Quiet == [pc |-> "idle", waited |-> 0, todo |-> {}, e |-> Nothing]
Free == [by |-> Nothing, pid |-> FALSE]   \* no lock file
Dead == [by |-> "dead", pid |-> TRUE]     \* the lock file of a process that died

LInit ==
    /\ marker = FALSE /\ lock = Free
    /\ legacy \in [Entry -> 0 .. 1] /\ new \in [Entry -> 0 .. 1]
    /\ newest = [e \in Entry |-> IF legacy[e] > new[e] THEN legacy[e] ELSE new[e]]
    /\ daemon = TRUE
    /\ local = File /\ dest = Nothing
    /\ caller = [c \in Caller |-> Quiet]
    /\ faults = [deaths |-> 0, errors |-> 0, skipped |-> {}, torn |-> {}]
    /\ alone \in BOOLEAN

On(c, label) == caller[c].pc = label
Turn(c, label) == caller' = [caller EXCEPT ![c].pc = label]
Return(c) == caller' = [caller EXCEPT ![c] = Quiet]
GoOn(c) == caller' = [caller EXCEPT ![c] = [Quiet EXCEPT !.pc = "on"]]   \* with the command
Begins(c) == On(c, "idle") /\ (alone => \A d \in Caller : On(d, "idle"))

\* A call of the file system fails; the entry is skipped for it, or not.
Fault(skips, tears) ==
    /\ faults.errors < MaxErrors
    /\ faults' = [faults EXCEPT !.errors = @ + 1, !.skipped = @ \cup skips,
                                !.torn = @ \cup tears]

-----------------------------------------------------------------------------
(* The lock *)

Enter(c) ==
    /\ Begins(c) /\ IF marker THEN GoOn(c) ELSE Turn(c, "create")
    /\ UNCHANGED <<layout, project, faults, alone>>

MakeLock(c) == lock' = [by |-> c, pid |-> FALSE]

CreateLock(c) ==
    /\ On(c, "create")
    /\ IF lock = Free THEN MakeLock(c) /\ Turn(c, "pid") ELSE Turn(c, "wait") /\ UNCHANGED lock
    /\ UNCHANGED <<marker, legacy, new, newest, daemon, project, faults, alone>>

\* Mutant: the deadline is looked at one round late.
WaitOnceMore(c) ==
    /\ On(c, "wait")
    /\ IF marker THEN GoOn(c)
       ELSE IF lock.pid /\ lock /= Dead
            THEN IF caller[c].waited > Patience THEN GoOn(c)
                 ELSE caller' = [caller EXCEPT ![c].waited = @ + 1]
            ELSE Turn(c, "unlink")
    /\ UNCHANGED <<layout, project, faults, alone>>

\* Mutant: the pid is not looked at; a lock file is waited for.
WaitForTheFile(c) ==
    /\ On(c, "wait")
    /\ marker \/ lock = Free
    /\ IF marker THEN GoOn(c) ELSE Turn(c, "unlink")
    /\ UNCHANGED <<layout, project, faults, alone>>

\* One round: the marker, then the holder's pid.  A file without a pid, like no
\* file, has no living holder.
Wait(c) ==
    /\ On(c, "wait")
    /\ IF marker THEN GoOn(c)
       ELSE IF lock.pid /\ lock /= Dead
            THEN IF caller[c].waited = Patience THEN GoOn(c)
                 ELSE caller' = [caller EXCEPT ![c].waited = @ + 1]
            ELSE Turn(c, "unlink")
    /\ UNCHANGED <<layout, project, faults, alone>>

RemoveLock(c) ==
    /\ On(c, "unlink")
    /\ lock' = Free /\ Turn(c, "again")
    /\ UNCHANGED <<marker, legacy, new, newest, daemon, project, faults, alone>>

CreateAgain(c) ==
    /\ On(c, "again")
    /\ IF lock = Free THEN MakeLock(c) /\ Turn(c, "pid") ELSE GoOn(c) /\ UNCHANGED lock
    /\ UNCHANGED <<marker, legacy, new, newest, daemon, project, faults, alone>>

\* The pid goes to the file that was made, which may be gone.
RecordPid(c) ==
    /\ On(c, "pid")
    /\ lock' = IF lock.by = c THEN [lock EXCEPT !.pid = TRUE] ELSE lock
    /\ Turn(c, "kill")
    /\ UNCHANGED <<marker, legacy, new, newest, daemon, project, faults, alone>>

\* The file of that name goes, whoever made it.
Release(c) ==
    /\ On(c, "release")
    /\ lock' = Free /\ GoOn(c)
    /\ UNCHANGED <<marker, legacy, new, newest, daemon, project, faults, alone>>

-----------------------------------------------------------------------------
(* migrate_legacy_to_v19; version 0 is no entry, a later one is newer *)

\* Mutant: the old daemon goes on.
ListOnly(c) ==
    /\ On(c, "kill")
    /\ caller' = [caller EXCEPT ![c].pc = "migrate", ![c].todo = {e \in Entry : legacy[e] > 0}]
    /\ UNCHANGED <<layout, project, faults, alone>>

\* kill_legacy_daemon_if_running, the directories, and the listing of the root.
KillAndList(c) ==
    /\ On(c, "kill")
    /\ daemon' = FALSE
    /\ caller' = [caller EXCEPT ![c].pc = "migrate", ![c].todo = {e \in Entry : legacy[e] > 0}]
    /\ UNCHANGED <<marker, lock, legacy, new, newest, project, faults, alone>>

\* Mutant: what is under projects/ always wins.
LookForAny(c) ==
    /\ On(c, "migrate")
    /\ \E e \in caller[c].todo :
          caller' = [caller EXCEPT ![c].todo = @ \ {e}, ![c].e = e,
                        ![c].pc = IF new[e] = 0 THEN "move" ELSE "drop"]
    /\ UNCHANGED <<layout, project, faults, alone>>

\* newer_than compares times, which a removal of a part has changed.
Ways(e) == IF e \in faults.torn THEN {"replace", "drop"}
           ELSE IF legacy[e] > new[e] THEN {"replace"} ELSE {"drop"}

Look(c) ==
    /\ On(c, "migrate")
    /\ \E e \in caller[c].todo : \E way \in Ways(e) :
          caller' = [caller EXCEPT ![c].todo = @ \ {e}, ![c].e = e,
                        ![c].pc = IF new[e] = 0 THEN "move" ELSE way]
    /\ UNCHANGED <<layout, project, faults, alone>>

\* What remove_dir_all leaves when it fails or its process dies: all, or a part.
Half(e) == {{}, {e}}

RemoveNew(c) == LET e == caller[c].e IN
    /\ On(c, "replace") /\ Turn(c, "move")
    /\ \/ new' = [new EXCEPT ![e] = 0] /\ UNCHANGED faults
       \/ UNCHANGED new /\ \E part \in Half(e) : Fault({}, part)
    /\ UNCHANGED <<marker, lock, legacy, newest, daemon, project, alone>>

\* rename does nothing when the entry is gone, when the destination is there by
\* now, and when it fails; the loop over the entries goes on.
MoveEntry(c) == LET e == caller[c].e IN
    /\ On(c, "move") /\ Turn(c, "migrate")
    /\ \/ /\ legacy[e] > 0 /\ new[e] = 0
          /\ new' = [new EXCEPT ![e] = legacy[e]] /\ legacy' = [legacy EXCEPT ![e] = 0]
          /\ UNCHANGED faults
       \/ legacy[e] = 0 /\ UNCHANGED <<new, legacy, faults>>
       \/ new[e] > 0 /\ faults' = [faults EXCEPT !.skipped = @ \cup {e}] /\ UNCHANGED <<new, legacy>>
       \/ Fault({e}, {}) /\ UNCHANGED <<new, legacy>>
    /\ UNCHANGED <<marker, lock, newest, daemon, project, alone>>

DropLegacy(c) == LET e == caller[c].e IN
    /\ On(c, "drop") /\ Turn(c, "migrate")
    /\ \/ legacy' = [legacy EXCEPT ![e] = 0] /\ UNCHANGED faults
       \/ UNCHANGED legacy /\ \E part \in Half(e) : Fault({e}, part)
    /\ UNCHANGED <<marker, lock, new, newest, daemon, project, alone>>

\* The links and the manifest are rebuilt (CacheRegistry), the marker is last.
WriteMarker(c) ==
    /\ On(c, "migrate") /\ caller[c].todo = {}
    /\ marker' = TRUE /\ Turn(c, "release")
    /\ UNCHANGED <<lock, legacy, new, newest, daemon, project, faults, alone>>

\* A directory or the lock file cannot be made, or the root not be read: the lock
\* goes, if it was made, and the marker is not written.
MigrationFails(c) ==
    /\ caller[c].pc \in {"create", "kill", "migrate"} /\ Fault({}, {})
    /\ IF On(c, "create") THEN GoOn(c) ELSE Turn(c, "release")
    /\ UNCHANGED <<layout, project, alone>>

-----------------------------------------------------------------------------
(* The command, which runs though the layout may not have been migrated *)

\* It builds the index of a project under projects/, or needs no index.
Command(c) ==
    /\ On(c, "on") /\ Return(c)
    /\ \/ \E e \in Entry :
             /\ newest[e] < MaxVersion
             /\ newest' = [newest EXCEPT ![e] = @ + 1]
             /\ new' = [new EXCEPT ![e] = newest[e] + 1]
       \/ UNCHANGED <<newest, new>>
    /\ UNCHANGED <<marker, lock, legacy, daemon, project, faults, alone>>

-----------------------------------------------------------------------------
(* migrate_root: a rename, or a copy file by file and then a removal *)

MigrateRoot(c) ==
    /\ On(c, "on") /\ local /= Nothing /\ dest = Nothing
    /\ \/ dest' = local /\ local' = Nothing /\ Return(c)
       \/ dest' = {} /\ Turn(c, "copy") /\ UNCHANGED local
    /\ UNCHANGED <<layout, faults, alone>>

CopyFile(c) ==
    /\ On(c, "copy")
    /\ \E f \in local \ dest : dest' = dest \cup {f}
    /\ UNCHANGED <<layout, local, caller, faults, alone>>

Copied(c) == On(c, "copy") /\ local \subseteq dest

RemoveLocal(c) ==
    /\ Copied(c)
    /\ local' = Nothing /\ Return(c)
    /\ UNCHANGED <<layout, dest, faults, alone>>

-----------------------------------------------------------------------------
(* Around the callers *)

\* A daemon of the old version writes an entry where it knows it.
DaemonWrites(e) ==
    /\ daemon /\ newest[e] < MaxVersion
    /\ newest' = [newest EXCEPT ![e] = @ + 1]
    /\ legacy' = [legacy EXCEPT ![e] = newest[e] + 1]
    /\ UNCHANGED <<marker, lock, new, daemon, project, caller, faults, alone>>

\* A process that dies in a removal leaves all or a part.
Die(c) ==
    /\ ~On(c, "idle") /\ faults.deaths < MaxDeaths /\ Return(c)
    /\ \E part \in IF caller[c].pc \in {"replace", "drop"} THEN Half(caller[c].e) ELSE {{}} :
          faults' = [faults EXCEPT !.deaths = @ + 1, !.torn = @ \cup part]
    /\ lock' = IF lock.by /= c THEN lock ELSE [lock EXCEPT !.by = "dead"]
    /\ UNCHANGED <<marker, legacy, new, newest, daemon, project, alone>>

LStep(c) ==
    \/ CreateLock(c) \/ Wait(c) \/ RemoveLock(c) \/ CreateAgain(c) \/ RecordPid(c)
    \/ KillAndList(c) \/ Look(c) \/ RemoveNew(c) \/ MoveEntry(c) \/ DropLegacy(c)
    \/ WriteMarker(c) \/ Release(c) \/ Command(c) \/ CopyFile(c) \/ RemoveLocal(c)

LNext == \/ \E c \in Caller : Enter(c) \/ MigrateRoot(c) \/ LStep(c) \/ MigrationFails(c) \/ Die(c)
         \/ \E e \in Entry : DaemonWrites(e)

\* A process that runs goes on; nobody has to start or to die.
LSpec == LInit /\ [][LNext]_lvars /\ \A c \in Caller : WF_lvars(LStep(c))

-----------------------------------------------------------------------------
(* Properties *)

\* The state is well formed.
LTypeOK ==
    /\ marker \in BOOLEAN /\ daemon \in BOOLEAN /\ alone \in BOOLEAN
    /\ lock \in [by : Caller \cup {Nothing, "dead"}, pid : BOOLEAN]
    /\ {legacy, new, newest} \subseteq [Entry -> 0 .. MaxVersion]
    /\ \A c \in Caller : caller[c].waited \in 0 .. Patience /\ caller[c].todo \subseteq Entry

\* One command at a time, however many die or fail: the last version of every entry
\* is somewhere on disk, at the root or under projects/, unless a removal of one of
\* the two was cut in half (the half then counts as the newer); and so are all files
\* of a project's own index (migrate_legacy_to_v19, migrate_root).
NothingIsLost ==
    /\ alone => \A e \in Entry \ faults.torn : newest[e] \in {legacy[e], new[e]}
    /\ alone => File \in {local, dest}

\* What "drop the marker LAST" (cache.rs:707) is for, and does not do: a migration
\* that could not move an entry is not retried, the marker is written all the same.
MarkedIsMigrated == marker => \A e \in Entry : legacy[e] = 0

\* Once the marker is there, which ends the looking for good, an entry is left at the
\* root only if a rename or a removal of just that entry failed, whatever
\* migrations ran at once, died or failed, and whatever commands wrote meanwhile.
MarkedIsTried == marker => \A e \in Entry : legacy[e] = 0 \/ e \in faults.skipped

\* A command does not wait for the layout for ever, whoever died with the lock.
CallsEnd == \A c \in Caller : ~On(c, "idle") ~> On(c, "idle")
=============================================================================
