------------------------------ MODULE BuildLock ------------------------------
(***************************************************************************)
(* The inter-process build lock of an index directory: IndexLock::acquire, *)
(* holder_is_stale and Drop of src/src/index/lock.rs, one action per       *)
(* system call.  Every `ig` invocation is a process of its own that takes  *)
(* the lock at most once, so the creator of a lock file also names the     *)
(* file (the inode) that now stands at the path index.lock.                *)
(*                                                                         *)
(* Time is relative: the age of the lock file and the time each process    *)
(* has waited, both saturating just past the constant they are compared    *)
(* with, so that time is unbounded and the state space is finite.          *)
(***************************************************************************)
EXTENDS Naturals

CONSTANTS
    Proc,            \* the processes that run a build
    None,            \* no lock file, or no pid in the lock file
    AcquireTimeout,  \* ACQUIRE_TIMEOUT: 30 s
    StaleAge,        \* STALE_AGE: 600 s
    PidWriteGrace,   \* PID_WRITE_GRACE: 5 s
    Faults           \* what the environment may do, a subset of FaultKinds

(***************************************************************************)
(* crash       a process dies anywhere (kill -9, abort, power)             *)
(* recycle     the pid of an ended process is given to another one         *)
(* slow_build  a build outlives StaleAge                                   *)
(* slow_start  more than PidWriteGrace between create_new and the pid      *)
(* disk_full   the pid is never written, the write error is dropped        *)
(* foreign     kill(pid, 0) fails with EPERM: another user's process       *)
(* denied      remove_file fails on another process's lock file            *)
(***************************************************************************)
FaultKinds == {"crash", "recycle", "slow_build", "slow_start", "disk_full",
               "foreign", "denied"}

ASSUME TimeAssumption ==
    /\ AcquireTimeout \in Nat /\ StaleAge \in Nat /\ PidWriteGrace \in Nat
    /\ PidWriteGrace < StaleAge
ASSUME NoneAssumption == None \notin Proc
ASSUME FaultAssumption == Faults \subseteq FaultKinds

VARIABLES
    pc,         \* where each process stands in acquire / build / Drop
    owner,      \* creator of the file now at the path, None when there is none
    pidIn,      \* the pid the file holds, None while it is empty
    age,        \* time since the file was last modified
    waited,     \* time since each process computed its deadline
    verdict,    \* the locals of each process in holder_is_stale
    recycled,   \* ended processes whose pid runs again
    robbed,     \* history: lock holders whose file was removed by another
    condemned   \* history: those removed on a verdict about that very file

lockVars == <<owner, pidIn, age>>
histVars == <<robbed, condemned>>
vars == <<pc, lockVars, waited, verdict, recycled, histVars>>

\* age and pid are what stat and read returned; files is history, the files that
\* were at the path when they did.
Verdict == [age : 0 .. StaleAge + 1, pid : Proc \cup {None},
            files : SUBSET (Proc \cup {None})]
NoVerdict == [age |-> 0, pid |-> None, files |-> {}]

Ended == {"released", "bailed", "dead"}
Waiting == {"creating", "statting", "reading", "probing", "removing", "checking"}
PCs == {"new", "writing_pid", "building"} \cup Waiting \cup Ended

\* The process is between the success of create_new and its Drop.
Holding(p) == pc[p] \in {"writing_pid", "building"}

\* kill(pid, 0) finds a process: the one that wrote the pid, or a later one.
Running(p) == pc[p] \notin Ended \cup {"new"} \/ p \in recycled

Init ==
    /\ pc = [p \in Proc |-> "new"]
    /\ owner = None /\ pidIn = None /\ age = 0
    /\ waited = [p \in Proc |-> 0]
    /\ verdict = [p \in Proc |-> NoVerdict]
    /\ recycled = {}
    /\ robbed = {} /\ condemned = {}

Goto(p, label) == pc' = [pc EXCEPT ![p] = label]

-----------------------------------------------------------------------------
(* acquire *)

\* create_dir_all, then the deadline is computed.
Begin(p) ==
    /\ pc[p] = "new"
    /\ Goto(p, "creating")
    /\ UNCHANGED <<lockVars, waited, verdict, recycled, histVars>>

\* Mutants of CreateNew: create(true) without and with truncate(true).
CreateOrOpen(p) ==
    /\ pc[p] = "creating"
    /\ owner' = p
    /\ Goto(p, "writing_pid")
    /\ UNCHANGED <<pidIn, age, waited, verdict, recycled, histVars>>

CreateOrTruncate(p) ==
    /\ pc[p] = "creating"
    /\ owner' = p /\ pidIn' = None /\ age' = 0
    /\ Goto(p, "writing_pid")
    /\ UNCHANGED <<waited, verdict, recycled, histVars>>

\* open(O_CREAT | O_EXCL) succeeds: the process has the lock, its file is empty.
CreateNew(p) ==
    /\ pc[p] = "creating"
    /\ owner = None
    /\ owner' = p /\ pidIn' = None /\ age' = 0
    /\ Goto(p, "writing_pid")
    /\ UNCHANGED <<waited, verdict, recycled, histVars>>

\* AlreadyExists: holder_is_stale is called.
CreateExists(p) ==
    /\ pc[p] = "creating"
    /\ owner # None
    /\ Goto(p, "statting")
    /\ UNCHANGED <<lockVars, waited, verdict, recycled, histVars>>

\* writeln!(pid), its error ignored.  It goes to the inode, which is at the path
\* only while nobody removed it, and it renews the file's mtime.
WritePid(p) ==
    /\ pc[p] = "writing_pid"
    /\ \/ /\ owner = p
          /\ pidIn' = p /\ age' = 0
       \/ /\ owner # p \/ "disk_full" \in Faults
          /\ UNCHANGED <<pidIn, age>>
    /\ Goto(p, "building")
    /\ UNCHANGED <<owner, waited, verdict, recycled, histVars>>

\* holder_is_stale returns: its locals are gone unless the caller steals.
NotStale(p) ==
    /\ Goto(p, "checking")
    /\ verdict' = [verdict EXCEPT ![p] = NoVerdict]

\* Mutant of Stat: the wrong one of the two limits.
StatWithGrace(p) ==
    /\ pc[p] = "statting"
    /\ \/ owner = None /\ NotStale(p)
       \/ /\ owner # None
          /\ Goto(p, IF age > PidWriteGrace THEN "removing" ELSE "reading")
          /\ verdict' = [verdict EXCEPT
                 ![p] = [age |-> age, pid |-> None, files |-> {owner}]]
    /\ UNCHANGED <<lockVars, waited, recycled, histVars>>

\* fs::metadata: a vanished file is not stale, a file past StaleAge is, any
\* other is judged by its pid.
Stat(p) ==
    /\ pc[p] = "statting"
    /\ \/ owner = None /\ NotStale(p)
       \/ /\ owner # None
          /\ Goto(p, IF age > StaleAge THEN "removing" ELSE "reading")
          /\ verdict' = [verdict EXCEPT
                 ![p] = [age |-> age, pid |-> None, files |-> {owner}]]
    /\ UNCHANGED <<lockVars, waited, recycled, histVars>>

\* Mutant of ReadPid: an empty lock file is stale at once.
ReadPidWithoutGrace(p) ==
    /\ pc[p] = "reading"
    /\ Goto(p, IF pidIn = None THEN "removing" ELSE "probing")
    /\ verdict' = [verdict EXCEPT
           ![p] = [age |-> @.age, pid |-> pidIn, files |-> @.files \cup {owner}]]
    /\ UNCHANGED <<lockVars, waited, recycled, histVars>>

\* read_to_string: without a pid (an empty or by now absent file) the age taken
\* by stat decides, with a pid the process is probed next.
ReadPid(p) ==
    /\ pc[p] = "reading"
    /\ \/ pidIn = None /\ verdict[p].age <= PidWriteGrace /\ NotStale(p)
       \/ /\ pidIn = None => verdict[p].age > PidWriteGrace
          /\ Goto(p, IF pidIn = None THEN "removing" ELSE "probing")
          /\ verdict' = [verdict EXCEPT
                 ![p] = [age |-> @.age, pid |-> pidIn, files |-> @.files \cup {owner}]]
    /\ UNCHANGED <<lockVars, waited, recycled, histVars>>

\* kill(pid, 0): any failure, EPERM included, means stale.
Probe(p) ==
    /\ pc[p] = "probing"
    /\ \/ Running(verdict[p].pid) /\ NotStale(p)
       \/ /\ ~Running(verdict[p].pid) \/ "foreign" \in Faults
          /\ Goto(p, "removing")
          /\ UNCHANGED verdict
    /\ UNCHANGED <<lockVars, waited, recycled, histVars>>

\* remove_file(path): the file at the path goes, whoever created it.
Unlink(p) ==
    IF "denied" \in Faults /\ owner # p
    THEN UNCHANGED lockVars
    ELSE owner' = None /\ pidIn' = None /\ age' = 0

\* The history of an unlink by p that takes the file of a live holder.
Blame(p, files) ==
    LET victim == {v \in Proc \ {p} : v = owner /\ owner' = None /\ Holding(v)}
    IN  /\ robbed' = robbed \cup victim
        /\ condemned' = condemned \cup {v \in victim : files = {v}}

\* Mutant of Steal: the removal is forgotten.
StealNothing(p) ==
    /\ pc[p] = "removing"
    /\ Goto(p, "creating")
    /\ verdict' = [verdict EXCEPT ![p] = NoVerdict]
    /\ UNCHANGED <<lockVars, waited, recycled, histVars>>

\* Steal: remove the path and loop back to create_new, without a look at the
\* deadline and whether or not the removal succeeded.
Steal(p) ==
    /\ pc[p] = "removing"
    /\ Unlink(p)
    /\ Blame(p, verdict[p].files)
    /\ Goto(p, "creating")
    /\ verdict' = [verdict EXCEPT ![p] = NoVerdict]
    /\ UNCHANGED <<waited, recycled>>

\* Not stale: bail past the deadline, otherwise sleep POLL and try again.
CheckDeadline(p) ==
    /\ pc[p] = "checking"
    /\ Goto(p, IF waited[p] >= AcquireTimeout THEN "bailed" ELSE "creating")
    /\ UNCHANGED <<lockVars, waited, verdict, recycled, histVars>>

-----------------------------------------------------------------------------
(* The end of a build *)

\* Drop: remove the path without asking whose file is there.  The process ends
\* soon after; nothing it does in between matters to the others.
Drop(p) ==
    /\ pc[p] = "building"
    /\ Unlink(p)
    /\ Blame(p, {})
    /\ Goto(p, "released")
    /\ UNCHANGED <<waited, verdict, recycled>>

\* The process dies without running Drop.
Crash(p) ==
    /\ "crash" \in Faults
    /\ pc[p] \notin Ended \cup {"new"}
    /\ Goto(p, "dead")
    /\ verdict' = [verdict EXCEPT ![p] = NoVerdict]
    /\ UNCHANGED <<lockVars, waited, recycled, histVars>>

-----------------------------------------------------------------------------
(* Time and pids *)

\* Saturating successor.
Advance(t, limit) == IF t > limit THEN t ELSE t + 1

\* Time passes.  Without the slow faults a holder is done, or has written its
\* pid, before the corresponding limit.
Tick ==
    /\ ("slow_build" \in Faults \/ age < StaleAge)
         \/ ~\E p \in Proc : owner = p /\ Holding(p)
    /\ ("slow_start" \in Faults \/ age < PidWriteGrace)
         \/ ~\E p \in Proc : owner = p /\ pc[p] = "writing_pid"
    /\ age' = IF owner = None THEN age ELSE Advance(age, StaleAge)
    /\ waited' = [p \in Proc |-> IF pc[p] \in Waiting
                                 THEN Advance(waited[p], AcquireTimeout)
                                 ELSE waited[p]]
    /\ UNCHANGED <<pc, owner, pidIn, verdict, recycled, histVars>>

\* The system gives the pid of an ended process to a new one.
Recycle(p) ==
    /\ "recycle" \in Faults
    /\ pc[p] \in Ended
    /\ recycled' = recycled \cup {p}
    /\ UNCHANGED <<pc, lockVars, waited, verdict, histVars>>

-----------------------------------------------------------------------------
Step(p) ==
    \/ CreateNew(p) \/ CreateExists(p) \/ WritePid(p)
    \/ Stat(p) \/ ReadPid(p) \/ Probe(p) \/ Steal(p) \/ CheckDeadline(p)
    \/ Drop(p)

Next ==
    \/ \E p \in Proc : Begin(p) \/ Step(p) \/ Crash(p) \/ Recycle(p)
    \/ Tick

Spec == Init /\ [][Next]_vars

\* A process that runs is scheduled again and again, and time passes; nobody has
\* to start a build, to crash, or to reuse a pid.
Fairness == (\A p \in Proc : WF_vars(Step(p))) /\ WF_vars(Tick)

FairSpec == Spec /\ Fairness

-----------------------------------------------------------------------------
(* Properties *)

\* The type invariant.  An absent file holds no pid, and a file holds no other
\* pid than its creator's.
TypeOK ==
    /\ pc \in [Proc -> PCs]
    /\ owner \in Proc \cup {None}
    /\ pidIn \in {None, owner}
    /\ age \in 0 .. StaleAge + 1
    /\ waited \in [Proc -> 0 .. AcquireTimeout + 1]
    /\ verdict \in [Proc -> Verdict]
    /\ recycled \subseteq Proc
    /\ robbed \subseteq Proc /\ condemned \subseteq robbed

\* What lock.rs:29 says of an IndexLock: "holding an `IndexLock` means this process
\* is the only index builder for that directory".  Of three builders two may hold the
\* lock, without any fault: the verdict about the lock of one that has ended is carried
\* out on the lock of another that has been created since.
MutualExclusion == \A p, q \in Proc : Holding(p) /\ Holding(q) => p = q

\* The lock keeps builders apart for as long as nobody removes the file of a live
\* holder: of two processes that hold the lock at once, one has been robbed.  It
\* rests on create_new, on the stealing path and on Drop, which removes a path and
\* not a file.
OneUnrobbedHolder ==
    \A p, q \in Proc : Holding(p) /\ Holding(q) /\ p # q => p \in robbed \/ q \in robbed

\* The staleness rules themselves are right: while builds end within StaleAge, the
\* pid is written within PidWriteGrace and kill can reach the holder, no verdict
\* of holder_is_stale formed from one lock file condemns that file's live holder.
\* Live holders are robbed only by verdicts about a file that is already gone.
VerdictsAreSound == condemned = {}

\* acquire ends: every process that starts to wait gets the lock, gives up or dies
\* (ACQUIRE_TIMEOUT, lock.rs:17: "How long a second builder waits before giving up").
WaitEnds == \A p \in Proc : pc[p] = "creating" ~> pc[p] \notin Waiting

-----------------------------------------------------------------------------
(* The inductive invariants behind OneUnrobbedHolder and VerdictsAreSound *)

\* A holder's file is the one at the path, unless it was taken away.
HolderOwnsOrRobbed == \A p \in Proc : Holding(p) => owner = p \/ p \in robbed

\* No fault that makes a sound verdict about a live holder wrong.
Prompt == Faults \cap {"slow_build", "slow_start", "disk_full", "foreign"} = {}

\* A file has one creator and its creator never waits for the lock again.
SpentCreators ==
    \A v \in Proc :
        v = owner \/ (\E p \in Proc : v \in verdict[p].files)
            => pc[v] \in {"writing_pid", "building"} \cup Ended

\* The file of a live holder is young, and has its pid once the build runs.
YoungWhileHeld ==
    \A v \in Proc :
        /\ owner = v /\ Holding(v) => age <= StaleAge
        /\ owner = v /\ pc[v] = "writing_pid" => age <= PidWriteGrace
        /\ owner = v /\ pc[v] = "building" => pidIn = v

\* What the verdict of p says while it is about the one file of v.
VerdictAbout(p, v) ==
    verdict[p].files = {v} =>
        /\ pc[p] = "reading" /\ owner = v /\ pc[v] = "writing_pid"
               => verdict[p].age <= PidWriteGrace
        /\ pc[p] = "probing" => verdict[p].pid = v
        /\ pc[p] = "removing" => owner # v \/ ~Holding(v)

\* Who reads the pid has seen a file before.
Informed == \A p \in Proc : pc[p] = "reading" => verdict[p].files # {}

PromptInv ==
    /\ SpentCreators /\ YoungWhileHeld /\ Informed
    /\ \A p, v \in Proc : VerdictAbout(p, v)
    /\ VerdictsAreSound
=============================================================================
