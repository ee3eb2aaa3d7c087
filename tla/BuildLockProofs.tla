--------------------------- MODULE BuildLockProofs ---------------------------
(***************************************************************************)
(* What holds of the build lock for any number of processes, any           *)
(* timeouts and, except in the last two theorems, any faults.              *)
(***************************************************************************)
EXTENDS BuildLock, TLAPS

USE DEF Goto, Holding, Waiting, Ended, PCs

(* Advance saturates just past its limit. *)
LEMMA AdvanceBounded ==
    ASSUME NEW limit \in Nat, NEW t \in 0 .. limit + 1
    PROVE  Advance(t, limit) \in 0 .. limit + 1
  BY DEF Advance

(* The initial state is well typed. *)
LEMMA InitTypeOK == Init => TypeOK
  BY TimeAssumption DEF Init, TypeOK, NoVerdict, Verdict

(* Every step keeps the types: the pid in the file stays its creator's, and what *)
(* a process saw stays within the range of ages and pids.                        *)
LEMMA NextTypeOK == TypeOK /\ [Next]_vars => TypeOK'
  <1> SUFFICES ASSUME TypeOK, [Next]_vars PROVE TypeOK'
    OBVIOUS
  <1> USE TimeAssumption, NoneAssumption DEF TypeOK, lockVars, histVars
  <1>0. NoVerdict \in Verdict
    BY DEF NoVerdict, Verdict
  <1>1. ASSUME NEW p \in Proc, Begin(p) PROVE TypeOK'
    BY <1>1 DEF Begin
  <1>2. ASSUME NEW p \in Proc, CreateNew(p) PROVE TypeOK'
    BY <1>2 DEF CreateNew
  <1>3. ASSUME NEW p \in Proc, CreateExists(p) PROVE TypeOK'
    BY <1>3 DEF CreateExists
  <1>4. ASSUME NEW p \in Proc, WritePid(p) PROVE TypeOK'
    BY <1>4 DEF WritePid
  <1>5. ASSUME NEW p \in Proc, Stat(p) PROVE TypeOK'
    <2>1. CASE owner = None /\ NotStale(p)
      BY <1>0, <1>5, <2>1 DEF Stat, NotStale
    <2>2. CASE /\ owner # None
             /\ verdict' = [verdict EXCEPT
                     ![p] = [age |-> age, pid |-> None, files |-> {owner}]]
      <3>1. [age |-> age, pid |-> None, files |-> {owner}] \in Verdict
        BY DEF Verdict
      <3> QED
        BY <1>5, <2>2, <3>1 DEF Stat
    <2> QED
      BY <1>5, <2>1, <2>2 DEF Stat
  <1>6. ASSUME NEW p \in Proc, ReadPid(p) PROVE TypeOK'
    <2>1. CASE NotStale(p)
      BY <1>0, <1>6, <2>1 DEF ReadPid, NotStale
    <2>2. CASE verdict' = [verdict EXCEPT
                 ![p] = [age |-> @.age, pid |-> pidIn, files |-> @.files \cup {owner}]]
      <3>0. verdict[p] \in Verdict
        OBVIOUS
      <3>1. [age |-> verdict[p].age, pid |-> pidIn, files |-> verdict[p].files \cup {owner}]
              \in Verdict
        BY <3>0 DEF Verdict
      <3>2. verdict' \in [Proc -> Verdict]
        BY <2>2, <3>1
      <3>3. pc' \in [Proc -> PCs]
        BY <1>6 DEF ReadPid, NotStale
      <3> QED
        BY <1>6, <3>2, <3>3 DEF ReadPid
    <2> QED
      BY <1>6, <2>1, <2>2 DEF ReadPid
  <1>7. ASSUME NEW p \in Proc, Probe(p) PROVE TypeOK'
    BY <1>0, <1>7 DEF Probe, NotStale
  <1>8. ASSUME NEW p \in Proc, Steal(p) PROVE TypeOK'
    BY <1>0, <1>8 DEF Steal, Unlink, Blame
  <1>9. ASSUME NEW p \in Proc, CheckDeadline(p) PROVE TypeOK'
    BY <1>9 DEF CheckDeadline
  <1>10. ASSUME NEW p \in Proc, Drop(p) PROVE TypeOK'
    BY <1>10 DEF Drop, Unlink, Blame
  <1>11. ASSUME NEW p \in Proc, Crash(p) PROVE TypeOK'
    BY <1>0, <1>11 DEF Crash
  <1>12. ASSUME NEW p \in Proc, Recycle(p) PROVE TypeOK'
    BY <1>12 DEF Recycle
  <1>13. ASSUME Tick PROVE TypeOK'
    BY <1>13, AdvanceBounded DEF Tick
  <1>14. CASE UNCHANGED vars
    BY <1>14 DEF vars
  <1> QED
    BY <1>1, <1>2, <1>3, <1>4, <1>5, <1>6, <1>7, <1>8, <1>9, <1>10, <1>11, <1>12,
       <1>13, <1>14 DEF Next, Step

(* TypeOK holds in every reachable state. *)
THEOREM TypeCorrect == Spec => []TypeOK
  BY InitTypeOK, NextTypeOK, PTL DEF Spec

-----------------------------------------------------------------------------
(* HolderOwnsOrRobbed is inductive: only Unlink takes a file away, and it writes *)
(* down whose.                                                                   *)
LEMMA NextHolder == TypeOK /\ HolderOwnsOrRobbed /\ [Next]_vars => HolderOwnsOrRobbed'
  <1> SUFFICES ASSUME TypeOK, HolderOwnsOrRobbed, [Next]_vars
               PROVE  HolderOwnsOrRobbed'
    OBVIOUS
  <1> USE NoneAssumption DEF TypeOK, HolderOwnsOrRobbed, lockVars, histVars
  <1>1. ASSUME NEW p \in Proc, CreateNew(p) PROVE HolderOwnsOrRobbed'
    BY <1>1 DEF CreateNew
  <1>2. ASSUME NEW p \in Proc, WritePid(p) PROVE HolderOwnsOrRobbed'
    BY <1>2 DEF WritePid
  <1>3. ASSUME NEW p \in Proc, NEW files, Unlink(p), Blame(p, files), pc[p] \in PCs,
               Goto(p, "creating") \/ Goto(p, "released")
        PROVE  HolderOwnsOrRobbed'
    BY <1>3 DEF Unlink, Blame
  <1>4. ASSUME NEW p \in Proc,
               Begin(p) \/ CreateExists(p) \/ Stat(p) \/ ReadPid(p) \/ Probe(p)
                 \/ CheckDeadline(p) \/ Crash(p) \/ Recycle(p)
        PROVE  HolderOwnsOrRobbed'
    BY <1>4 DEF Begin, CreateExists, Stat, ReadPid, Probe, CheckDeadline, Crash,
                Recycle, NotStale
  <1>5. CASE Tick \/ UNCHANGED vars
    BY <1>5 DEF Tick, vars
  <1>6. ASSUME NEW p \in Proc, Steal(p) \/ Drop(p) PROVE HolderOwnsOrRobbed'
    BY <1>3, <1>6 DEF Steal, Drop
  <1> QED
    BY <1>1, <1>2, <1>4, <1>5, <1>6 DEF Next, Step

(* Two processes hold the build lock at once only after the file of one of them  *)
(* was removed by another process, whatever the faults and however many builders.*)
THEOREM OneUnrobbedHolderHolds == Spec => []OneUnrobbedHolder
  <1>1. Init => HolderOwnsOrRobbed
    BY DEF Init, HolderOwnsOrRobbed
  <1>2. HolderOwnsOrRobbed => OneUnrobbedHolder
    BY DEF HolderOwnsOrRobbed, OneUnrobbedHolder
  <1> QED
    BY <1>1, <1>2, NextHolder, TypeCorrect, PTL DEF Spec

-----------------------------------------------------------------------------
(* The staleness rules, when builds and pid writes are prompt *)

(* A creator that is spent stays spent, and no file comes back. *)
LEMMA NextSpent == TypeOK /\ SpentCreators /\ [Next]_vars => SpentCreators'
  <1> SUFFICES ASSUME TypeOK, SpentCreators, [Next]_vars PROVE SpentCreators'
    OBVIOUS
  <1> USE NoneAssumption DEF TypeOK, SpentCreators, lockVars, histVars
  <1>1. ASSUME NEW p \in Proc, Begin(p) \/ CreateNew(p) \/ CreateExists(p) \/ WritePid(p)
                 \/ CheckDeadline(p) \/ Recycle(p)
        PROVE  SpentCreators'
    BY <1>1 DEF Begin, CreateNew, CreateExists, WritePid, CheckDeadline, Recycle
  <1>2. ASSUME NEW p \in Proc, pc[p] \in Waiting, NEW label, Goto(p, label),
               owner' \in {owner, None},
               \A q \in Proc : verdict'[q].files \subseteq verdict[q].files \cup {owner}
        PROVE  SpentCreators'
    BY <1>2
  <1>3. ASSUME NEW p \in Proc, verdict' = [verdict EXCEPT ![p] = NoVerdict], NEW q \in Proc
        PROVE  verdict'[q].files \subseteq verdict[q].files \cup {owner}
    BY <1>3 DEF NoVerdict
  <1>4. ASSUME NEW p \in Proc, Stat(p) PROVE SpentCreators'
    <2>1. \A q \in Proc : verdict'[q].files \subseteq verdict[q].files \cup {owner}
      BY <1>3, <1>4 DEF Stat, NotStale
    <2>2. pc[p] \in Waiting /\ owner' \in {owner, None} /\ \E label \in PCs : Goto(p, label)
      BY <1>4 DEF Stat, NotStale
    <2> QED
      BY <1>2, <2>1, <2>2
  <1>5. ASSUME NEW p \in Proc, ReadPid(p) PROVE SpentCreators'
    <2>1. \A q \in Proc : verdict'[q].files \subseteq verdict[q].files \cup {owner}
      BY <1>3, <1>5 DEF ReadPid, NotStale
    <2>2. pc[p] \in Waiting /\ owner' \in {owner, None} /\ \E label \in PCs : Goto(p, label)
      BY <1>5 DEF ReadPid, NotStale
    <2> QED
      BY <1>2, <2>1, <2>2
  <1>6. ASSUME NEW p \in Proc, Probe(p) \/ Steal(p) PROVE SpentCreators'
    <2>1. \A q \in Proc : verdict'[q].files \subseteq verdict[q].files \cup {owner}
      BY <1>3, <1>6 DEF Probe, NotStale, Steal
    <2>2. pc[p] \in Waiting /\ owner' \in {owner, None} /\ \E label \in PCs : Goto(p, label)
      BY <1>6 DEF Probe, NotStale, Steal, Unlink
    <2> QED
      BY <1>2, <2>1, <2>2
  <1>7. ASSUME NEW p \in Proc, Crash(p) PROVE SpentCreators'
    <2>1. \A q \in Proc : verdict'[q].files \subseteq verdict[q].files \cup {owner}
      BY <1>3, <1>7 DEF Crash
    <2> QED
      BY <1>7, <2>1 DEF Crash
  <1>8. ASSUME NEW p \in Proc, Drop(p) PROVE SpentCreators'
    BY <1>8 DEF Drop, Unlink
  <1>9. CASE Tick \/ UNCHANGED vars
    BY <1>9 DEF Tick, vars
  <1> QED
    BY <1>1, <1>4, <1>5, <1>6, <1>7, <1>8, <1>9 DEF Next, Step

(* The file of a live holder stays young: Tick waits for prompt holders. *)
LEMMA NextYoung ==
    ASSUME Prompt, TypeOK, SpentCreators, YoungWhileHeld, [Next]_vars
    PROVE  YoungWhileHeld'
  <1> USE NoneAssumption, TimeAssumption
      DEF TypeOK, YoungWhileHeld, Prompt, lockVars, histVars
  <1>1. ASSUME NEW p \in Proc, CreateNew(p) PROVE YoungWhileHeld'
    BY <1>1 DEF CreateNew
  <1>2. ASSUME NEW p \in Proc, WritePid(p) PROVE YoungWhileHeld'
    BY <1>2 DEF WritePid
  <1>3. ASSUME NEW p \in Proc,
               Begin(p) \/ CreateExists(p) \/ Stat(p) \/ ReadPid(p) \/ Probe(p)
                 \/ CheckDeadline(p) \/ Crash(p) \/ Recycle(p)
        PROVE  YoungWhileHeld'
    BY <1>3 DEF Begin, CreateExists, Stat, ReadPid, Probe, CheckDeadline, Crash,
                Recycle, NotStale
  <1>4. ASSUME NEW p \in Proc, Steal(p) \/ Drop(p) PROVE YoungWhileHeld'
    BY <1>4 DEF Steal, Drop, Unlink
  <1>5. CASE Tick
    BY <1>5 DEF Tick, Advance
  <1>6. CASE UNCHANGED vars
    BY <1>6 DEF vars
  <1> QED
    BY <1>1, <1>2, <1>3, <1>4, <1>5, <1>6 DEF Next, Step

(* A process that has created its file neither creates it again nor comes back *)
(* to write its pid.                                                           *)
LEMMA NoReturn ==
    ASSUME TypeOK, [Next]_vars, NEW v \in Proc,
           pc[v] \in {"writing_pid", "building"} \cup Ended
    PROVE  /\ owner' = v => owner = v
           /\ Holding(v)' => Holding(v)
           /\ pc'[v] = "writing_pid" => pc[v] = "writing_pid"
  <1> USE NoneAssumption DEF TypeOK, lockVars
  <1>1. ASSUME NEW p \in Proc,
               Begin(p) \/ CreateNew(p) \/ CreateExists(p) \/ WritePid(p) \/ CheckDeadline(p)
                 \/ Recycle(p) \/ Crash(p)
        PROVE  /\ owner' = v => owner = v
               /\ Holding(v)' => Holding(v)
               /\ pc'[v] = "writing_pid" => pc[v] = "writing_pid"
    BY <1>1 DEF Begin, CreateNew, CreateExists, WritePid, CheckDeadline, Recycle, Crash
  <1>2. ASSUME NEW p \in Proc, Stat(p) \/ ReadPid(p) \/ Probe(p)
        PROVE  /\ owner' = v => owner = v
               /\ Holding(v)' => Holding(v)
               /\ pc'[v] = "writing_pid" => pc[v] = "writing_pid"
    BY <1>2 DEF Stat, ReadPid, Probe, NotStale
  <1>3. ASSUME NEW p \in Proc, Steal(p) \/ Drop(p)
        PROVE  /\ owner' = v => owner = v
               /\ Holding(v)' => Holding(v)
               /\ pc'[v] = "writing_pid" => pc[v] = "writing_pid"
    BY <1>3 DEF Steal, Drop, Unlink
  <1>4. CASE Tick \/ UNCHANGED vars
    BY <1>4 DEF Tick, vars
  <1> QED
    BY <1>1, <1>2, <1>3, <1>4 DEF Next, Step

(* Steps of other processes, and those that leave no verdict, keep what a verdict *)
(* about one file says of that file.                                              *)
LEMMA NextVerdict ==
    ASSUME Prompt, TypeOK, SpentCreators, YoungWhileHeld,
           Informed, \A p, v \in Proc : VerdictAbout(p, v), [Next]_vars,
           NEW p \in Proc, NEW v \in Proc
    PROVE  VerdictAbout(p, v)'
  <1> USE NoneAssumption DEF TypeOK, VerdictAbout
  <1>1. CASE verdict'[p] = verdict[p] /\ pc'[p] = pc[p]
    <2> SUFFICES ASSUME verdict[p].files = {v} PROVE VerdictAbout(p, v)'
      BY <1>1
    <2>1. pc[v] \in {"writing_pid", "building"} \cup Ended
      BY DEF SpentCreators
    <2>2. VerdictAbout(p, v)
      OBVIOUS
    <2> QED
      BY <1>1, <2>1, <2>2, NoReturn
  <1>2. CASE pc'[p] \notin {"reading", "probing", "removing"}
    BY <1>2
  <1>3. CASE Stat(p)
    <2>1. CASE NotStale(p)
      BY <1>2, <2>1 DEF NotStale
    <2>2. CASE /\ owner # None
               /\ Goto(p, IF age > StaleAge THEN "removing" ELSE "reading")
               /\ verdict' = [verdict EXCEPT
                     ![p] = [age |-> age, pid |-> None, files |-> {owner}]]
      <3>1. verdict'[p].files = {owner} /\ verdict'[p].age = age
        BY <2>2
      <3>2. owner' = owner /\ (v # p => pc'[v] = pc[v]) /\ pc'[p] \notin {"writing_pid", "building"}
        BY <1>3, <2>2 DEF Stat, lockVars
      <3>3. pc'[p] # "probing" /\ (pc'[p] = "removing" => age > StaleAge)
        BY <2>2
      <3> QED
        BY <3>1, <3>2, <3>3, TimeAssumption DEF YoungWhileHeld
    <2> QED
      BY <1>3, <2>1, <2>2 DEF Stat
  <1>4. CASE ReadPid(p)
    <2>1. CASE NotStale(p)
      BY <1>2, <2>1 DEF NotStale
    <2>2. CASE /\ pidIn = None => verdict[p].age > PidWriteGrace
               /\ Goto(p, IF pidIn = None THEN "removing" ELSE "probing")
               /\ verdict' = [verdict EXCEPT
                     ![p] = [age |-> @.age, pid |-> pidIn, files |-> @.files \cup {owner}]]
      <3>1. verdict'[p].files = verdict[p].files \cup {owner} /\ verdict'[p].pid = pidIn
        BY <2>2
      <3>2. owner' = owner /\ (v # p => pc'[v] = pc[v]) /\ pc'[p] \notin {"writing_pid", "building"}
        BY <1>4, <2>2 DEF ReadPid, lockVars
      <3>3. pc'[p] # "reading" /\ (pc'[p] = "probing" => pidIn # None)
              /\ (pc'[p] = "removing" => pidIn = None /\ verdict[p].age > PidWriteGrace)
        BY <2>2
      <3> SUFFICES ASSUME verdict[p].files \cup {owner} = {v} PROVE VerdictAbout(p, v)'
        BY <3>1
      <3>4. owner = v
        OBVIOUS
      <3>5. verdict[p].files = {v} \/ verdict[p].files = {}
        OBVIOUS
      <3>6. CASE pc'[p] = "probing"
        BY <3>1, <3>3, <3>4, <3>6
      <3>7. CASE pc'[p] = "removing"
        <4>1. pc[p] = "reading" /\ pidIn = None /\ verdict[p].age > PidWriteGrace
          BY <1>4, <3>3, <3>7 DEF ReadPid
        <4>2. verdict[p].files = {v} => pc[v] # "writing_pid"
          <5>1. verdict[p] \in Verdict
            OBVIOUS
          <5>2. verdict[p].age \in Nat
            BY <5>1, TimeAssumption DEF Verdict
          <5> QED
            BY <3>4, <4>1, <5>2, TimeAssumption
        <4>3. pc[v] # "building"
          BY <3>4, <4>1 DEF YoungWhileHeld
        <4>4. verdict[p].files # {}
          BY <4>1 DEF Informed
        <4> QED
          BY <3>2, <3>4, <3>5, <3>7, <4>2, <4>3, <4>4
      <3> QED
        BY <3>3, <3>6, <3>7, <1>2
    <2> QED
      BY <1>4, <2>1, <2>2 DEF ReadPid
  <1>5. CASE Probe(p)
    <2>1. CASE pc'[p] = "removing" /\ verdict[p].files = {v}
      <3>1. verdict[p].pid = v /\ ~Running(verdict[p].pid)
        BY <1>5, <2>1 DEF Probe, Prompt, NotStale
      <3>2. ~Holding(v)'
        BY <1>5, <3>1 DEF Probe, Running, NotStale
      <3> QED
        BY <2>1, <3>2
    <2>2. CASE verdict[p].files # {v}
      BY <1>5, <1>2, <2>2 DEF Probe, NotStale
    <2> QED
      BY <1>5, <1>2, <2>1, <2>2 DEF Probe, NotStale
  <1>6. ASSUME NEW q \in Proc,
               Begin(q) \/ CreateNew(q) \/ CreateExists(q) \/ WritePid(q) \/ Steal(q)
                 \/ CheckDeadline(q) \/ Drop(q) \/ Crash(q)
        PROVE  VerdictAbout(p, v)'
    <2>1. CASE q = p
      <3>1. pc'[p] \notin {"reading", "probing", "removing"}
        BY <1>6, <2>1 DEF Begin, CreateNew, CreateExists, WritePid, Steal, CheckDeadline,
                          Drop, Crash
      <3> QED
        BY <1>2, <3>1
    <2>2. CASE q # p
      <3>1. verdict'[p] = verdict[p] /\ pc'[p] = pc[p]
        BY <1>6, <2>2 DEF Begin, CreateNew, CreateExists, WritePid, Steal, CheckDeadline,
                          Drop, Crash
      <3> QED
        BY <1>1, <3>1
    <2> QED
      BY <2>1, <2>2
  <1>7. ASSUME NEW q \in Proc, q # p, Stat(q) \/ ReadPid(q) \/ Probe(q)
        PROVE  VerdictAbout(p, v)'
    <2>1. verdict'[p] = verdict[p] /\ pc'[p] = pc[p]
      BY <1>7 DEF Stat, ReadPid, Probe, NotStale
    <2> QED
      BY <1>1, <2>1
  <1>8. CASE Tick \/ (\E q \in Proc : Recycle(q)) \/ UNCHANGED vars
    <2>1. verdict' = verdict /\ pc' = pc
      BY <1>8 DEF Tick, Recycle, vars
    <2> QED
      BY <1>1, <2>1
  <1> QED
    BY <1>3, <1>4, <1>5, <1>6, <1>7, <1>8 DEF Next, Step

(* Whoever goes on to read the pid keeps the file that stat saw. *)
LEMMA NextInformed == TypeOK /\ Informed /\ [Next]_vars => Informed'
  <1> SUFFICES ASSUME TypeOK, Informed, [Next]_vars PROVE Informed'
    OBVIOUS
  <1> USE DEF TypeOK, Informed
  <1>1. ASSUME NEW p \in Proc,
               Begin(p) \/ CreateNew(p) \/ CreateExists(p) \/ WritePid(p) \/ Steal(p)
                 \/ CheckDeadline(p) \/ Drop(p) \/ Crash(p) \/ Recycle(p)
        PROVE  Informed'
    BY <1>1 DEF Begin, CreateNew, CreateExists, WritePid, Steal, CheckDeadline, Drop,
                Crash, Recycle
  <1>2. ASSUME NEW p \in Proc, Stat(p) PROVE Informed'
    BY <1>2 DEF Stat, NotStale
  <1>3. ASSUME NEW p \in Proc, ReadPid(p) \/ Probe(p) PROVE Informed'
    BY <1>3 DEF ReadPid, Probe, NotStale
  <1>4. CASE Tick \/ UNCHANGED vars
    BY <1>4 DEF Tick, vars
  <1> QED
    BY <1>1, <1>2, <1>3, <1>4 DEF Next, Step

(* Only Steal condemns, and only with a verdict about the file it removes. *)
LEMMA NextSound ==
    ASSUME TypeOK, \A p, v \in Proc : VerdictAbout(p, v), VerdictsAreSound, [Next]_vars
    PROVE  VerdictsAreSound'
  <1> USE DEF TypeOK, VerdictsAreSound, histVars
  <1>1. ASSUME NEW p \in Proc, Steal(p) PROVE VerdictsAreSound'
    BY <1>1 DEF Steal, Blame, VerdictAbout
  <1>2. ASSUME NEW p \in Proc, Drop(p) PROVE VerdictsAreSound'
    BY <1>2 DEF Drop, Blame
  <1>3. ASSUME NEW p \in Proc,
               Begin(p) \/ CreateNew(p) \/ CreateExists(p) \/ WritePid(p) \/ Stat(p)
                 \/ ReadPid(p) \/ Probe(p) \/ CheckDeadline(p) \/ Crash(p) \/ Recycle(p)
        PROVE  VerdictsAreSound'
    BY <1>3 DEF Begin, CreateNew, CreateExists, WritePid, Stat, ReadPid, Probe,
                CheckDeadline, Crash, Recycle
  <1>4. CASE Tick \/ UNCHANGED vars
    BY <1>4 DEF Tick, vars
  <1> QED
    BY <1>1, <1>2, <1>3, <1>4 DEF Next, Step

LEMMA InitPrompt == Init => PromptInv
  BY TimeAssumption, NoneAssumption
     DEF Init, PromptInv, SpentCreators, YoungWhileHeld, Informed, VerdictAbout,
         VerdictsAreSound, NoVerdict

LEMMA NextPrompt == Prompt /\ TypeOK /\ PromptInv /\ [Next]_vars => PromptInv'
  BY NextSpent, NextYoung, NextVerdict, NextInformed, NextSound DEF PromptInv

(* Without a slow build, a slow or failing pid write, or an unreachable holder,  *)
(* no verdict about a lock file ever condemns its live holder, for any number of *)
(* processes, with crashes and recycled pids.                                    *)
THEOREM VerdictsAreSoundHolds == Prompt => (Spec => []VerdictsAreSound)
  <1> SUFFICES ASSUME Prompt PROVE Spec => []VerdictsAreSound
    OBVIOUS
  <1>1. PromptInv => VerdictsAreSound
    BY DEF PromptInv
  <1> QED
    BY InitPrompt, NextPrompt, <1>1, TypeCorrect, PTL DEF Spec
=============================================================================
