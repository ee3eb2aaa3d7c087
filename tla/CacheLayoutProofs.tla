-------------------------- MODULE CacheLayoutProofs --------------------------
(***************************************************************************)
(* What holds of ensure_layout and migrate_root for any number of          *)
(* processes, entries and files, wherever processes die or fail.           *)
(***************************************************************************)
EXTENDS CacheLayout, TLAPS

Label == {"idle", "create", "wait", "unlink", "again", "pid", "kill", "migrate", "replace",
          "move", "drop", "release", "on", "copy"}
CallerState == [pc : Label, waited : 0 .. Patience, todo : SUBSET Entry,
                e : Entry \cup {Nothing}]
FaultState == [deaths : Nat, errors : Nat, skipped : SUBSET Entry, torn : SUBSET Entry]

(* A caller has listed the root; it is at one of the entries it listed. *)
AtEntry(c) == caller[c].pc \in {"replace", "move", "drop"}
Migrating(c) == AtEntry(c) \/ On(c, "migrate")

(* The state is well formed, the callers' locals included. *)
LayoutShape ==
    /\ LTypeOK
    /\ caller \in [Caller -> CallerState] /\ faults \in FaultState
    /\ \A c \in Caller : AtEntry(c) => caller[c].e \in Entry

(* Whoever migrates has killed the old daemon before it listed the root: what it *)
(* has not come to yet, and what it failed at, is all there can be.              *)
DaemonIsKilled == daemon => ~marker /\ \A c \in Caller : ~Migrating(c)
NoneForgotten ==
    \A c \in Caller, e \in Entry :
        Migrating(c) /\ legacy[e] > 0 =>
            \/ e \in caller[c].todo \/ (AtEntry(c) /\ caller[c].e = e)
            \/ e \in faults.skipped

(* The inductive invariant of MarkedIsTried. *)
MigrateInv ==
    /\ LayoutShape
    /\ DaemonIsKilled
    /\ NoneForgotten
    /\ MarkedIsTried

-----------------------------------------------------------------------------
LEMMA InitMigrateInv == LInit => MigrateInv
  <1> SUFFICES ASSUME LInit PROVE MigrateInv
    OBVIOUS
  <1>1. legacy \in [Entry -> 0 .. MaxVersion] /\ new \in [Entry -> 0 .. MaxVersion]
    BY LayoutAssumption DEF LInit
  <1>2. newest \in [Entry -> 0 .. MaxVersion]
    BY <1>1 DEF LInit
  <1>3. caller \in [Caller -> CallerState] /\ \A c \in Caller : caller[c] = Quiet
    BY LayoutAssumption DEF LInit, Quiet, CallerState, Label
  <1>4. LTypeOK
    BY <1>1, <1>2, <1>3 DEF LInit, LTypeOK, Free, CallerState
  <1>5. faults \in FaultState
    BY DEF LInit, FaultState
  <1> QED
    BY <1>3, <1>4, <1>5 DEF LInit, Quiet, MigrateInv, LayoutShape, DaemonIsKilled, NoneForgotten,
       MarkedIsTried, AtEntry, Migrating, On

-----------------------------------------------------------------------------
(* The ways a step changes a caller: it goes on with its locals, goes on to its *)
(* command, or ends.                                                            *)
LEMMA SetsCaller ==
    ASSUME caller \in [Caller -> CallerState], NEW c \in Caller, NEW r \in CallerState,
           caller' = [caller EXCEPT ![c] = r]
    PROVE  /\ caller' \in [Caller -> CallerState]
           /\ caller'[c] = r /\ \A d \in Caller \ {c} : caller'[d] = caller[d]
  OBVIOUS

LEMMA Turns ==
    ASSUME caller \in [Caller -> CallerState], NEW c \in Caller, NEW label \in Label,
           Turn(c, label)
    PROVE  /\ caller' \in [Caller -> CallerState]
           /\ caller'[c] = [caller[c] EXCEPT !.pc = label]
           /\ \A d \in Caller \ {c} : caller'[d] = caller[d]
  <1>1. [caller[c] EXCEPT !.pc = label] \in CallerState
    BY DEF CallerState
  <1>2. caller' = [caller EXCEPT ![c] = [caller[c] EXCEPT !.pc = label]]
    BY DEF Turn
  <1> QED
    BY <1>1, <1>2, SetsCaller

LEMMA Returns ==
    ASSUME caller \in [Caller -> CallerState], NEW c \in Caller, Return(c)
    PROVE  /\ caller' \in [Caller -> CallerState]
           /\ caller'[c] = Quiet
           /\ \A d \in Caller \ {c} : caller'[d] = caller[d]
  <1>1. Quiet \in CallerState
    BY LayoutAssumption DEF CallerState, Quiet, Label
  <1> QED
    BY <1>1, SetsCaller DEF Return

LEMMA GoesOn ==
    ASSUME caller \in [Caller -> CallerState], NEW c \in Caller, GoOn(c)
    PROVE  /\ caller' \in [Caller -> CallerState]
           /\ caller'[c].pc = "on"
           /\ \A d \in Caller \ {c} : caller'[d] = caller[d]
  <1> DEFINE r == [Quiet EXCEPT !.pc = "on"]
  <1>1. r \in CallerState /\ r.pc = "on"
    BY LayoutAssumption DEF CallerState, Quiet, Label
  <1>2. caller' = [caller EXCEPT ![c] = r]
    BY DEF GoOn
  <1> HIDE DEF r
  <1> QED
    BY <1>1, <1>2, SetsCaller

Others(c) == \A d \in Caller \ {c} : caller'[d] = caller[d]
Locks == [by : Caller \cup {Nothing, "dead"}, pid : BOOLEAN]
Versions == [Entry -> 0 .. MaxVersion]

(* What is recorded of the entries that failed only grows. *)
Grows ==
    /\ faults' \in FaultState
    /\ faults.skipped \subseteq faults'.skipped /\ faults.torn \subseteq faults'.torn

LEMMA FaultGrows ==
    ASSUME faults \in FaultState, NEW skips \in SUBSET Entry, NEW tears \in SUBSET Entry,
           Fault(skips, tears)
    PROVE  Grows /\ faults'.skipped = faults.skipped \cup skips
  <1>1. faults' = [deaths |-> faults.deaths, errors |-> faults.errors + 1,
                   skipped |-> faults.skipped \cup skips, torn |-> faults.torn \cup tears]
    BY DEF Fault, FaultState
  <1>2. /\ faults.deaths \in Nat /\ faults.errors \in Nat
        /\ faults.skipped \in SUBSET Entry /\ faults.torn \in SUBSET Entry
    BY DEF FaultState
  <1> QED
    BY <1>1, <1>2 DEF FaultState, Grows

LEMMA DeathGrows ==
    ASSUME LayoutShape, NEW c \in Caller, Die(c)
    PROVE  Grows /\ faults'.skipped = faults.skipped
  <1>1. faults \in FaultState /\ (caller[c].pc \in {"replace", "drop"} => caller[c].e \in Entry)
    BY DEF LayoutShape, AtEntry
  <1>2. PICK part \in SUBSET Entry :
           faults' = [faults EXCEPT !.deaths = @ + 1, !.torn = @ \cup part]
    BY <1>1 DEF Die, Half
  <1>3. faults' = [deaths |-> faults.deaths + 1, errors |-> faults.errors,
                   skipped |-> faults.skipped, torn |-> faults.torn \cup part]
    BY <1>1, <1>2 DEF FaultState
  <1>4. /\ faults.deaths \in Nat /\ faults.errors \in Nat
        /\ faults.skipped \in SUBSET Entry /\ faults.torn \in SUBSET Entry
    BY <1>1 DEF FaultState
  <1> QED
    BY <1>2, <1>3, <1>4 DEF FaultState, Grows

(* A caller that does not migrate, or no longer does, disturbs nothing: not even when *)
(* it writes an entry where the new version has them.                                 *)
LEMMA BystanderKeepsMigrateInv ==
    ASSUME MigrateInv, NEW c \in Caller, caller' \in [Caller -> CallerState],
           caller'[c].pc \notin {"migrate", "replace", "move", "drop"}, Others(c), Grows,
           lock' \in Locks, new' \in Versions, newest' \in Versions,
           UNCHANGED <<marker, legacy, daemon, alone>>
    PROVE  MigrateInv'
  <1>1. \A d \in Caller : caller'[d] = caller[d] \/ caller'[d].pc \notin {"migrate", "replace", "move", "drop"}
    BY DEF Others
  <1>2. LayoutShape'
    <2>1. LTypeOK'
      BY DEF MigrateInv, LayoutShape, LTypeOK, Locks, CallerState, Versions
    <2> QED
      BY <1>1, <2>1 DEF MigrateInv, LayoutShape, AtEntry, Grows
  <1>3. DaemonIsKilled' /\ NoneForgotten' /\ MarkedIsTried'
    BY <1>1 DEF MigrateInv, DaemonIsKilled, NoneForgotten, MarkedIsTried,
       Migrating, AtEntry, On, Grows
  <1> QED
    BY <1>2, <1>3 DEF MigrateInv

(* The steps around the lock, what ends a call, and the command after it. *)
LEMMA LockMigrateInv ==
    ASSUME MigrateInv, NEW c \in Caller,
           \/ Enter(c) \/ CreateLock(c) \/ Wait(c) \/ RemoveLock(c) \/ CreateAgain(c)
           \/ RecordPid(c) \/ Release(c) \/ MigrationFails(c) \/ Command(c) \/ Die(c)
    PROVE  MigrateInv'
  <1> DEFINE Resting == Label \ {"migrate", "replace", "move", "drop"}
             Same == /\ UNCHANGED <<marker, legacy, daemon, alone>> /\ Grows
                     /\ lock' \in Locks /\ new' \in Versions /\ newest' \in Versions
  <1>0. /\ caller \in [Caller -> CallerState] /\ lock \in Locks /\ faults \in FaultState
        /\ new \in Versions /\ newest \in Versions
    BY DEF MigrateInv, LayoutShape, LTypeOK, Locks, Versions
  <1>a. UNCHANGED faults => Grows
    BY <1>0 DEF Grows
  <1>1. ASSUME NEW label \in Resting, Turn(c, label), Same PROVE MigrateInv'
    <2>1. /\ caller' \in [Caller -> CallerState] /\ Others(c)
          /\ caller'[c] = [caller[c] EXCEPT !.pc = label]
      BY <1>0, <1>1, Turns DEF Others
    <2>2. caller'[c].pc = label
      BY <1>0, <2>1 DEF CallerState
    <2> QED
      BY <1>1, <2>1, <2>2, BystanderKeepsMigrateInv
  <1>2. ASSUME Return(c) \/ GoOn(c), Same PROVE MigrateInv'
    <2>1. caller' \in [Caller -> CallerState] /\ Others(c) /\ caller'[c].pc \in {"idle", "on"}
      BY <1>0, <1>2, Returns, GoesOn DEF Others, Quiet
    <2> QED
      BY <1>2, <2>1, BystanderKeepsMigrateInv
  <1>3. [by |-> c, pid |-> FALSE] \in Locks /\ Free \in Locks
    BY DEF Locks, Free
  <1>4. CASE Enter(c)
    BY <1>0, <1>a, <1>1, <1>2, <1>4 DEF Enter, layout, Label
  <1>5. CASE CreateLock(c)
    BY <1>0, <1>a, <1>1, <1>3, <1>5 DEF CreateLock, MakeLock, Label
  <1>6. CASE Wait(c)
    <2>1. /\ On(c, "wait") /\ UNCHANGED <<layout, alone, faults>>
          /\ \/ GoOn(c) \/ Turn(c, "unlink")
             \/ /\ caller[c].waited # Patience
                /\ caller' = [caller EXCEPT ![c].waited = @ + 1]
      BY <1>6 DEF Wait
    <2>2. CASE caller[c].waited # Patience /\ caller' = [caller EXCEPT ![c].waited = @ + 1]
      <3> DEFINE r == [caller[c] EXCEPT !.waited = @ + 1]
      <3>1. r \in CallerState /\ r.pc = "wait"
        BY <1>0, <2>1, <2>2, LayoutAssumption DEF CallerState, On
      <3>2. caller' = [caller EXCEPT ![c] = r]
        BY <2>2
      <3> HIDE DEF r
      <3>3. caller' \in [Caller -> CallerState] /\ caller'[c] = r /\ Others(c)
        BY <1>0, <3>1, <3>2, SetsCaller DEF Others
      <3> QED
        BY <1>0, <1>a, <2>1, <3>1, <3>3, BystanderKeepsMigrateInv DEF layout
    <2> QED
      BY <1>0, <1>a, <1>1, <1>2, <2>1, <2>2 DEF layout, Label
  <1>7. CASE RemoveLock(c)
    BY <1>0, <1>a, <1>1, <1>3, <1>7 DEF RemoveLock, Label
  <1>8. CASE CreateAgain(c)
    BY <1>0, <1>a, <1>1, <1>2, <1>3, <1>8 DEF CreateAgain, MakeLock, Label
  <1>9. CASE RecordPid(c)
    <2>1. [lock EXCEPT !.pid = TRUE] \in Locks
      BY <1>0 DEF Locks
    <2> QED
      BY <1>0, <1>a, <1>1, <1>9, <2>1 DEF RecordPid, Label
  <1>10. CASE Release(c)
    BY <1>0, <1>a, <1>2, <1>3, <1>10 DEF Release
  <1>11. CASE MigrationFails(c)
    <2>1. Grows
      BY <1>0, <1>11, FaultGrows DEF MigrationFails
    <2> QED
      BY <1>0, <1>1, <1>2, <1>11, <2>1 DEF MigrationFails, layout, Label
  <1>12. CASE Command(c)
    <2>1. new' \in Versions /\ newest' \in Versions
      <3>1. CASE UNCHANGED <<newest, new>>
        BY <1>0, <3>1
      <3>2. ASSUME NEW e \in Entry, newest[e] < MaxVersion,
                   newest' = [newest EXCEPT ![e] = @ + 1], new' = [new EXCEPT ![e] = newest[e] + 1]
            PROVE  new' \in Versions /\ newest' \in Versions
        <4>1. newest[e] + 1 \in 0 .. MaxVersion
          BY <1>0, <3>2, LayoutAssumption DEF Versions
        <4> QED
          BY <1>0, <3>2, <4>1 DEF Versions
      <3> QED
        BY <1>12, <3>1, <3>2 DEF Command
    <2> QED
      BY <1>0, <1>a, <1>2, <1>12, <2>1 DEF Command
  <1>13. CASE Die(c)
    <2>1. [lock EXCEPT !.by = "dead"] \in Locks
      BY <1>0 DEF Locks
    <2>2. Grows
      BY <1>0, <1>13, DeathGrows DEF MigrateInv, LayoutShape
    <2> QED
      BY <1>0, <1>2, <1>13, <2>1, <2>2 DEF Die
  <1> QED
    BY <1>4, <1>5, <1>6, <1>7, <1>8, <1>9, <1>10, <1>11, <1>12, <1>13

(* migrate_root leaves the layout alone. *)
LEMMA RootMigrateInv ==
    ASSUME MigrateInv, NEW c \in Caller, MigrateRoot(c) \/ CopyFile(c) \/ RemoveLocal(c)
    PROVE  MigrateInv'
  <1>0. /\ caller \in [Caller -> CallerState] /\ lock \in Locks /\ faults \in FaultState
        /\ new \in Versions /\ newest \in Versions
    BY DEF MigrateInv, LayoutShape, LTypeOK, Locks, Versions
  <1>1. UNCHANGED <<layout, faults, alone>>
    BY DEF MigrateRoot, CopyFile, RemoveLocal
  <1>a. Grows
    BY <1>0, <1>1 DEF Grows
  <1>2. UNCHANGED caller \/ Turn(c, "copy") \/ Return(c)
    BY DEF MigrateRoot, CopyFile, RemoveLocal
  <1>3. CASE UNCHANGED caller
    BY <1>1, <1>3 DEF layout, MigrateInv, LayoutShape, LTypeOK, DaemonIsKilled, NoneForgotten,
       MarkedIsTried, Migrating, AtEntry, On
  <1>4. CASE Turn(c, "copy")
    <2>1. /\ caller' \in [Caller -> CallerState] /\ Others(c)
          /\ caller'[c] = [caller[c] EXCEPT !.pc = "copy"]
      BY <1>0, <1>4, Turns DEF Others, Label
    <2>2. caller'[c].pc = "copy"
      BY <1>0, <2>1 DEF CallerState
    <2> QED
      BY <1>0, <1>1, <1>a, <2>1, <2>2, BystanderKeepsMigrateInv DEF layout
  <1>5. CASE Return(c)
    <2>1. caller' \in [Caller -> CallerState] /\ Others(c) /\ caller'[c] = Quiet
      BY <1>0, <1>5, Returns DEF Others
    <2> QED
      BY <1>0, <1>1, <1>a, <2>1, BystanderKeepsMigrateInv DEF layout, Quiet
  <1> QED
    BY <1>2, <1>3, <1>4, <1>5

(* Listing the root: the old daemon is gone, nothing is added to the list's back. *)
LEMMA ListMigrateInv ==
    ASSUME MigrateInv, NEW c \in Caller, KillAndList(c)
    PROVE  MigrateInv'
  <1> DEFINE r == [caller[c] EXCEPT !.pc = "migrate", !.todo = {e \in Entry : legacy[e] > 0}]
  <1>0. caller \in [Caller -> CallerState] /\ lock \in Locks
    BY DEF MigrateInv, LayoutShape, LTypeOK, Locks
  <1>1. caller' = [caller EXCEPT ![c] = r]
    BY DEF KillAndList
  <1>2. r \in CallerState /\ r.pc = "migrate" /\ r.todo = {e \in Entry : legacy[e] > 0}
    BY <1>0 DEF CallerState, Label
  <1> HIDE DEF r
  <1>3. caller' \in [Caller -> CallerState] /\ caller'[c] = r /\ Others(c)
    BY <1>0, <1>1, <1>2, SetsCaller DEF Others
  <1>4. daemon' = FALSE /\ UNCHANGED <<marker, lock, legacy, new, newest, faults, alone>>
    BY DEF KillAndList
  <1>5. LayoutShape'
    <2>1. LTypeOK'
      BY <1>3, <1>4 DEF MigrateInv, LayoutShape, LTypeOK, CallerState
    <2> QED
      BY <1>2, <1>3, <1>4, <2>1 DEF MigrateInv, LayoutShape, AtEntry, Others
  <1>6. NoneForgotten'
    BY <1>2, <1>3, <1>4 DEF MigrateInv, NoneForgotten, Migrating, AtEntry, On, Others
  <1> QED
    BY <1>4, <1>5, <1>6 DEF MigrateInv, DaemonIsKilled, MarkedIsTried

(* Looking at an entry: it stays the one that is looked at. *)
LEMMA LookSets ==
    ASSUME LayoutShape, NEW c \in Caller, Look(c)
    PROVE  \E e \in Entry : \E label \in {"move", "replace", "drop"} :
              /\ e \in caller[c].todo
              /\ caller' = [caller EXCEPT ![c].todo = @ \ {e}, ![c].e = e, ![c].pc = label]
              /\ label # "move" => label \in Ways(e)
  <1>1. PICK e \in caller[c].todo : \E way \in Ways(e) :
           caller' = [caller EXCEPT ![c].todo = @ \ {e}, ![c].e = e,
                        ![c].pc = IF new[e] = 0 THEN "move" ELSE way]
    BY DEF Look
  <1>2. PICK way \in Ways(e) :
           caller' = [caller EXCEPT ![c].todo = @ \ {e}, ![c].e = e,
                        ![c].pc = IF new[e] = 0 THEN "move" ELSE way]
    BY <1>1
  <1>3. e \in Entry /\ way \in {"replace", "drop"}
    BY DEF LayoutShape, CallerState, Ways
  <1>4. CASE new[e] = 0
    BY <1>2, <1>3, <1>4
  <1>5. CASE new[e] # 0
    BY <1>2, <1>3, <1>5
  <1> QED
    BY <1>4, <1>5

LEMMA LookMigrateInv ==
    ASSUME MigrateInv, NEW c \in Caller, Look(c)
    PROVE  MigrateInv'
  <1>0. caller \in [Caller -> CallerState] /\ lock \in Locks /\ LayoutShape
    BY DEF MigrateInv, LayoutShape, LTypeOK, Locks
  <1>1. PICK e \in Entry : \E label \in {"move", "replace", "drop"} :
              /\ e \in caller[c].todo
              /\ caller' = [caller EXCEPT ![c].todo = @ \ {e}, ![c].e = e, ![c].pc = label]
              /\ label # "move" => label \in Ways(e)
    BY <1>0, LookSets
  <1>3. PICK label \in {"move", "replace", "drop"} :
              caller' = [caller EXCEPT ![c].todo = @ \ {e}, ![c].e = e, ![c].pc = label]
    BY <1>1
  <1> DEFINE r == [caller[c] EXCEPT !.todo = @ \ {e}, !.e = e, !.pc = label]
  <1>2. caller' = [caller EXCEPT ![c] = r]
    BY <1>3
  <1>5. r \in CallerState /\ r.pc = label /\ r.e = e /\ r.todo = caller[c].todo \ {e}
    BY <1>0, <1>3 DEF CallerState, Label
  <1> HIDE DEF r
  <1>6. caller' \in [Caller -> CallerState] /\ caller'[c] = r /\ Others(c)
    BY <1>0, <1>2, <1>5, SetsCaller DEF Others
  <1>7. On(c, "migrate") /\ UNCHANGED <<layout, faults, alone>>
    BY DEF Look
  <1>8. LayoutShape'
    <2>1. LTypeOK'
      BY <1>6, <1>7 DEF MigrateInv, LayoutShape, LTypeOK, CallerState, layout
    <2> QED
      BY <1>5, <1>6, <1>7, <2>1 DEF MigrateInv, LayoutShape, AtEntry, Others
  <1>9. DaemonIsKilled'
    BY <1>6, <1>7 DEF MigrateInv, DaemonIsKilled, Migrating, AtEntry, On, Others, layout
  <1>10. NoneForgotten'
    BY <1>3, <1>5, <1>6, <1>7 DEF MigrateInv, NoneForgotten, Migrating, AtEntry, On, Others, layout
  <1> QED
    BY <1>7, <1>8, <1>9, <1>10 DEF MigrateInv, MarkedIsTried, layout

(* What a step at an entry does: it may empty the place of that entry at the root, or *)
(* fail to; then the caller is at its next step.                                      *)
LEMMA EntryMigrateInv ==
    ASSUME MigrateInv, NEW c \in Caller, AtEntry(c), NEW label \in {"migrate", "move"},
           Turn(c, label), UNCHANGED <<marker, lock, newest, daemon, alone>>, Grows,
           legacy' \in Versions, new' \in Versions,
           \A e \in Entry : legacy'[e] \in {0, legacy[e]},
           label = "migrate" => legacy'[caller[c].e] = 0 \/ caller[c].e \in faults'.skipped
    PROVE  MigrateInv'
  <1>0. caller \in [Caller -> CallerState] /\ caller[c].e \in Entry
    BY DEF MigrateInv, LayoutShape
  <1>1. /\ caller' \in [Caller -> CallerState] /\ Others(c)
        /\ caller'[c] = [caller[c] EXCEPT !.pc = label]
    BY <1>0, Turns DEF Others, Label
  <1>2. caller'[c].pc = label /\ caller'[c].e = caller[c].e /\ caller'[c].todo = caller[c].todo
    BY <1>0, <1>1 DEF CallerState
  <1>3. legacy \in Versions
    BY DEF MigrateInv, LayoutShape, LTypeOK, Versions
  <1>4. LayoutShape'
    <2>1. LTypeOK'
      BY <1>1 DEF MigrateInv, LayoutShape, LTypeOK, CallerState, Versions
    <2> QED
      BY <1>0, <1>1, <1>2, <2>1 DEF MigrateInv, LayoutShape, AtEntry, Others, Grows
  <1>5. DaemonIsKilled'
    BY <1>1, <1>2 DEF MigrateInv, DaemonIsKilled, Migrating, AtEntry, On, Others
  <1>6. NoneForgotten'
    <2> SUFFICES ASSUME NEW d \in Caller, NEW e \in Entry, Migrating(d)', legacy'[e] > 0,
                        e \notin faults'.skipped
                 PROVE  (e \in caller[d].todo \/ (AtEntry(d) /\ caller[d].e = e))'
      BY DEF NoneForgotten
    <2>1. legacy[e] > 0 /\ e \notin faults.skipped
      BY <1>3, LayoutAssumption DEF Versions, Grows
    <2>2. CASE d = c
      <3>1. e \in caller[c].todo \/ caller[c].e = e
        BY <2>1 DEF MigrateInv, NoneForgotten, Migrating
      <3> QED
        BY <1>2, <2>2, <3>1 DEF AtEntry
    <2>3. CASE d # c
      BY <1>1, <2>1, <2>3 DEF MigrateInv, NoneForgotten, Migrating, AtEntry, On, Others
    <2> QED
      BY <2>2, <2>3
  <1>8. MarkedIsTried'
    BY <1>3 DEF MigrateInv, MarkedIsTried, Grows
  <1> QED
    BY <1>4, <1>5, <1>6, <1>8 DEF MigrateInv

LEMMA MigrationMigrateInv ==
    ASSUME MigrateInv, NEW c \in Caller, RemoveNew(c) \/ MoveEntry(c) \/ DropLegacy(c)
    PROVE  MigrateInv'
  <1> DEFINE e == caller[c].e
  <1>1. AtEntry(c) /\ UNCHANGED <<marker, lock, newest, daemon, alone>>
    BY DEF RemoveNew, MoveEntry, DropLegacy, On, AtEntry
  <1>2. /\ legacy \in Versions /\ new \in Versions /\ faults \in FaultState
        /\ e \in Entry /\ 0 \in 0 .. MaxVersion
    BY <1>1, LayoutAssumption DEF MigrateInv, LayoutShape, LTypeOK, Versions
  <1>3. CASE RemoveNew(c)
    <2>1. /\ Turn(c, "move") /\ UNCHANGED legacy
          /\ \/ new' = [new EXCEPT ![e] = 0] /\ UNCHANGED faults
             \/ UNCHANGED new /\ \E part \in Half(e) : Fault({}, part)
      BY <1>3 DEF RemoveNew
    <2> HIDE DEF e
    <2>2. Grows
      BY <1>2, <2>1, FaultGrows DEF Half, Grows
    <2>3. new' \in Versions
      BY <1>2, <2>1 DEF Versions
    <2> QED
      BY <1>1, <1>2, <2>1, <2>2, <2>3, EntryMigrateInv DEF e
  <1>4. CASE MoveEntry(c)
    <2>1. Turn(c, "migrate")
      BY <1>4 DEF MoveEntry
    <2>2. \/ /\ new' = [new EXCEPT ![e] = legacy[e]] /\ legacy' = [legacy EXCEPT ![e] = 0]
             /\ UNCHANGED faults
          \/ legacy[e] = 0 /\ UNCHANGED <<new, legacy, faults>>
          \/ faults' = [faults EXCEPT !.skipped = @ \cup {e}] /\ UNCHANGED <<new, legacy>>
          \/ Fault({e}, {}) /\ UNCHANGED <<new, legacy>>
      BY <1>4 DEF MoveEntry
    <2> HIDE DEF e
    <2>3. Grows /\ (legacy'[e] = 0 \/ e \in faults'.skipped)
      <3>1. CASE faults' = [faults EXCEPT !.skipped = @ \cup {e}]
        BY <1>2, <3>1 DEF Grows, FaultState
      <3>2. CASE Fault({e}, {})
        BY <1>2, <3>2, FaultGrows
      <3>3. CASE UNCHANGED faults /\ legacy'[e] = 0
        BY <1>2, <3>3 DEF Grows
      <3> QED
        BY <1>2, <2>2, <3>1, <3>2, <3>3 DEF Versions
    <2>4. legacy' \in Versions /\ new' \in Versions /\ \A o \in Entry : legacy'[o] \in {0, legacy[o]}
      BY <1>2, <2>2 DEF Versions
    <2> QED
      BY <1>1, <2>1, <2>3, <2>4, EntryMigrateInv DEF e
  <1>5. CASE DropLegacy(c)
    <2>1. /\ Turn(c, "migrate") /\ UNCHANGED new
          /\ \/ legacy' = [legacy EXCEPT ![e] = 0] /\ UNCHANGED faults
             \/ UNCHANGED legacy /\ \E part \in Half(e) : Fault({e}, part)
      BY <1>5 DEF DropLegacy
    <2> HIDE DEF e
    <2>2. Grows /\ (legacy'[e] = 0 \/ e \in faults'.skipped)
      <3>1. ASSUME NEW part \in Half(e), Fault({e}, part) PROVE Grows /\ e \in faults'.skipped
        BY <1>2, <3>1, FaultGrows DEF Half
      <3>2. CASE UNCHANGED faults /\ legacy' = [legacy EXCEPT ![e] = 0]
        BY <1>2, <3>2 DEF Grows, Versions
      <3> QED
        BY <2>1, <3>1, <3>2
    <2>3. legacy' \in Versions /\ \A o \in Entry : legacy'[o] \in {0, legacy[o]}
      BY <1>2, <2>1 DEF Versions
    <2> QED
      BY <1>1, <1>2, <2>1, <2>2, <2>3, EntryMigrateInv DEF e
  <1> QED
    BY <1>3, <1>4, <1>5

(* The marker: nothing is left to do, so nothing is left. *)
LEMMA MarkerMigrateInv ==
    ASSUME MigrateInv, NEW c \in Caller, WriteMarker(c)
    PROVE  MigrateInv'
  <1>0. caller \in [Caller -> CallerState] /\ legacy \in [Entry -> 0 .. MaxVersion]
    BY DEF MigrateInv, LayoutShape, LTypeOK
  <1>1. /\ On(c, "migrate") /\ caller[c].todo = {} /\ marker' = TRUE /\ Turn(c, "release")
        /\ UNCHANGED <<lock, legacy, new, newest, daemon, faults, alone>>
    BY DEF WriteMarker
  <1>2. /\ caller' \in [Caller -> CallerState] /\ Others(c)
        /\ caller'[c] = [caller[c] EXCEPT !.pc = "release"]
    BY <1>0, <1>1, Turns DEF Others, Label
  <1>3. caller'[c].pc = "release"
    BY <1>0, <1>2 DEF CallerState
  <1>4. \A e \in Entry : legacy[e] = 0 \/ e \in faults.skipped
    <2>1. ~AtEntry(c) /\ Migrating(c)
      BY <1>1 DEF AtEntry, Migrating, On
    <2> QED
      BY <1>0, <1>1, <2>1, LayoutAssumption DEF MigrateInv, NoneForgotten
  <1>5. ~daemon
    BY <1>1 DEF MigrateInv, DaemonIsKilled, Migrating
  <1>6. LayoutShape'
    <2>1. LTypeOK'
      BY <1>1, <1>2 DEF MigrateInv, LayoutShape, LTypeOK, CallerState
    <2> QED
      BY <1>1, <1>2, <1>3, <2>1 DEF MigrateInv, LayoutShape, AtEntry, Others
  <1>7. NoneForgotten'
    BY <1>0, <1>1, <1>4, LayoutAssumption DEF NoneForgotten
  <1> QED
    BY <1>1, <1>4, <1>5, <1>6, <1>7 DEF MigrateInv, DaemonIsKilled, MarkedIsTried

(* The daemon writes, hence nobody migrates yet. *)
LEMMA DaemonMigrateInv ==
    ASSUME MigrateInv, NEW e \in Entry, DaemonWrites(e)
    PROVE  MigrateInv'
  <1>1. /\ daemon /\ newest[e] < MaxVersion /\ newest' = [newest EXCEPT ![e] = @ + 1]
        /\ legacy' = [legacy EXCEPT ![e] = newest[e] + 1]
        /\ UNCHANGED <<marker, lock, new, daemon, caller, faults, alone>>
    BY DEF DaemonWrites
  <1>2. ~marker /\ \A c \in Caller : ~Migrating(c)
    BY <1>1 DEF MigrateInv, DaemonIsKilled
  <1>3. LTypeOK'
    <2>1. {legacy, new, newest} \subseteq [Entry -> 0 .. MaxVersion]
      BY DEF MigrateInv, LayoutShape, LTypeOK
    <2>2. newest[e] + 1 \in 0 .. MaxVersion
      BY <1>1, <2>1, LayoutAssumption
    <2>3. legacy' \in [Entry -> 0 .. MaxVersion] /\ newest' \in [Entry -> 0 .. MaxVersion]
      BY <1>1, <2>1, <2>2
    <2> QED
      BY <1>1, <2>1, <2>3 DEF MigrateInv, LayoutShape, LTypeOK
  <1>4. \A c \in Caller : ~On(c, "move") /\ ~AtEntry(c)
    BY <1>2 DEF Migrating, AtEntry, On
  <1> QED
    BY <1>1, <1>2, <1>3, <1>4 DEF MigrateInv, LayoutShape, DaemonIsKilled, NoneForgotten,
       MarkedIsTried, Migrating, AtEntry, On

LEMMA NextMigrateInv == MigrateInv /\ [LNext]_lvars => MigrateInv'
  <1> SUFFICES ASSUME MigrateInv, [LNext]_lvars PROVE MigrateInv'
    OBVIOUS
  <1>1. CASE UNCHANGED lvars
    BY <1>1 DEF lvars, layout, MigrateInv, LayoutShape, LTypeOK, DaemonIsKilled, NoneForgotten,
       MarkedIsTried, Migrating, AtEntry, On
  <1>2. ASSUME NEW c \in Caller,
               Enter(c) \/ MigrateRoot(c) \/ LStep(c) \/ MigrationFails(c) \/ Die(c)
        PROVE  MigrateInv'
    BY <1>2, LockMigrateInv, RootMigrateInv, ListMigrateInv, LookMigrateInv,
       MigrationMigrateInv, MarkerMigrateInv DEF LStep
  <1> QED
    BY <1>1, <1>2, DaemonMigrateInv DEF LNext

(* For any number of processes and entries: the state is well formed. *)
THEOREM LayoutTypeCorrect == LSpec => []LTypeOK
  <1>1. MigrateInv => LTypeOK
    BY DEF MigrateInv, LayoutShape
  <1> QED
    BY <1>1, InitMigrateInv, NextMigrateInv, PTL DEF LSpec

(* Whatever processes migrate at once, die, fail or go on with their commands: when  *)
(* .layout-v1 is there, which ends the looking for good, an entry is left at the root *)
(* only if a migration's rename or removal of that very entry failed (ensure_layout,  *)
(* migrate_legacy_to_v19).                                                            *)
THEOREM MarkedIsTriedHolds == LSpec => []MarkedIsTried
  <1>1. MigrateInv => MarkedIsTried
    BY DEF MigrateInv
  <1> QED
    BY <1>1, InitMigrateInv, NextMigrateInv, PTL DEF LSpec

-----------------------------------------------------------------------------
(* The inductive invariant of NothingIsLost.  One command at a time runs, so what *)
(* it found out about an entry still holds when it acts on it; of an entry that a *)
(* removal left half of, nothing is found out.                                    *)
OneAtATime == alone => \A c, d \in Caller : ~On(c, "idle") /\ ~On(d, "idle") => c = d
NewestIsNewest == \A e \in Entry : legacy[e] <= newest[e] /\ new[e] <= newest[e]
WhatGoesIsOlder ==
    alone => \A c \in Caller : caller[c].e \notin faults.torn =>
        /\ On(c, "replace") => legacy[caller[c].e] = newest[caller[c].e]
        /\ On(c, "drop") => new[caller[c].e] = newest[caller[c].e]

(* Only one process ever copies, for the destination is there from then on; it has *)
(* the whole source until it has copied all of it.                                 *)
OneCopies ==
    /\ \A c, d \in Caller : On(c, "copy") /\ On(d, "copy") => c = d
    /\ \A c \in Caller : On(c, "copy") => local = File /\ dest \in SUBSET File
LocalIsWhole == local = File \/ (local = Nothing /\ dest = File)

KeepInv ==
    /\ MigrateInv
    /\ OneAtATime
    /\ NewestIsNewest
    /\ WhatGoesIsOlder
    /\ OneCopies
    /\ LocalIsWhole
    /\ NothingIsLost

LEMMA InitKeepInv == LInit => KeepInv
  <1> SUFFICES ASSUME LInit PROVE KeepInv
    OBVIOUS
  <1>1. MigrateInv /\ \A c \in Caller : caller[c].pc = "idle"
    BY InitMigrateInv DEF LInit, Quiet
  <1>2. \A e \in Entry : /\ legacy[e] \in 0 .. 1 /\ new[e] \in 0 .. 1
                         /\ newest[e] = IF legacy[e] > new[e] THEN legacy[e] ELSE new[e]
    BY DEF LInit
  <1>3. NewestIsNewest /\ \A e \in Entry : newest[e] \in {legacy[e], new[e]}
    BY <1>2 DEF NewestIsNewest
  <1> QED
    BY <1>1, <1>3 DEF LInit, KeepInv, OneAtATime, WhatGoesIsOlder, OneCopies, LocalIsWhole,
       NothingIsLost, On

(* One step of one process: under the scenario of one command at a time the others *)
(* stay idle.                                                                      *)
LEMMA StillOneAtATime ==
    ASSUME OneAtATime, NEW c \in Caller, Others(c), UNCHANGED alone, ~On(c, "idle") \/ Begins(c)
    PROVE  /\ OneAtATime'
           /\ alone => \A d \in Caller \ {c} : On(d, "idle") /\ On(d, "idle")'
  <1>1. alone => \A d \in Caller \ {c} : On(d, "idle")
    BY DEF OneAtATime, Begins
  <1> QED
    BY <1>1 DEF OneAtATime, Others, On

(* A process that is not about to remove, move over or copy anything. *)
LEMMA BystanderKeepsKeepInv ==
    ASSUME KeepInv, MigrateInv', NEW c \in Caller, Others(c),
           caller'[c].pc \notin {"replace", "drop", "copy"}, Grows,
           ~On(c, "idle") \/ Begins(c),
           UNCHANGED <<legacy, new, newest, local, dest, alone>>
    PROVE  KeepInv'
  <1>1. OneAtATime'
    BY StillOneAtATime DEF KeepInv
  <1>2. \A d \in Caller : caller'[d] = caller[d] \/ caller'[d].pc \notin {"replace", "drop", "copy"}
    BY DEF Others
  <1>3. WhatGoesIsOlder' /\ OneCopies'
    BY <1>2 DEF KeepInv, WhatGoesIsOlder, OneCopies, On, Grows
  <1> QED
    BY <1>1, <1>3 DEF KeepInv, NewestIsNewest, LocalIsWhole, NothingIsLost, Grows

LEMMA LockKeepInv ==
    ASSUME KeepInv, MigrateInv', NEW c \in Caller,
           \/ Enter(c) \/ CreateLock(c) \/ Wait(c) \/ RemoveLock(c) \/ CreateAgain(c)
           \/ RecordPid(c) \/ Release(c) \/ MigrationFails(c) \/ Die(c)
           \/ KillAndList(c) \/ WriteMarker(c)
    PROVE  KeepInv'
  <1>0. caller \in [Caller -> CallerState]
    BY DEF KeepInv, MigrateInv, LayoutShape
  <1>1. UNCHANGED <<legacy, new, newest, local, dest, alone>>
    BY DEF Enter, CreateLock, Wait, RemoveLock, CreateAgain, RecordPid, Release, MigrationFails,
       Die, KillAndList, WriteMarker, layout, project
  <1>2. ~On(c, "idle") \/ Begins(c)
    BY DEF Enter, CreateLock, Wait, RemoveLock, CreateAgain, RecordPid, Release, MigrationFails,
       Die, KillAndList, WriteMarker, On
  <1>a. Grows
    <2>1. LayoutShape /\ faults \in FaultState
      BY DEF KeepInv, MigrateInv, LayoutShape
    <2>2. UNCHANGED faults \/ Fault({}, {}) \/ Die(c)
      BY DEF Enter, CreateLock, Wait, RemoveLock, CreateAgain, RecordPid, Release, MigrationFails,
         KillAndList, WriteMarker
    <2> QED
      BY <2>1, <2>2, FaultGrows, DeathGrows DEF Grows
  <1>3. \/ \E label \in Label \ {"replace", "drop", "copy"} : Turn(c, label)
        \/ Return(c) \/ GoOn(c)
        \/ On(c, "wait") /\ caller' = [caller EXCEPT ![c].waited = @ + 1]
        \/ caller' = [caller EXCEPT ![c].pc = "migrate", ![c].todo = {e \in Entry : legacy[e] > 0}]
    BY DEF Enter, CreateLock, Wait, RemoveLock, CreateAgain, RecordPid, Release, MigrationFails,
       Die, KillAndList, WriteMarker, Label
  <1>4. Others(c) /\ caller'[c].pc \notin {"replace", "drop", "copy"}
    <2>1. ASSUME NEW label \in Label \ {"replace", "drop", "copy"}, Turn(c, label)
          PROVE  Others(c) /\ caller'[c].pc \notin {"replace", "drop", "copy"}
      <3>1. Others(c) /\ caller'[c] = [caller[c] EXCEPT !.pc = label]
        BY <1>0, <2>1, Turns DEF Others
      <3> QED
        BY <1>0, <3>1 DEF CallerState
    <2>2. CASE Return(c) \/ GoOn(c)
      BY <1>0, <2>2, Returns, GoesOn DEF Others, Quiet
    <2>3. CASE On(c, "wait") /\ caller' = [caller EXCEPT ![c].waited = @ + 1]
      BY <1>0, <2>3 DEF CallerState, Others, On
    <2>4. CASE caller' = [caller EXCEPT ![c].pc = "migrate", ![c].todo = {e \in Entry : legacy[e] > 0}]
      BY <1>0, <2>4 DEF CallerState, Others
    <2> QED
      BY <1>3, <2>1, <2>2, <2>3, <2>4
  <1> QED
    BY <1>1, <1>2, <1>a, <1>4, BystanderKeepsKeepInv

(* A command writes a later version of an entry; nobody is about to act on it. *)
LEMMA CommandKeepInv ==
    ASSUME KeepInv, MigrateInv', NEW c \in Caller, Command(c)
    PROVE  KeepInv'
  <1>0. /\ caller \in [Caller -> CallerState] /\ faults \in FaultState
        /\ legacy \in Versions /\ new \in Versions /\ newest \in Versions
    BY DEF KeepInv, MigrateInv, LayoutShape, LTypeOK, Versions
  <1>1. On(c, "on") /\ Return(c) /\ UNCHANGED <<legacy, local, dest, faults, alone>>
    BY DEF Command, project
  <1>2. Others(c) /\ caller'[c] = Quiet
    BY <1>0, <1>1, Returns DEF Others
  <1>3. CASE UNCHANGED <<newest, new>>
    <2>1. Grows
      BY <1>0, <1>1 DEF Grows
    <2> QED
      BY <1>1, <1>2, <1>3, <2>1, BystanderKeepsKeepInv DEF Quiet, On
  <1>4. ASSUME NEW e \in Entry, newest' = [newest EXCEPT ![e] = @ + 1],
               new' = [new EXCEPT ![e] = newest[e] + 1]
        PROVE  KeepInv'
    <2>1. \A o \in Entry : legacy[o] \in Nat /\ new[o] \in Nat /\ newest[o] \in Nat
      BY <1>0, LayoutAssumption DEF Versions
    <2>2. NewestIsNewest'
      BY <1>0, <1>1, <1>4, <2>1 DEF KeepInv, NewestIsNewest, Versions
    <2>3. NothingIsLost'
      BY <1>0, <1>1, <1>4, <2>1 DEF KeepInv, NothingIsLost, Versions
    <2>4. /\ OneAtATime'
          /\ alone => \A d \in Caller \ {c} : On(d, "idle") /\ On(d, "idle")'
      BY <1>1, <1>2, StillOneAtATime DEF KeepInv, On
    <2>5. WhatGoesIsOlder'
      BY <1>1, <1>2, <2>4 DEF WhatGoesIsOlder, On, Quiet
    <2>6. OneCopies'
      BY <1>1, <1>2 DEF KeepInv, OneCopies, On, Others, Quiet
    <2> QED
      BY <1>0, <1>1, <2>2, <2>3, <2>4, <2>5, <2>6 DEF KeepInv, LocalIsWhole
  <1> QED
    BY <1>3, <1>4 DEF Command

(* What Look decides is right about the two versions it sees. *)
LEMMA LookKeepInv ==
    ASSUME KeepInv, MigrateInv', NEW c \in Caller, Look(c)
    PROVE  KeepInv'
  <1>0. /\ caller \in [Caller -> CallerState] /\ On(c, "migrate") /\ LayoutShape
        /\ legacy \in Versions /\ new \in Versions /\ newest \in Versions
    BY DEF KeepInv, MigrateInv, LayoutShape, LTypeOK, Look, Versions
  <1>1. PICK e \in Entry : \E label \in {"move", "replace", "drop"} :
              /\ e \in caller[c].todo
              /\ caller' = [caller EXCEPT ![c].todo = @ \ {e}, ![c].e = e, ![c].pc = label]
              /\ label # "move" => label \in Ways(e)
    BY <1>0, LookSets
  <1>2. PICK label \in {"move", "replace", "drop"} :
              /\ caller' = [caller EXCEPT ![c].todo = @ \ {e}, ![c].e = e, ![c].pc = label]
              /\ label # "move" => label \in Ways(e)
    BY <1>1
  <1>3. e \notin faults.torn => /\ label = "replace" => legacy[e] > new[e]
                                /\ label = "drop" => ~(legacy[e] > new[e])
    BY <1>2 DEF Ways
  <1>4. caller'[c].pc = label /\ caller'[c].e = e /\ Others(c)
    BY <1>0, <1>2 DEF CallerState, Others
  <1>5. UNCHANGED <<legacy, new, newest, local, dest, faults, alone>>
    BY DEF Look, layout, project
  <1>6. /\ OneAtATime'
        /\ alone => \A d \in Caller \ {c} : On(d, "idle")'
    BY <1>0, <1>4, <1>5, StillOneAtATime DEF KeepInv, On
  <1>7. WhatGoesIsOlder'
    <2>1. newest[e] \in Nat /\ legacy[e] \in Nat /\ new[e] \in Nat
      BY <1>0, LayoutAssumption DEF Versions
    <2>2. alone /\ e \notin faults.torn => newest[e] \in {legacy[e], new[e]}
      BY DEF KeepInv, NothingIsLost
    <2>3. legacy[e] <= newest[e] /\ new[e] <= newest[e]
      BY DEF KeepInv, NewestIsNewest
    <2>4. alone /\ e \notin faults.torn => /\ label = "replace" => legacy[e] = newest[e]
                                           /\ label = "drop" => new[e] = newest[e]
      BY <1>3, <2>1, <2>2, <2>3
    <2> SUFFICES ASSUME alone', NEW d \in Caller, caller'[d].e \notin faults'.torn
                 PROVE  /\ On(d, "replace")' => legacy'[caller'[d].e] = newest'[caller'[d].e]
                        /\ On(d, "drop")' => new'[caller'[d].e] = newest'[caller'[d].e]
      BY DEF WhatGoesIsOlder
    <2>5. CASE d = c
      BY <1>4, <1>5, <2>4, <2>5 DEF On
    <2>6. CASE d # c
      BY <1>5, <1>6, <2>6 DEF On
    <2> QED
      BY <2>5, <2>6
  <1>8. OneCopies'
    BY <1>2, <1>4, <1>5 DEF KeepInv, OneCopies, On, Others
  <1> QED
    BY <1>5, <1>6, <1>7, <1>8 DEF KeepInv, NewestIsNewest, LocalIsWhole, NothingIsLost

(* A step at an entry: the newest version, if a process has the cache to itself, stays. *)
LEMMA EntryKeepInv ==
    ASSUME KeepInv, MigrateInv', NEW c \in Caller, NEW label \in {"migrate", "move"},
           ~On(c, "idle"), Turn(c, label), UNCHANGED <<newest, local, dest, alone>>,
           \A e \in Entry : legacy'[e] <= newest[e] /\ new'[e] <= newest[e],
           alone => \A e \in Entry \ faults'.torn : newest[e] \in {legacy'[e], new'[e]}
    PROVE  KeepInv'
  <1>0. caller \in [Caller -> CallerState]
    BY DEF KeepInv, MigrateInv, LayoutShape
  <1>1. Others(c) /\ caller'[c] = [caller[c] EXCEPT !.pc = label]
    BY <1>0, Turns DEF Others, Label
  <1>2. caller'[c].pc = label
    BY <1>0, <1>1 DEF CallerState
  <1>3. /\ OneAtATime'
        /\ alone => \A d \in Caller \ {c} : On(d, "idle")'
    BY <1>1, StillOneAtATime DEF KeepInv
  <1>4. WhatGoesIsOlder'
    BY <1>2, <1>3 DEF WhatGoesIsOlder, On
  <1>5. OneCopies'
    <2>1. \A d \in Caller : On(d, "copy")' => On(d, "copy")
      BY <1>1, <1>2 DEF On, Others
    <2>2. OneCopies
      BY DEF KeepInv
    <2> QED
      BY <2>1, <2>2 DEF OneCopies
  <1> QED
    BY <1>3, <1>4, <1>5 DEF KeepInv, NewestIsNewest, LocalIsWhole, NothingIsLost

LEMMA MigrationKeepInv ==
    ASSUME KeepInv, MigrateInv', NEW c \in Caller, RemoveNew(c) \/ MoveEntry(c) \/ DropLegacy(c)
    PROVE  KeepInv'
  <1> DEFINE e == caller[c].e
             Kept == /\ \A o \in Entry : legacy'[o] <= newest[o] /\ new'[o] <= newest[o]
                     /\ alone => \A o \in Entry \ faults'.torn : newest[o] \in {legacy'[o], new'[o]}
  <1>1. AtEntry(c) /\ ~On(c, "idle") /\ UNCHANGED <<newest, local, dest, alone>>
    BY DEF RemoveNew, MoveEntry, DropLegacy, On, AtEntry, project
  <1>2. /\ legacy \in Versions /\ new \in Versions /\ newest \in Versions
        /\ e \in Entry /\ faults \in FaultState
    BY <1>1 DEF KeepInv, MigrateInv, LayoutShape, LTypeOK, Versions
  <1>3. /\ \A o \in Entry : /\ legacy[o] \in Nat /\ new[o] \in Nat /\ newest[o] \in Nat
                            /\ legacy[o] <= newest[o] /\ new[o] <= newest[o]
        /\ alone => \A o \in Entry \ faults.torn : newest[o] \in {legacy[o], new[o]}
    BY <1>2, LayoutAssumption DEF KeepInv, NewestIsNewest, NothingIsLost, Versions
  <1>a. UNCHANGED <<legacy, new>> /\ faults.torn \subseteq faults'.torn => Kept
    BY <1>3
  <1>b. \A skips, part \in SUBSET Entry : Fault(skips, part) => faults.torn \subseteq faults'.torn
    BY <1>2, FaultGrows DEF Grows
  <1>4. CASE RemoveNew(c)
    <2>1. Turn(c, "move") /\ UNCHANGED legacy /\ On(c, "replace")
      BY <1>4 DEF RemoveNew
    <2>2. alone /\ e \notin faults.torn => legacy[e] = newest[e]
      BY <2>1 DEF KeepInv, WhatGoesIsOlder
    <2>3. Kept
      <3>1. CASE new' = [new EXCEPT ![e] = 0] /\ UNCHANGED faults
        <4> HIDE DEF e
        <4> QED
          BY <1>2, <1>3, <2>1, <2>2, <3>1 DEF Versions
      <3>2. CASE UNCHANGED new /\ \E part \in Half(e) : Fault({}, part)
        BY <1>2, <1>a, <1>b, <2>1, <3>2 DEF Half
      <3> QED
        BY <1>4, <3>1, <3>2 DEF RemoveNew
    <2> QED
      BY <1>1, <2>1, <2>3, EntryKeepInv
  <1>5. CASE MoveEntry(c)
    <2>1. Turn(c, "migrate")
      BY <1>5 DEF MoveEntry
    <2>2. Kept
      <3>1. CASE /\ new[e] = 0 /\ UNCHANGED faults
                 /\ new' = [new EXCEPT ![e] = legacy[e]] /\ legacy' = [legacy EXCEPT ![e] = 0]
        <4> HIDE DEF e
        <4> QED
          BY <1>2, <1>3, <3>1 DEF Versions
      <3>2. CASE UNCHANGED <<new, legacy>> /\ faults.torn \subseteq faults'.torn
        BY <1>a, <3>2
      <3>3. faults' = [faults EXCEPT !.skipped = @ \cup {e}] => faults.torn \subseteq faults'.torn
        BY <1>2 DEF FaultState
      <3>4. Fault({e}, {}) => faults.torn \subseteq faults'.torn
        <4>1. {e} \in SUBSET Entry /\ {} \in SUBSET Entry
          BY <1>2
        <4> QED
          BY <1>b, <4>1
      <3>5. \/ /\ new[e] = 0 /\ UNCHANGED faults
               /\ new' = [new EXCEPT ![e] = legacy[e]] /\ legacy' = [legacy EXCEPT ![e] = 0]
            \/ UNCHANGED <<new, legacy, faults>>
            \/ faults' = [faults EXCEPT !.skipped = @ \cup {e}] /\ UNCHANGED <<new, legacy>>
            \/ Fault({e}, {}) /\ UNCHANGED <<new, legacy>>
        BY <1>5 DEF MoveEntry
      <3> HIDE DEF e, Kept
      <3> QED
        BY <3>1, <3>2, <3>3, <3>4, <3>5
    <2> QED
      BY <1>1, <2>1, <2>2, EntryKeepInv
  <1>6. CASE DropLegacy(c)
    <2>1. Turn(c, "migrate") /\ UNCHANGED new /\ On(c, "drop")
      BY <1>6 DEF DropLegacy
    <2>2. alone /\ e \notin faults.torn => new[e] = newest[e]
      BY <2>1 DEF KeepInv, WhatGoesIsOlder
    <2>3. Kept
      <3>1. CASE legacy' = [legacy EXCEPT ![e] = 0] /\ UNCHANGED faults
        <4> HIDE DEF e
        <4> QED
          BY <1>2, <1>3, <2>1, <2>2, <3>1 DEF Versions
      <3>2. CASE UNCHANGED legacy /\ \E part \in Half(e) : Fault({e}, part)
        BY <1>2, <1>a, <1>b, <2>1, <3>2 DEF Half
      <3> QED
        BY <1>6, <3>1, <3>2 DEF DropLegacy
    <2> QED
      BY <1>1, <2>1, <2>3, EntryKeepInv
  <1> QED
    BY <1>4, <1>5, <1>6

(* migrate_root: the copy is whole when the source goes. *)
LEMMA RootKeepInv ==
    ASSUME KeepInv, MigrateInv', NEW c \in Caller, MigrateRoot(c) \/ CopyFile(c) \/ RemoveLocal(c)
    PROVE  KeepInv'
  <1>0. caller \in [Caller -> CallerState]
    BY DEF KeepInv, MigrateInv, LayoutShape
  <1>1. UNCHANGED <<layout, faults, alone>> /\ ~On(c, "idle")
    BY DEF MigrateRoot, CopyFile, RemoveLocal, Copied, On
  <1>2. NewestIsNewest' /\ (alone => \A e \in Entry \ faults.torn : newest[e] \in {legacy[e], new[e]})'
    BY <1>1 DEF KeepInv, NewestIsNewest, NothingIsLost, layout
  <1>3. CASE MigrateRoot(c)
    <2>1. /\ local = File /\ dest = Nothing /\ \A d \in Caller : ~On(d, "copy")
      BY <1>3, LayoutAssumption DEF MigrateRoot, KeepInv, LocalIsWhole, OneCopies
    <2>2. CASE dest' = local /\ local' = Nothing /\ Return(c)
      <3>1. Others(c) /\ caller'[c] = Quiet
        BY <1>0, <2>2, Returns DEF Others
      <3>2. OneAtATime'
        BY <1>1, <3>1, StillOneAtATime DEF KeepInv
      <3>3. WhatGoesIsOlder' /\ OneCopies'
        BY <1>1, <2>1, <3>1 DEF KeepInv, WhatGoesIsOlder, OneCopies, On, Others, Quiet, layout
      <3> QED
        BY <1>2, <2>1, <2>2, <3>2, <3>3 DEF KeepInv, LocalIsWhole, NothingIsLost
    <2>3. CASE dest' = {} /\ Turn(c, "copy") /\ UNCHANGED local
      <3>1. Others(c) /\ caller'[c] = [caller[c] EXCEPT !.pc = "copy"]
        BY <1>0, <2>3, Turns DEF Others, Label
      <3>2. caller'[c].pc = "copy"
        BY <1>0, <3>1 DEF CallerState
      <3>3. OneAtATime'
        BY <1>1, <3>1, StillOneAtATime DEF KeepInv
      <3>4. \A d \in Caller : On(d, "copy")' <=> d = c
        BY <2>1, <3>1, <3>2 DEF On, Others
      <3>5. WhatGoesIsOlder'
        BY <1>1, <3>1, <3>2 DEF KeepInv, WhatGoesIsOlder, On, Others, layout
      <3> QED
        BY <1>2, <2>1, <2>3, <3>3, <3>4, <3>5 DEF KeepInv, OneCopies, LocalIsWhole, NothingIsLost
    <2> QED
      BY <1>3, <2>2, <2>3 DEF MigrateRoot
  <1>4. CASE CopyFile(c)
    <2>1. /\ On(c, "copy") /\ UNCHANGED <<local, caller>>
          /\ \E f \in local \ dest : dest' = dest \cup {f}
      BY <1>4 DEF CopyFile
    <2>2. local = File /\ dest' \in SUBSET File
      BY <2>1 DEF KeepInv, OneCopies
    <2> QED
      BY <1>1, <1>2, <2>1, <2>2 DEF KeepInv, OneAtATime, WhatGoesIsOlder, OneCopies, LocalIsWhole,
         NothingIsLost, On, layout
  <1>5. CASE RemoveLocal(c)
    <2>1. On(c, "copy") /\ local \subseteq dest /\ local' = Nothing /\ Return(c) /\ UNCHANGED dest
      BY <1>5 DEF RemoveLocal, Copied
    <2>2. dest = File /\ \A d \in Caller : On(d, "copy") => d = c
      BY <2>1 DEF KeepInv, OneCopies
    <2>3. Others(c) /\ caller'[c] = Quiet
      BY <1>0, <2>1, Returns DEF Others
    <2>4. OneAtATime'
      BY <1>1, <2>3, StillOneAtATime DEF KeepInv
    <2>5. WhatGoesIsOlder' /\ OneCopies'
      BY <1>1, <2>2, <2>3 DEF KeepInv, WhatGoesIsOlder, OneCopies, On, Others, Quiet, layout
    <2> QED
      BY <1>2, <2>1, <2>2, <2>4, <2>5 DEF KeepInv, LocalIsWhole, NothingIsLost
  <1> QED
    BY <1>3, <1>4, <1>5

(* The daemon writes where it knows the entries, hence while nobody migrates. *)
LEMMA DaemonKeepInv ==
    ASSUME KeepInv, MigrateInv', NEW e \in Entry, DaemonWrites(e)
    PROVE  KeepInv'
  <1>1. /\ daemon /\ newest' = [newest EXCEPT ![e] = @ + 1]
        /\ legacy' = [legacy EXCEPT ![e] = newest[e] + 1]
        /\ UNCHANGED <<new, local, dest, caller, faults, alone>>
    BY DEF DaemonWrites, project
  <1>2. \A c \in Caller : ~AtEntry(c)
    BY <1>1 DEF KeepInv, MigrateInv, DaemonIsKilled, Migrating
  <1>3. /\ legacy \in [Entry -> 0 .. MaxVersion] /\ new \in [Entry -> 0 .. MaxVersion]
        /\ newest \in [Entry -> 0 .. MaxVersion]
    BY DEF KeepInv, MigrateInv, LayoutShape, LTypeOK
  <1>4. \A o \in Entry : legacy[o] \in Nat /\ new[o] \in Nat /\ newest[o] \in Nat
    BY <1>3, LayoutAssumption
  <1>5. NewestIsNewest'
    BY <1>1, <1>3, <1>4 DEF KeepInv, NewestIsNewest
  <1>6. NothingIsLost'
    BY <1>1, <1>3, <1>4 DEF KeepInv, NothingIsLost
  <1>7. WhatGoesIsOlder'
    BY <1>1, <1>2 DEF WhatGoesIsOlder, AtEntry, On
  <1> QED
    BY <1>1, <1>5, <1>6, <1>7 DEF KeepInv, OneAtATime, OneCopies, LocalIsWhole, On

LEMMA NextKeepInv == KeepInv /\ [LNext]_lvars => KeepInv'
  <1> SUFFICES ASSUME KeepInv, [LNext]_lvars PROVE KeepInv'
    OBVIOUS
  <1>0. MigrateInv'
    BY NextMigrateInv DEF KeepInv
  <1>1. CASE UNCHANGED lvars
    BY <1>0, <1>1 DEF lvars, layout, project, KeepInv, OneAtATime, NewestIsNewest,
       WhatGoesIsOlder, OneCopies, LocalIsWhole, NothingIsLost, On
  <1>2. ASSUME NEW c \in Caller,
               Enter(c) \/ MigrateRoot(c) \/ LStep(c) \/ MigrationFails(c) \/ Die(c)
        PROVE  KeepInv'
    BY <1>0, <1>2, LockKeepInv, CommandKeepInv, LookKeepInv, MigrationKeepInv, RootKeepInv DEF LStep
  <1> QED
    BY <1>0, <1>1, <1>2, DaemonKeepInv DEF LNext

(* When one command runs at a time, wherever commands die or fail: the last version  *)
(* of every entry is somewhere on disk, unless a removal of one of its two places    *)
(* was cut in half, and so are all files of a project's own index                    *)
(* (migrate_legacy_to_v19, migrate_root).                                            *)
THEOREM NothingIsLostHolds == LSpec => []NothingIsLost
  <1>1. KeepInv => NothingIsLost
    BY DEF KeepInv
  <1> QED
    BY <1>1, InitKeepInv, NextKeepInv, PTL DEF LSpec
=============================================================================
