------------------------- MODULE CacheRegistryProofs -------------------------
(***************************************************************************)
(* The cache of indexes, for any number of processes and projects.         *)
(* AutoInv: automatic collections do not overlap and keep their interval,  *)
(* wherever collectors die. RegistryInv: the types, and that a collection  *)
(* drops the oldest. SoloInv, beside it: what a cache with one user holds  *)
(* is exact whenever that user rests.                                      *)
(***************************************************************************)
EXTENDS CacheRegistry, FiniteSetTheorems, TLAPS

(* A record with the locals that matter here, and every process has one. *)
Shaped(r) == r = [x \in DOMAIN r |-> r[x]] /\ {"pc", "op", "now"} \subseteq DOMAIN r

ProcShape == proc = [p \in Proc |-> proc[p]] /\ \A p \in Proc : Shaped(proc[p])

TimesAreNumbers ==
    clock \in Nat /\ stamp \in Nat \cup {None} /\ \A p \in Proc : proc[p].now \in Nat

Automatic(p) == proc[p].op = "auto"

(* Between taking the lock and the stamp an automatic collection is at one of these. *)
Collecting == {"list", "read", "prune", "remove", "wipe", "relink", "list_manifest", "open_tmp",
               "write_tmp", "rename", "stamp", "unlock"}

(* The places only an automatic collection comes to, and those it comes to. *)
AutoPlaces ==
    \A p \in Proc : /\ proc[p].pc \in {"rate", "stamp", "unlock"} => Automatic(p)
                    /\ Automatic(p) => proc[p].pc \in Collecting \cup {"rate"}

(* Whoever collects holds the lock, and alone. *)
AutoHoldsLock ==
    /\ \A p \in Proc : Automatic(p) => gcLock
    /\ \A p \in Proc, q \in Proc : Automatic(p) /\ Automatic(q) => p = q

(* It began late enough after what the stamp says, unless it has stamped already. *)
AutoIsDue ==
    \A p \in Proc : Automatic(p) /\ proc[p].pc \in Collecting \ {"unlock"} =>
        stamp = None \/ proc[p].now - stamp >= Interval

(* The inductive invariant. *)
AutoInv == ProcShape /\ TimesAreNumbers /\ AutoPlaces /\ AutoHoldsLock /\ AutoIsDue

-----------------------------------------------------------------------------
LEMMA InitAutoInv == Init => AutoInv
  <1> SUFFICES ASSUME Init PROVE AutoInv
    OBVIOUS
  <1> USE DEF Init, Resting, Shaped
  <1>1. ProcShape
    BY DEF ProcShape
  <1>2. TimesAreNumbers
    BY DEF TimesAreNumbers
  <1>3. \A p \in Proc : ~Automatic(p)
    BY RegistryAssumption DEF RegistryAssumption, Automatic
  <1> QED
    BY <1>1, <1>2, <1>3 DEF AutoInv, AutoPlaces, AutoHoldsLock, AutoIsDue

(* A step that neither begins an automatic collection nor has to do with the lock or  *)
(* the stamp: the process goes on with what it does, or stops, or begins another. *)
GoesOn(p) ==
    /\ proc'[p].op = proc[p].op
    /\ proc'[p].pc = "rate" => proc[p].pc = "rate"
    /\ proc'[p].pc \in {"stamp", "unlock"} => Automatic(p)
    /\ Automatic(p) => /\ proc'[p].now = proc[p].now /\ proc'[p].pc \in Collecting
                  /\ proc[p].pc \in Collecting \ {"unlock"}

StopsOrBegins(p) ==
    /\ proc'[p].op # "auto"
    /\ proc'[p].pc \notin {"rate", "stamp", "unlock"}

Apart(p) ==
    /\ UNCHANGED <<gcLock, stamp, clock>>
    /\ proc' = [proc EXCEPT ![p] = proc'[p]] /\ ProcShape' /\ proc'[p].now \in Nat
    /\ GoesOn(p) \/ StopsOrBegins(p)

LEMMA ApartAutoInv ==
    ASSUME AutoInv, NEW p \in Proc, Apart(p) PROVE AutoInv'
  <1>1. \A q \in Proc \ {p} : proc'[q] = proc[q]
    BY DEF AutoInv, ProcShape, Apart
  <1>2. TimesAreNumbers'
    BY <1>1 DEF AutoInv, Apart, TimesAreNumbers
  <1>3. AutoPlaces'
    BY <1>1 DEF AutoInv, Apart, AutoPlaces, GoesOn, StopsOrBegins, Automatic
  <1>4. AutoHoldsLock'
    BY <1>1 DEF AutoInv, Apart, AutoHoldsLock, GoesOn, StopsOrBegins, Automatic
  <1>5. AutoIsDue'
    BY <1>1 DEF AutoInv, Apart, AutoIsDue, GoesOn, StopsOrBegins, Automatic
  <1> QED
    BY <1>2, <1>3, <1>4, <1>5 DEF AutoInv, Apart

(* A process that gets other locals. *)
LEMMA SetsOne ==
    ASSUME ProcShape, NEW p \in Proc, NEW r, Shaped(r), proc' = [proc EXCEPT ![p] = r]
    PROVE  ProcShape' /\ proc'[p] = r /\ proc' = [proc EXCEPT ![p] = proc'[p]]
  <1>1. proc'[p] = r /\ \A q \in Proc \ {p} : proc'[q] = proc[q]
    BY DEF ProcShape
  <1>2. DOMAIN proc = Proc
    BY DEF ProcShape
  <1>3. proc' = [q \in Proc |-> proc'[q]]
    BY <1>2
  <1>4. \A q \in Proc : Shaped(proc'[q])
    <2> SUFFICES ASSUME NEW q \in Proc PROVE Shaped(proc'[q])
      OBVIOUS
    <2>1. CASE q = p
      BY <1>1, <2>1
    <2>2. CASE q # p
      BY <1>1, <2>2 DEF ProcShape, Shaped
    <2> QED
      BY <2>1, <2>2
  <1> QED
    BY <1>1, <1>3, <1>4 DEF ProcShape, Shaped

LEMMA RestingIsShaped == Shaped(Resting) /\ Resting.op = None /\ Resting.pc = "idle" /\ Resting.now = 0
  BY DEF Shaped, Resting

(* A process that comes to rest. *)
LEMMA RestsAutoInv ==
    ASSUME AutoInv, NEW p \in Proc, Rest(p), UNCHANGED <<gcLock, stamp, clock>> PROVE AutoInv'
  <1>1. ProcShape' /\ proc'[p] = Resting /\ proc' = [proc EXCEPT ![p] = proc'[p]]
    BY SetsOne, RestingIsShaped DEF AutoInv, Rest
  <1>2. StopsOrBegins(p)
    BY <1>1, RestingIsShaped, RegistryAssumption DEF StopsOrBegins, RegistryAssumption
  <1> QED
    BY <1>1, <1>2, RestingIsShaped, ApartAutoInv DEF Apart

(* A process that goes on, with a record of which only the fields other than op changed. *)
LEMMA GoesOnAutoInv ==
    ASSUME AutoInv, NEW p \in Proc, NEW r, Shaped(r), proc' = [proc EXCEPT ![p] = r],
           UNCHANGED <<gcLock, stamp, clock>>,
           r.op = proc[p].op, r.now \in Nat, r.pc # "rate",
           r.pc \in {"stamp", "unlock"} => Automatic(p),
           Automatic(p) => /\ r.now = proc[p].now /\ r.pc \in Collecting
                      /\ proc[p].pc \in Collecting \ {"unlock"}
    PROVE  AutoInv'
  <1>1. ProcShape' /\ proc'[p] = r /\ proc' = [proc EXCEPT ![p] = proc'[p]]
    BY SetsOne DEF AutoInv
  <1>2. GoesOn(p)
    BY <1>1 DEF GoesOn
  <1> QED
    BY <1>1, <1>2, ApartAutoInv DEF Apart

LEMMA GoAutoInv ==
    ASSUME AutoInv, NEW p \in Proc, NEW label, Go(p, label),
           UNCHANGED <<gcLock, stamp, clock>>, label # "rate",
           label \in {"stamp", "unlock"} => Automatic(p),
           Automatic(p) => label \in Collecting /\ proc[p].pc \in Collecting \ {"unlock"}
    PROVE  AutoInv'
  <1> DEFINE r == [proc[p] EXCEPT !.pc = label]
  <1>1. proc' = [proc EXCEPT ![p] = r]
    BY DEF Go
  <1>2. Shaped(proc[p]) /\ proc[p].now \in Nat
    BY DEF AutoInv, ProcShape, TimesAreNumbers, Shaped
  <1>3. Shaped(r) /\ r.pc = label /\ r.op = proc[p].op /\ r.now = proc[p].now
    BY <1>2 DEF Shaped
  <1> HIDE DEF r
  <1> QED
    BY <1>1, <1>2, <1>3, GoesOnAutoInv

(* A command that begins and is no automatic collection. *)
LEMMA StartAutoInv ==
    ASSUME AutoInv, NEW p \in Proc, NEW op, NEW e, NEW label, Start(p, op, e, label),
           UNCHANGED <<gcLock, stamp>>, op # "auto", label \notin {"rate", "stamp", "unlock"}
    PROVE  AutoInv'
  <1> DEFINE r == [Resting EXCEPT !.pc = label, !.op = op, !.e = e, !.now = clock]
  <1>1. proc' = [proc EXCEPT ![p] = r] /\ clock' = clock
    BY DEF Start
  <1>2. Shaped(r) /\ r.pc = label /\ r.op = op /\ r.now = clock
    BY DEF Resting, Shaped
  <1> HIDE DEF r
  <1>3. ProcShape' /\ proc'[p] = r /\ proc' = [proc EXCEPT ![p] = proc'[p]]
    BY <1>1, <1>2, SetsOne DEF AutoInv
  <1>4. StopsOrBegins(p)
    BY <1>2, <1>3 DEF StopsOrBegins
  <1> QED
    BY <1>1, <1>2, <1>3, <1>4, ApartAutoInv DEF Apart, AutoInv, TimesAreNumbers

(* A build and a touch. *)
LEMMA UseAutoInv ==
    ASSUME AutoInv, NEW p \in Proc,
           \/ \E e \in Project : BeginBuild(p, e) \/ Touch(p, e)
           \/ Publish(p) \/ OpenMeta(p) \/ WriteMeta(p) \/ EnsureLink(p) \/ TouchMeta(p)
    PROVE  AutoInv'
  <1> DEFINE s == proc[p]
  <1>0. Shaped(s) /\ s.now \in Nat /\ clock \in Nat
    BY DEF AutoInv, ProcShape, TimesAreNumbers, Shaped
  <1>1. CASE \E e \in Project : BeginBuild(p, e) \/ Touch(p, e)
    BY <1>1, StartAutoInv DEF BeginBuild, Touch, disk
  <1>2. ASSUME s.pc \in {"publish", "write_meta", "meta_body", "link", "touch"} PROVE ~Automatic(p)
    BY <1>2 DEF AutoInv, AutoPlaces, Collecting
  <1>3. CASE Publish(p)
    <2>1. Go(p, "write_meta") \/ Rest(p)
      BY <1>3 DEF Publish
    <2> QED
      BY <2>1, <1>2, <1>3, GoAutoInv, RestsAutoInv DEF Publish, At, world
  <1>4. CASE OpenMeta(p)
    <2> DEFINE r == [s EXCEPT !.pc = "meta_body", !.new = ~Readable(s.e), !.now = clock]
    <2>1. proc' = [proc EXCEPT ![p] = r]
      BY <1>4 DEF OpenMeta
    <2>2. Shaped(r) /\ r.pc = "meta_body" /\ r.op = s.op /\ r.now = clock
      BY <1>0 DEF Shaped
    <2> HIDE DEF r
    <2> QED
      BY <1>0, <1>2, <1>4, <2>1, <2>2, GoesOnAutoInv DEF OpenMeta, At, world
  <1>5. CASE WriteMeta(p)
    <2>1. Go(p, "link") \/ Rest(p)
      BY <1>5 DEF WriteMeta
    <2> QED
      BY <2>1, <1>2, <1>5, GoAutoInv, RestsAutoInv DEF WriteMeta, At, world
  <1>6. CASE EnsureLink(p)
    <2>1. Go(p, "list_manifest") \/ Rest(p)
      BY <1>6 DEF EnsureLink
    <2> QED
      BY <2>1, <1>2, <1>6, GoAutoInv, RestsAutoInv DEF EnsureLink, At, world
  <1>7. CASE TouchMeta(p)
    <2> DEFINE r == [s EXCEPT !.pc = "meta_body", !.now = clock]
    <2>1. proc' = [proc EXCEPT ![p] = r] \/ Rest(p)
      BY <1>7 DEF TouchMeta
    <2>2. Shaped(r) /\ r.pc = "meta_body" /\ r.op = s.op /\ r.now = clock
      BY <1>0 DEF Shaped
    <2> HIDE DEF r
    <2> QED
      BY <1>0, <1>2, <1>7, <2>1, <2>2, GoesOnAutoInv, RestsAutoInv DEF TouchMeta, At, world
  <1> QED
    BY <1>1, <1>3, <1>4, <1>5, <1>6, <1>7

(* The manifest, which builds and collections write. *)
LEMMA ManifestAutoInv ==
    ASSUME AutoInv, NEW p \in Proc,
           ListManifest(p) \/ OpenTmp(p) \/ WriteTmp(p) \/ RenameTmp(p)
    PROVE  AutoInv'
  <1> DEFINE s == proc[p]
  <1>0. Shaped(s) /\ s.now \in Nat
    BY DEF AutoInv, ProcShape, TimesAreNumbers, Shaped
  <1>1. CASE ListManifest(p)
    <2> DEFINE r == [s EXCEPT !.pc = "open_tmp", !.lists = {e \in dirs : Readable(e)}]
    <2>1. proc' = [proc EXCEPT ![p] = r]
      BY <1>1 DEF ListManifest
    <2>2. Shaped(r) /\ r.pc = "open_tmp" /\ r.op = s.op /\ r.now = s.now
      BY <1>0 DEF Shaped
    <2> HIDE DEF r
    <2> QED
      BY <1>0, <1>1, <2>1, <2>2, GoesOnAutoInv DEF ListManifest, At, world, disk, Collecting
  <1>2. CASE OpenTmp(p)
    <2> DEFINE r(i) == [s EXCEPT !.pc = "write_tmp", !.fd = i]
    <2>1. PICK i : proc' = [proc EXCEPT ![p] = r(i)]
      <3> DEFINE inode == IF tmp /= None THEN tmp
                          ELSE CHOOSE i \in Inode : i /= manifest /\ \A q \in Proc : proc[q].fd /= i
      <3>1. proc' = [proc EXCEPT ![p].pc = "write_tmp", ![p].fd = inode]
        BY <1>2 DEF OpenTmp
      <3> HIDE DEF inode
      <3>2. proc' = [proc EXCEPT ![p] = r(inode)]
        BY <3>1
      <3> QED
        BY <3>2
    <2>2. Shaped(r(i)) /\ r(i).pc = "write_tmp" /\ r(i).op = s.op /\ r(i).now = s.now
      BY <1>0 DEF Shaped
    <2> HIDE DEF r
    <2> QED
      BY <1>0, <1>2, <2>1, <2>2, GoesOnAutoInv DEF OpenTmp, At, world, Collecting
  <1>3. CASE WriteTmp(p)
    <2> DEFINE r == [s EXCEPT !.pc = "rename", !.fd = None]
    <2>1. proc' = [proc EXCEPT ![p] = r]
      BY <1>3 DEF WriteTmp
    <2>2. Shaped(r) /\ r.pc = "rename" /\ r.op = s.op /\ r.now = s.now
      BY <1>0 DEF Shaped
    <2> HIDE DEF r
    <2> QED
      BY <1>0, <1>3, <2>1, <2>2, GoesOnAutoInv DEF WriteTmp, At, world, Collecting
  <1>4. CASE RenameTmp(p)
    <2>1. (Automatic(p) /\ Go(p, "stamp")) \/ Rest(p)
      BY <1>4 DEF RenameTmp, Automatic
    <2> QED
      BY <2>1, <1>4, GoAutoInv, RestsAutoInv DEF RenameTmp, At, world, Collecting
  <1> QED
    BY <1>1, <1>2, <1>3, <1>4

(* What a collection does before it writes the manifest. *)
LEMMA CollectAutoInv ==
    ASSUME AutoInv, NEW p \in Proc,
           \/ Collect(p) \/ ListEntries(p) \/ ReadEntry(p) \/ Decide(p) \/ PruneOne(p)
           \/ Pruned(p) \/ Remove(p) \/ Wipe(p) \/ Relink(p) \/ Relinked(p)
    PROVE  AutoInv'
  <1> DEFINE s == proc[p]
             Same(r, label) == Shaped(r) /\ r.pc = label /\ r.op = s.op /\ r.now = s.now
             Changed(r) == proc' = [proc EXCEPT ![p] = r]
  <1>0. Shaped(s) /\ s.now \in Nat
    BY DEF AutoInv, ProcShape, TimesAreNumbers, Shaped
  <1>s. ASSUME NEW r, NEW label \in Collecting \ {"stamp", "unlock"}, Same(r, label), Changed(r),
               s.pc \in Collecting \ {"unlock"}, UNCHANGED <<gcLock, stamp, clock>>
        PROVE  AutoInv'
    BY <1>0, <1>s, GoesOnAutoInv DEF Collecting
  <1>1. CASE Collect(p)
    BY <1>1, StartAutoInv DEF Collect, disk
  <1>2. CASE ListEntries(p)
    <2> DEFINE r == [s EXCEPT !.pc = "read", !.todo = dirs, !.seen = [e \in dirs |-> NoMeta]]
    <2>1. Changed(r)
      BY <1>2 DEF ListEntries
    <2>2. Same(r, "read")
      BY <1>0 DEF Shaped
    <2> HIDE DEF r
    <2> QED
      BY <1>s, <1>2, <2>1, <2>2 DEF ListEntries, At, world, disk, Collecting
  <1>3. CASE ReadEntry(p)
    <2> DEFINE r(t, m) == [s EXCEPT !.todo = t, !.seen = m]
    <2>1. PICK t, m : Changed(r(t, m))
      <3>1. PICK e \in s.todo :
               proc' = [proc EXCEPT ![p].todo = @ \ {e}, ![p].seen[e] = meta[e]]
        BY <1>3 DEF ReadEntry
      <3>2. Changed(r(s.todo \ {e}, [s.seen EXCEPT ![e] = meta[e]]))
        BY <3>1
      <3> QED
        BY <3>2
    <2>2. Same(r(t, m), s.pc)
      BY <1>0 DEF Shaped
    <2> HIDE DEF r
    <2> QED
      BY <1>s, <1>3, <2>1, <2>2 DEF ReadEntry, At, world, disk, Collecting
  <1>4. CASE Decide(p)
    <2> DEFINE r == [s EXCEPT !.pc = "prune", !.drop = Condemned(s.seen, s.now)]
    <2>1. Changed(r)
      BY <1>4 DEF Decide
    <2>2. Same(r, "prune")
      BY <1>0 DEF Shaped
    <2> HIDE DEF r
    <2> QED
      BY <1>s, <1>4, <2>1, <2>2 DEF Decide, At, world, disk, Collecting
  <1>5. CASE PruneOne(p)
    <2> DEFINE r(d) == [s EXCEPT !.drop = d]
    <2>1. PICK e : Changed(r(s.drop \cup {e}))
      BY <1>5 DEF PruneOne
    <2>2. Same(r(s.drop \cup {e}), s.pc)
      BY <1>0 DEF Shaped
    <2> HIDE DEF r
    <2> QED
      BY <1>s, <1>5, <2>1, <2>2 DEF PruneOne, At, world, disk, Collecting
  <1>6. CASE Pruned(p)
    <2> DEFINE r == [s EXCEPT !.pc = "remove", !.todo = s.drop]
    <2>1. Changed(r) \/ (Automatic(p) /\ Go(p, "stamp")) \/ Rest(p)
      BY <1>6 DEF Pruned, Automatic
    <2>2. Same(r, "remove")
      BY <1>0 DEF Shaped
    <2> HIDE DEF r
    <2>3. s.pc = "prune" /\ UNCHANGED <<gcLock, stamp, clock>>
      BY <1>6 DEF Pruned, At, world, disk
    <2>4. CASE Changed(r)
      BY <1>s, <2>2, <2>3, <2>4 DEF Collecting
    <2>5. CASE Automatic(p) /\ Go(p, "stamp")
      BY <2>3, <2>5, GoAutoInv DEF Collecting
    <2> QED
      BY <2>1, <2>3, <2>4, <2>5, RestsAutoInv
  <1>7. CASE Remove(p)
    <2> DEFINE r(t, label) == [s EXCEPT !.todo = t, !.pc = label]
    <2>1. PICK e \in s.todo : Changed(r(s.todo \ {e}, "wipe")) \/ Changed(r(s.todo \ {e}, s.pc))
      <3>1. PICK e \in s.todo :
               proc' = [proc EXCEPT ![p].todo = @ \ {e},
                                    ![p].pc = IF s.todo = {e} THEN "wipe" ELSE @]
        BY <1>7 DEF Remove
      <3>2. CASE s.todo = {e}
        BY <3>1, <3>2
      <3>3. CASE s.todo # {e}
        <4>1. proc' = [proc EXCEPT ![p].todo = @ \ {e}, ![p].pc = @]
          BY <3>1, <3>3
        <4> QED
          BY <4>1
      <3> QED
        BY <3>2, <3>3
    <2>2. \A t, label : Same(r(t, label), label)
      BY <1>0 DEF Shaped
    <2> HIDE DEF r
    <2>3. s.pc = "remove" /\ UNCHANGED <<gcLock, stamp, clock>>
      BY <1>7 DEF Remove, At, world
    <2>4. CASE Changed(r(s.todo \ {e}, "wipe"))
      <3>1. Same(r(s.todo \ {e}, "wipe"), "wipe")
        BY <2>2
      <3> QED
        BY <1>s, <2>3, <2>4, <3>1 DEF Collecting
    <2>5. CASE Changed(r(s.todo \ {e}, s.pc))
      <3>1. Same(r(s.todo \ {e}, s.pc), s.pc)
        BY <2>2
      <3> QED
        BY <1>s, <2>3, <2>5, <3>1 DEF Collecting
    <2> QED
      BY <2>1, <2>4, <2>5
  <1>8. CASE Wipe(p)
    <2> DEFINE r == [s EXCEPT !.pc = "relink", !.todo = dirs, !.lists = {}]
    <2>1. Changed(r)
      BY <1>8 DEF Wipe
    <2>2. Same(r, "relink")
      BY <1>0 DEF Shaped
    <2> HIDE DEF r
    <2> QED
      BY <1>s, <1>8, <2>1, <2>2 DEF Wipe, At, world, Collecting
  <1>9. CASE Relink(p)
    <2> DEFINE r(t, l) == [s EXCEPT !.todo = t, !.lists = l]
    <2>1. PICK t, l : Changed(r(t, l))
      BY <1>9, ZenonT(60) DEF Relink
    <2>2. Same(r(t, l), s.pc)
      BY <1>0 DEF Shaped
    <2> HIDE DEF r
    <2> QED
      BY <1>s, <1>9, <2>1, <2>2 DEF Relink, At, world, Collecting
  <1>10. CASE Relinked(p)
    BY <1>10, GoAutoInv DEF Relinked, At, world, disk, Collecting
  <1> QED
    BY <1>1, <1>2, <1>3, <1>4, <1>5, <1>6, <1>7, <1>8, <1>9, <1>10

(* Taking the lock for an automatic collection: there is none. *)
LEMMA TryAutoInv ==
    ASSUME AutoInv, NEW p \in Proc, TryAuto(p) PROVE AutoInv'
  <1> DEFINE r == [Resting EXCEPT !.pc = "rate", !.op = "auto", !.e = None, !.now = clock]
  <1>1. proc' = [proc EXCEPT ![p] = r] /\ UNCHANGED <<clock, stamp>> /\ ~gcLock /\ gcLock'
    BY DEF TryAuto, Start
  <1>2. Shaped(r) /\ r.pc = "rate" /\ r.op = "auto" /\ r.now = clock
    BY DEF Resting, Shaped
  <1> HIDE DEF r
  <1>3. ProcShape' /\ proc'[p] = r /\ \A q \in Proc \ {p} : proc'[q] = proc[q]
    BY <1>1, <1>2, SetsOne DEF AutoInv, ProcShape
  <1>4. \A q \in Proc : ~Automatic(q)
    BY <1>1 DEF AutoInv, AutoHoldsLock
  <1>5. TimesAreNumbers'
    BY <1>1, <1>2, <1>3 DEF AutoInv, TimesAreNumbers
  <1>6. AutoPlaces' /\ AutoHoldsLock' /\ AutoIsDue'
    BY <1>1, <1>2, <1>3, <1>4 DEF AutoInv, AutoPlaces, AutoHoldsLock, AutoIsDue, Automatic, Collecting
  <1> QED
    BY <1>3, <1>5, <1>6 DEF AutoInv

(* The end of one: the process rests and the lock is free. *)
LEMMA UnlocksAutoInv ==
    ASSUME AutoInv, NEW p \in Proc, Automatic(p), Rest(p), UNCHANGED <<clock, stamp>> PROVE AutoInv'
  <1>1. ProcShape' /\ proc'[p] = Resting /\ \A q \in Proc \ {p} : proc'[q] = proc[q]
    BY SetsOne, RestingIsShaped DEF AutoInv, ProcShape, Rest
  <1>2. \A q \in Proc : ~Automatic(q)'
    BY <1>1, RestingIsShaped, RegistryAssumption
       DEF AutoInv, AutoHoldsLock, Automatic, RegistryAssumption
  <1>3. TimesAreNumbers'
    BY <1>1, RestingIsShaped DEF AutoInv, TimesAreNumbers
  <1>4. AutoPlaces'
    BY <1>1, <1>2, RestingIsShaped DEF AutoInv, AutoPlaces, Automatic
  <1> QED
    BY <1>1, <1>2, <1>3, <1>4 DEF AutoInv, AutoHoldsLock, AutoIsDue

LEMMA RateLimitAutoInv ==
    ASSUME AutoInv, NEW p \in Proc, RateLimit(p) PROVE AutoInv'
  <1>1. Automatic(p) /\ proc[p].pc = "rate" /\ UNCHANGED <<clock, stamp>>
    BY DEF RateLimit, At, AutoInv, AutoPlaces, world
  <1>2. CASE stamp /= None /\ clock - stamp < Interval
    BY <1>1, <1>2, UnlocksAutoInv DEF RateLimit
  <1>3. CASE ~(stamp /= None /\ clock - stamp < Interval)
    <2> DEFINE r == [proc[p] EXCEPT !.pc = "list", !.now = clock]
    <2>1. proc' = [proc EXCEPT ![p] = r] /\ UNCHANGED gcLock
      BY <1>3 DEF RateLimit
    <2>2. Shaped(r) /\ r.pc = "list" /\ r.op = "auto" /\ r.now = clock
      BY <1>1 DEF AutoInv, ProcShape, Shaped, Automatic
    <2> HIDE DEF r
    <2>3. ProcShape' /\ proc'[p] = r /\ \A q \in Proc \ {p} : proc'[q] = proc[q]
      BY <2>1, <2>2, SetsOne DEF AutoInv, ProcShape
    <2>4. TimesAreNumbers'
      BY <1>1, <2>2, <2>3 DEF AutoInv, TimesAreNumbers
    <2>5. AutoPlaces' /\ AutoHoldsLock'
      BY <1>1, <2>1, <2>2, <2>3 DEF AutoInv, AutoPlaces, AutoHoldsLock, Automatic, Collecting
    <2>6. stamp = None \/ clock - stamp >= Interval
      BY <1>3, RegistryAssumption DEF AutoInv, TimesAreNumbers, RegistryAssumption
    <2>7. AutoIsDue'
      BY <1>1, <2>2, <2>3, <2>6 DEF AutoInv, AutoIsDue, Automatic
    <2> QED
      BY <2>3, <2>4, <2>5, <2>7 DEF AutoInv
  <1> QED
    BY <1>2, <1>3

LEMMA StampAutoInv ==
    ASSUME AutoInv, NEW p \in Proc, Stamp(p) PROVE AutoInv'
  <1>1. /\ Automatic(p) /\ proc[p].pc = "stamp" /\ UNCHANGED <<clock, gcLock>>
        /\ stamp' = proc[p].now /\ Go(p, "unlock")
    BY DEF Stamp, At, AutoInv, AutoPlaces, world
  <1> DEFINE r == [proc[p] EXCEPT !.pc = "unlock"]
  <1>2. proc' = [proc EXCEPT ![p] = r]
    BY <1>1 DEF Go
  <1>3. Shaped(r) /\ r.pc = "unlock" /\ r.op = "auto" /\ r.now = proc[p].now
    BY <1>1 DEF AutoInv, ProcShape, Shaped, Automatic
  <1> HIDE DEF r
  <1>4. ProcShape' /\ proc'[p] = r /\ \A q \in Proc \ {p} : proc'[q] = proc[q]
    BY <1>2, <1>3, SetsOne DEF AutoInv, ProcShape
  <1>5. TimesAreNumbers'
    BY <1>1, <1>3, <1>4 DEF AutoInv, TimesAreNumbers
  <1>6. AutoPlaces' /\ AutoHoldsLock'
    BY <1>1, <1>3, <1>4 DEF AutoInv, AutoPlaces, AutoHoldsLock, Automatic, Collecting
  <1>7. AutoIsDue'
    BY <1>1, <1>3, <1>4, <1>6 DEF AutoInv, AutoHoldsLock, AutoIsDue, Automatic
  <1> QED
    BY <1>4, <1>5, <1>6, <1>7 DEF AutoInv

LEMMA UnlockAutoInv ==
    ASSUME AutoInv, NEW p \in Proc, Unlock(p) PROVE AutoInv'
  BY UnlocksAutoInv DEF Unlock, At, AutoInv, AutoPlaces, world

LEMMA NextAutoInv == AutoInv /\ [Next]_vars => AutoInv'
  <1> SUFFICES ASSUME AutoInv, [Next]_vars PROVE AutoInv'
    OBVIOUS
  <1> USE DEF AutoInv, ProcShape, TimesAreNumbers, AutoPlaces, AutoHoldsLock, AutoIsDue, Automatic
  <1>1. CASE Tick
    BY <1>1 DEF Tick, disk
  <1>2. CASE \E e \in Project : MoveRoot(e)
    BY <1>2 DEF MoveRoot, disk
  <1>3. CASE UNCHANGED vars
    BY <1>3 DEF vars, disk, world
  <1> USE DEF AutoInv
  <1>4. ASSUME NEW p \in Proc, Crash(p) PROVE AutoInv'
    BY <1>4, RestsAutoInv DEF Crash
  <1>5. ASSUME NEW p \in Proc, Step(p) PROVE AutoInv'
    BY <1>5, UseAutoInv, ManifestAutoInv, CollectAutoInv, TryAutoInv, RateLimitAutoInv,
       StampAutoInv, UnlockAutoInv DEF Step
  <1> QED
    BY <1>1, <1>2, <1>3, <1>4, <1>5 DEF Next

-----------------------------------------------------------------------------
(* Only Stamp changes the stamp, and at most one process collects on its own. *)
LEMMA OneCollects ==
    ASSUME NEW S, \A p \in S, q \in S : p = q PROVE Cardinality(S) <= 1
  <1>1. CASE S = {}
    BY <1>1, FS_EmptySet
  <1>2. CASE S # {}
    <2>1. PICK p : p \in S
      BY <1>2
    <2>2. S = {p}
      BY <2>1
    <2>3. Cardinality({p}) = 1
      BY FS_Singleton
    <2> QED
      BY <2>2, <2>3
  <1> QED
    BY <1>1, <1>2

LEMMA StampIsSpaced ==
    ASSUME AutoInv, NEW p \in Proc, Stamp(p), stamp /= None, stamp' /= stamp
    PROVE  stamp' - stamp >= Interval
  <1>1. stamp' = proc[p].now /\ Automatic(p) /\ proc[p].pc = "stamp"
    BY DEF Stamp, At, AutoInv, AutoPlaces
  <1> QED
    BY <1>1 DEF AutoInv, AutoIsDue, Collecting

LEMMA NextSpaced == AutoInv /\ AutoInv' /\ [Next]_vars => Spaced
  <1> SUFFICES ASSUME AutoInv, AutoInv', [Next]_vars PROVE Spaced
    OBVIOUS
  <1>1. Cardinality({p \in Proc : proc'[p].op = "auto"}) <= 1
    <2> DEFINE S == {p \in Proc : proc'[p].op = "auto"}
    <2>1. \A p \in S, q \in S : p = q
      BY DEF AutoInv, AutoHoldsLock, Automatic
    <2> HIDE DEF S
    <2>2. Cardinality(S) <= 1
      BY <2>1, OneCollects
    <2> QED
      BY <2>2 DEF S
  <1>2. ASSUME \A p \in Proc : ~Stamp(p) PROVE stamp' = stamp
    <2>1. CASE Tick \/ \E e \in Project : MoveRoot(e)
      BY <2>1 DEF Tick, MoveRoot, disk
    <2>2. ASSUME NEW p \in Proc, Crash(p) PROVE stamp' = stamp
      BY <2>2 DEF Crash
    <2>3. ASSUME NEW p \in Proc, NEW e \in Project, BeginBuild(p, e) \/ Touch(p, e)
          PROVE  stamp' = stamp
      BY <2>3 DEF BeginBuild, Touch, disk
    <2>4. ASSUME NEW p \in Proc,
                 \/ Publish(p) \/ OpenMeta(p) \/ WriteMeta(p) \/ EnsureLink(p) \/ TouchMeta(p)
                 \/ ListManifest(p) \/ OpenTmp(p) \/ WriteTmp(p) \/ RenameTmp(p)
          PROVE  stamp' = stamp
      BY <2>4 DEF Publish, OpenMeta, WriteMeta, EnsureLink, TouchMeta, ListManifest, OpenTmp,
         WriteTmp, RenameTmp, disk
    <2>5. ASSUME NEW p \in Proc,
                 \/ Collect(p) \/ TryAuto(p) \/ RateLimit(p) \/ ListEntries(p) \/ ReadEntry(p)
                 \/ Decide(p) \/ PruneOne(p) \/ Pruned(p)
          PROVE  stamp' = stamp
      BY <2>5 DEF Collect, TryAuto, RateLimit, ListEntries, ReadEntry, Decide, PruneOne, Pruned, disk
    <2>6. ASSUME NEW p \in Proc,
                 Remove(p) \/ Wipe(p) \/ Relink(p) \/ Relinked(p) \/ Unlock(p)
          PROVE  stamp' = stamp
      BY <2>6 DEF Remove, Wipe, Relink, Relinked, Unlock, disk
    <2>7. CASE UNCHANGED vars
      BY <2>7 DEF vars, disk
    <2>8. CASE \E p \in Proc : Step(p)
      <3> PICK p \in Proc : Step(p)
        BY <2>8
      <3> QED
        BY <1>2, <2>3, <2>4, <2>5, <2>6 DEF Step
    <2> QED
      BY <2>1, <2>2, <2>7, <2>8 DEF Next
  <1>3. stamp /= None /\ stamp' /= stamp => stamp' - stamp >= Interval
    BY <1>2, StampIsSpaced
  <1> QED
    BY <1>1, <1>3 DEF Spaced

(* For any number of processes and projects, wherever collectors die: two     *)
(* automatic collections never overlap, and the next begins Interval after    *)
(* the one before it at the earliest (auto_gc, try_cache_lock).               *)
THEOREM CollectionsSpacedHolds == Spec => CollectionsSpaced
  <1>1. Init => AutoInv
    BY InitAutoInv
  <1>2. AutoInv /\ [Next]_vars => AutoInv'
    BY NextAutoInv
  <1>3. AutoInv /\ AutoInv' /\ [Next]_vars => [Spaced]_vars
    BY NextSpaced
  <1> QED
    BY <1>1, <1>2, <1>3, PTL DEF Spec, CollectionsSpaced

-----------------------------------------------------------------------------
(* Types: what the disk holds and what the processes do. *)
Times == {NoMeta, Torn} \cup 0 .. MaxNow

Locals == {"pc", "op", "e", "now", "new", "seen", "todo", "drop", "fd", "lists"}

Entire(r) == r = [x \in Locals |-> r[x]]

LocalTyped(r) ==
    /\ Entire(r) /\ r.now \in 0 .. MaxNow /\ r.drop \subseteq Project
    /\ r.fd \in Inode \cup {None} /\ (r.pc # "write_tmp" => r.fd = None)
    /\ r.pc \in {"publish", "write_meta", "meta_body", "link", "touch"} => r.e \in Project
    /\ r.pc \in {"open_tmp", "write_tmp"} => r.lists \subseteq Project
    /\ r.pc \in {"read", "remove", "relink"} => r.todo \subseteq Project
    /\ r.pc \in {"read", "prune"} =>
          /\ r.seen = [e \in DOMAIN r.seen |-> r.seen[e]] /\ DOMAIN r.seen \subseteq Project
          /\ \A e \in DOMAIN r.seen : r.seen[e] \in Times

(* What a collection drops before the cap is met is older than what it keeps. *)
Ordered(r) ==
    r.pc = "prune" => \A e \in r.drop, k \in DOMAIN r.seen \ r.drop :
                          r.seen[e] >= 0 => r.seen[e] <= r.seen[k]

Undisturbed == budget.faults = MaxFaults

DiskTyped ==
    /\ dirs \subseteq Project /\ indexed \subseteq dirs /\ building \subseteq Project
    /\ meta \in [Project -> Times]
    /\ link \in [Name \cup Project -> Project \cup {None}]
    /\ file \in [Inode -> (SUBSET Project) \cup {Cut}]
    /\ {tmp, manifest} \subseteq Inode \cup {None}
    /\ gcLock \in BOOLEAN /\ stamp \in 0 .. MaxNow \cup {None}

WorldTyped ==
    /\ clock \in 0 .. MaxNow /\ rooted \subseteq Project
    /\ budget = [ops |-> budget.ops, faults |-> budget.faults] /\ budget.faults \in 0 .. MaxFaults
    /\ Undisturbed => rooted = Project

ProcTyped ==
    /\ proc = [p \in Proc |-> proc[p]]
    /\ \A p \in Proc : LocalTyped(proc[p]) /\ (Undisturbed => Ordered(proc[p]))

(* The inductive invariant. *)
RegistryInv == DiskTyped /\ WorldTyped /\ ProcTyped

LEMMA RestingTyped == LocalTyped(Resting) /\ Ordered(Resting)
  <1>1. Entire(Resting)
    BY DEF Entire, Locals, Resting
  <1>2. /\ Resting.now = 0 /\ Resting.drop = {} /\ Resting.fd = None /\ Resting.pc = "idle"
    BY DEF Resting
  <1> QED
    BY <1>1, <1>2, RegistryAssumption DEF LocalTyped, Ordered, RegistryAssumption

LEMMA InitRegistryInv == Init => RegistryInv
  <1> SUFFICES ASSUME Init PROVE RegistryInv
    OBVIOUS
  <1>1. DiskTyped
    BY DEF Init, DiskTyped, Times
  <1>2. WorldTyped
    BY RegistryAssumption DEF Init, WorldTyped, Undisturbed
  <1>3. ProcTyped
    BY RestingTyped DEF Init, ProcTyped
  <1> QED
    BY <1>1, <1>2, <1>3 DEF RegistryInv

(* A process gets other locals. *)
LEMMA SetsTyped ==
    ASSUME ProcTyped, NEW p \in Proc, NEW r, LocalTyped(r), Undisturbed => Ordered(r),
           proc' = [proc EXCEPT ![p] = r], Undisturbed' => Undisturbed
    PROVE  ProcTyped'
  <1>1. proc'[p] = r /\ proc' = [q \in Proc |-> proc'[q]] /\ \A q \in Proc \ {p} : proc'[q] = proc[q]
    BY DEF ProcTyped
  <1>2. ASSUME NEW q \in Proc PROVE LocalTyped(proc[q])' /\ (Undisturbed' => Ordered(proc[q])')
    <2>1. CASE q = p
      <3>1. LocalTyped(proc'[q]) /\ (Undisturbed => Ordered(proc'[q]))
        BY <1>1, <2>1
      <3> QED
        BY <3>1 DEF LocalTyped, Ordered, Entire
    <2>2. CASE q # p
      <3>1. LocalTyped(proc'[q]) /\ (Undisturbed => Ordered(proc'[q]))
        BY <1>1, <2>2 DEF ProcTyped
      <3> QED
        BY <3>1 DEF LocalTyped, Ordered, Entire
    <2> QED
      BY <2>1, <2>2
  <1> QED
    BY <1>1, <1>2 DEF ProcTyped

(* A process of which only the place changes, to one that asks for no more than its own. *)
LEMMA GoTyped ==
    ASSUME ProcTyped, NEW p \in Proc, NEW label, Go(p, label), Undisturbed' => Undisturbed,
           label \in {"list_manifest", "stamp", "unlock"}
              \/ (label \in {"write_meta", "link"} /\ proc[p].e \in Project),
           proc[p].pc # "write_tmp"
    PROVE  ProcTyped'
  <1> DEFINE r == [proc[p] EXCEPT !.pc = label]
  <1>1. proc' = [proc EXCEPT ![p] = r]
    BY DEF Go
  <1>2. LocalTyped(proc[p])
    BY DEF ProcTyped
  <1>3. LocalTyped(r) /\ Ordered(r)
    BY <1>2 DEF LocalTyped, Entire, Locals, Ordered
  <1> HIDE DEF r
  <1> QED
    BY <1>1, <1>3, SetsTyped

LEMMA RestTyped ==
    ASSUME ProcTyped, NEW p \in Proc, Rest(p), Undisturbed' => Undisturbed PROVE ProcTyped'
  BY RestingTyped, SetsTyped DEF Rest

(* The steps that leave the disk or the world alone. *)
LEMMA SameWorld ==
    ASSUME WorldTyped, UNCHANGED world PROVE WorldTyped' /\ (Undisturbed' => Undisturbed)
  BY DEF WorldTyped, world, Undisturbed

LEMMA SameDisk == ASSUME DiskTyped, UNCHANGED disk PROVE DiskTyped'
  BY DEF DiskTyped, disk

LEMMA StartTyped ==
    ASSUME WorldTyped, ProcTyped, NEW p \in Proc, NEW op, NEW e, NEW label, Start(p, op, e, label),
           label \in {"publish", "touch"} => e \in Project,
           label \in {"publish", "touch", "list", "rate"}
    PROVE  WorldTyped' /\ ProcTyped'
  <1> DEFINE r == [Resting EXCEPT !.pc = label, !.op = op, !.e = e, !.now = clock]
  <1>1. proc' = [proc EXCEPT ![p] = r] /\ UNCHANGED <<clock, rooted, solo>>
        /\ budget' = [budget EXCEPT !.ops = @ - 1]
    BY DEF Start
  <1>2. budget'.faults = budget.faults
        /\ budget' = [ops |-> budget'.ops, faults |-> budget'.faults]
    BY <1>1 DEF WorldTyped
  <1>3. WorldTyped' /\ (Undisturbed' => Undisturbed)
    BY <1>1, <1>2 DEF WorldTyped, Undisturbed
  <1>4. LocalTyped(r) /\ Ordered(r)
    <2>1. /\ r.pc = label /\ r.e = e /\ r.now = clock /\ r.drop = {} /\ r.fd = None /\ Entire(r)
      BY DEF Resting, Entire, Locals
    <2> HIDE DEF r
    <2> QED
      BY <2>1 DEF LocalTyped, Ordered, WorldTyped
  <1> HIDE DEF r
  <1> QED
    BY <1>1, <1>3, <1>4, SetsTyped

(* A build and a touch. *)
LEMMA UseTyped ==
    ASSUME RegistryInv, NEW p \in Proc,
           \/ \E e \in Project : BeginBuild(p, e) \/ Touch(p, e)
           \/ Publish(p) \/ OpenMeta(p) \/ WriteMeta(p) \/ EnsureLink(p) \/ TouchMeta(p)
    PROVE  RegistryInv'
  <1> USE DEF RegistryInv
  <1> DEFINE s == proc[p]
  <1>0. LocalTyped(s)
    BY DEF ProcTyped
  <1>1. ASSUME NEW e \in Project, BeginBuild(p, e) PROVE RegistryInv'
    <2>1. WorldTyped' /\ ProcTyped'
      BY <1>1, StartTyped DEF BeginBuild
    <2>2. DiskTyped'
      BY <1>1 DEF BeginBuild, DiskTyped
    <2> QED
      BY <2>1, <2>2
  <1>2. ASSUME NEW e \in Project, Touch(p, e) PROVE RegistryInv'
    BY <1>2, StartTyped, SameDisk DEF Touch
  <1>3. CASE Publish(p)
    <2>1. (Go(p, "write_meta") \/ Rest(p)) /\ s.pc = "publish" /\ UNCHANGED world
      BY <1>3 DEF Publish, At
    <2>2. s.e \in Project
      BY <1>0, <2>1 DEF LocalTyped
    <2>3. ProcTyped'
      BY <2>1, <2>2, SameWorld, GoTyped, RestTyped
    <2>4. DiskTyped'
      BY <1>3 DEF Publish, EndBuild, DiskTyped
    <2> QED
      BY <2>1, <2>3, <2>4, SameWorld
  <1>4. CASE OpenMeta(p)
    <2> DEFINE r == [s EXCEPT !.pc = "meta_body", !.new = ~Readable(s.e), !.now = clock]
    <2>1. proc' = [proc EXCEPT ![p] = r] /\ s.pc = "write_meta" /\ UNCHANGED world
      BY <1>4 DEF OpenMeta, At
    <2>2. s.e \in Project
      BY <1>0, <2>1 DEF LocalTyped
    <2>3. Entire(r) /\ r.pc = "meta_body" /\ r.e = s.e /\ r.now = clock /\ r.drop = s.drop /\ r.fd = s.fd
      BY <1>0 DEF LocalTyped, Entire, Locals
    <2> HIDE DEF r
    <2>4. LocalTyped(r) /\ Ordered(r)
      BY <1>0, <2>1, <2>2, <2>3 DEF LocalTyped, Ordered, WorldTyped
    <2>5. ProcTyped'
      BY <2>1, <2>4, SameWorld, SetsTyped
    <2>6. DiskTyped'
      BY <1>4, <2>2 DEF OpenMeta, DiskTyped, Times
    <2> QED
      BY <2>1, <2>5, <2>6, SameWorld
  <1>5. CASE WriteMeta(p)
    <2>1. (Go(p, "link") \/ Rest(p)) /\ s.pc = "meta_body" /\ UNCHANGED world
      BY <1>5 DEF WriteMeta, At
    <2>2. s.e \in Project /\ s.now \in Times
      BY <1>0, <2>1 DEF LocalTyped, Times
    <2>3. ProcTyped'
      BY <2>1, <2>2, SameWorld, GoTyped, RestTyped
    <2>4. meta' \in [Project -> Times]
      BY <1>5, <2>2 DEF WriteMeta, DiskTyped
    <2>5. DiskTyped'
      BY <1>5, <2>4 DEF WriteMeta, DiskTyped
    <2> QED
      BY <2>1, <2>3, <2>5, SameWorld
  <1>6. CASE EnsureLink(p)
    <2>1. (Go(p, "list_manifest") \/ Rest(p)) /\ s.pc = "link" /\ UNCHANGED world
      BY <1>6 DEF EnsureLink, At
    <2>2. s.e \in Project
      BY <1>0, <2>1 DEF LocalTyped
    <2>3. ProcTyped'
      BY <2>1, <2>2, SameWorld, GoTyped, RestTyped
    <2>4. link' \in [Name \cup Project -> Project \cup {None}]
      BY <1>6, <2>2 DEF EnsureLink, DiskTyped
    <2>5. DiskTyped'
      BY <1>6, <2>4 DEF EnsureLink, EndBuild, DiskTyped
    <2> QED
      BY <2>1, <2>3, <2>5, SameWorld
  <1>7. CASE TouchMeta(p)
    <2> DEFINE r == [s EXCEPT !.pc = "meta_body", !.now = clock]
    <2>1. (proc' = [proc EXCEPT ![p] = r] \/ Rest(p)) /\ s.pc = "touch" /\ UNCHANGED world
      BY <1>7 DEF TouchMeta, At
    <2>2. s.e \in Project
      BY <1>0, <2>1 DEF LocalTyped
    <2>3. Entire(r) /\ r.pc = "meta_body" /\ r.e = s.e /\ r.now = clock /\ r.drop = s.drop /\ r.fd = s.fd
      BY <1>0 DEF LocalTyped, Entire, Locals
    <2> HIDE DEF r
    <2>4. LocalTyped(r) /\ Ordered(r)
      BY <1>0, <2>1, <2>2, <2>3 DEF LocalTyped, Ordered, WorldTyped
    <2>5. ProcTyped'
      BY <2>1, <2>4, SameWorld, SetsTyped, RestTyped
    <2>6. DiskTyped'
      BY <1>7, <2>2 DEF TouchMeta, DiskTyped, Times
    <2> QED
      BY <2>1, <2>5, <2>6, SameWorld
  <1> QED
    BY <1>1, <1>2, <1>3, <1>4, <1>5, <1>6, <1>7

(* There is always a file that no name and no process holds. *)
LEMMA SomeInodeIsFree ==
    ASSUME NEW p \in Proc, NEW held, NEW fd, fd[p] = None
    PROVE  \E i \in Inode : i # held /\ \A q \in Proc : fd[q] # i
  <1>1. IsFiniteSet(Proc) /\ None \notin Inode
    BY RegistryAssumption DEF RegistryAssumption, Inode
  <1>2. Cardinality(Proc) \in Nat /\ IsFiniteSet(Inode)
        /\ Cardinality(Inode) = Cardinality(Proc) + 1
    <2>1. Cardinality(Proc) \in Nat
      BY <1>1, FS_CardinalityType
    <2> DEFINE n == Cardinality(Proc) + 1
    <2>2. n \in Nat /\ n >= 1 /\ n - 1 + 1 = n
      BY <2>1
    <2> HIDE DEF n
    <2>3. IsFiniteSet(1 .. n) /\ Cardinality(1 .. n) = n
      BY <2>2, FS_Interval
    <2> QED
      BY <2>1, <2>3 DEF n, Inode
  <1> DEFINE f == [q \in Proc |-> IF q = p THEN held ELSE fd[q]]
             Used == {f[q] : q \in Proc}
  <1>3. f \in Surjection(Proc, Used)
    BY DEF Surjection
  <1> HIDE DEF Used
  <1>4. IsFiniteSet(Used) /\ Cardinality(Used) <= Cardinality(Proc)
    BY <1>1, <1>3, FS_Surjection
  <1>5. PICK i \in Inode : i \notin Used
    <2> SUFFICES ASSUME Inode \subseteq Used PROVE FALSE
      OBVIOUS
    <2>1. Cardinality(Inode) <= Cardinality(Used) /\ Cardinality(Used) \in Nat
      BY <1>4, FS_Subset, FS_CardinalityType
    <2> QED
      BY <1>2, <1>4, <2>1
  <1>6. f[p] = held /\ \A q \in Proc \ {p} : f[q] = fd[q]
    OBVIOUS
  <1> HIDE DEF f
  <1> QED
    BY <1>1, <1>5, <1>6 DEF Used

(* So the temporary manifest is always opened. *)
LEMMA TmpIsFound ==
    ASSUME RegistryInv, NEW p \in Proc, OpenTmp(p)
    PROVE  \E i \in Inode :
              /\ tmp' = i /\ file' = [file EXCEPT ![i] = Cut]
              /\ proc' = [proc EXCEPT ![p] = [proc[p] EXCEPT !.pc = "write_tmp", !.fd = i]]
  <1> DEFINE inode == IF tmp /= None THEN tmp
                      ELSE CHOOSE i \in Inode : i /= manifest /\ \A q \in Proc : proc[q].fd /= i
  <1>1. inode \in Inode
    <2>1. CASE tmp /= None
      BY <2>1 DEF RegistryInv, DiskTyped
    <2>2. CASE tmp = None
      <3> DEFINE fd == [q \in Proc |-> proc[q].fd]
      <3>1. fd[p] = None
        BY DEF RegistryInv, ProcTyped, LocalTyped, OpenTmp, At
      <3> HIDE DEF fd
      <3>2. \E i \in Inode : i # manifest /\ \A q \in Proc : fd[q] # i
        BY <3>1, SomeInodeIsFree
      <3>3. \E i \in Inode : i # manifest /\ \A q \in Proc : proc[q].fd # i
        BY <3>2 DEF fd
      <3> QED
        BY <2>2, <3>3
    <2> QED
      BY <2>1, <2>2
  <1>2. /\ tmp' = inode /\ file' = [file EXCEPT ![inode] = Cut]
        /\ proc' = [proc EXCEPT ![p].pc = "write_tmp", ![p].fd = inode]
    BY DEF OpenTmp
  <1> HIDE DEF inode
  <1>3. PICK i \in Inode : i = inode
    BY <1>1
  <1>4. proc' = [proc EXCEPT ![p] = [proc[p] EXCEPT !.pc = "write_tmp", !.fd = i]]
    BY <1>2, <1>3
  <1> QED
    BY <1>2, <1>3, <1>4

(* The manifest. *)
LEMMA ManifestTyped ==
    ASSUME RegistryInv, NEW p \in Proc,
           ListManifest(p) \/ OpenTmp(p) \/ WriteTmp(p) \/ RenameTmp(p)
    PROVE  RegistryInv'
  <1> USE DEF RegistryInv
  <1> DEFINE s == proc[p]
  <1>0. LocalTyped(s)
    BY DEF ProcTyped
  <1>1. CASE ListManifest(p)
    <2> DEFINE l == {e \in dirs : Readable(e)}
               r == [s EXCEPT !.pc = "open_tmp", !.lists = l]
    <2>1. proc' = [proc EXCEPT ![p] = r] /\ s.pc = "list_manifest" /\ UNCHANGED <<world, disk>>
      BY <1>1 DEF ListManifest, At
    <2>2. l \subseteq Project
      BY DEF DiskTyped
    <2> HIDE DEF l
    <2>3. /\ Entire(r) /\ r.pc = "open_tmp" /\ r.lists = l
          /\ r.now = s.now /\ r.drop = s.drop /\ r.fd = s.fd
      BY <1>0 DEF LocalTyped, Entire, Locals
    <2> HIDE DEF r
    <2>4. LocalTyped(r) /\ Ordered(r)
      BY <1>0, <2>1, <2>2, <2>3 DEF LocalTyped, Ordered
    <2>5. ProcTyped'
      BY <2>1, <2>4, SameWorld, SetsTyped
    <2> QED
      BY <2>1, <2>5, SameWorld, SameDisk
  <1>2. CASE OpenTmp(p)
    <2> DEFINE r(i) == [s EXCEPT !.pc = "write_tmp", !.fd = i]
    <2>1. /\ s.pc = "open_tmp"
          /\ UNCHANGED <<world, dirs, meta, indexed, building, link, manifest, gcLock, stamp>>
      BY <1>2 DEF OpenTmp, At
    <2>2. PICK i \in Inode : /\ tmp' = i /\ file' = [file EXCEPT ![i] = Cut]
                             /\ proc' = [proc EXCEPT ![p] = r(i)]
      BY <1>2, TmpIsFound
    <2>3. /\ Entire(r(i)) /\ r(i).pc = "write_tmp" /\ r(i).fd = i
          /\ r(i).now = s.now /\ r(i).drop = s.drop /\ r(i).lists = s.lists
      BY <1>0 DEF LocalTyped, Entire, Locals
    <2> HIDE DEF r
    <2>4. LocalTyped(r(i)) /\ Ordered(r(i))
      BY <1>0, <2>1, <2>3 DEF LocalTyped, Ordered
    <2>5. ProcTyped'
      BY <2>1, <2>2, <2>4, SameWorld, SetsTyped
    <2>6. DiskTyped'
      BY <2>1, <2>2 DEF DiskTyped
    <2> QED
      BY <2>1, <2>5, <2>6, SameWorld
  <1>3. CASE WriteTmp(p)
    <2> DEFINE r == [s EXCEPT !.pc = "rename", !.fd = None]
    <2>1. proc' = [proc EXCEPT ![p] = r] /\ s.pc = "write_tmp" /\ UNCHANGED world
      BY <1>3 DEF WriteTmp, At
    <2>2. /\ Entire(r) /\ r.pc = "rename" /\ r.fd = None /\ r.now = s.now /\ r.drop = s.drop
      BY <1>0 DEF LocalTyped, Entire, Locals
    <2> HIDE DEF r
    <2>3. LocalTyped(r) /\ Ordered(r)
      BY <1>0, <2>2 DEF LocalTyped, Ordered
    <2>4. ProcTyped'
      BY <2>1, <2>3, SameWorld, SetsTyped
    <2>5. s.lists \subseteq Project
      BY <1>0, <2>1 DEF LocalTyped
    <2>6. DiskTyped'
      BY <1>3, <2>5 DEF WriteTmp, DiskTyped
    <2> QED
      BY <2>1, <2>4, <2>6, SameWorld
  <1>4. CASE RenameTmp(p)
    <2>1. (Go(p, "stamp") \/ Rest(p)) /\ s.pc = "rename" /\ UNCHANGED world
      BY <1>4 DEF RenameTmp, At
    <2>2. ProcTyped'
      BY <2>1, SameWorld, GoTyped, RestTyped
    <2>3. DiskTyped'
      BY <1>4 DEF RenameTmp, DiskTyped
    <2> QED
      BY <2>1, <2>2, <2>3, SameWorld
  <1> QED
    BY <1>1, <1>2, <1>3, <1>4

(* What a collection decides. *)
LEMMA DecideTyped ==
    ASSUME RegistryInv, NEW p \in Proc,
           \/ Collect(p) \/ TryAuto(p) \/ RateLimit(p) \/ ListEntries(p) \/ ReadEntry(p)
           \/ Decide(p) \/ PruneOne(p) \/ Pruned(p)
    PROVE  RegistryInv'
  <1> USE DEF RegistryInv
  <1> DEFINE s == proc[p]
  <1>0. LocalTyped(s) /\ (Undisturbed => Ordered(s))
    BY DEF ProcTyped
  <1>1. CASE Collect(p)
    BY <1>1, StartTyped, SameDisk DEF Collect
  <1>2. CASE TryAuto(p)
    <2>1. WorldTyped' /\ ProcTyped'
      BY <1>2, StartTyped DEF TryAuto
    <2>2. DiskTyped'
      BY <1>2 DEF TryAuto, DiskTyped
    <2> QED
      BY <2>1, <2>2
  <1>3. CASE RateLimit(p)
    <2> DEFINE r == [s EXCEPT !.pc = "list", !.now = clock]
    <2>1. (proc' = [proc EXCEPT ![p] = r] \/ Rest(p)) /\ s.pc = "rate" /\ UNCHANGED world
      BY <1>3 DEF RateLimit, At
    <2>2. Entire(r) /\ r.pc = "list" /\ r.fd = s.fd /\ r.now = clock /\ r.drop = s.drop
      BY <1>0 DEF LocalTyped, Entire, Locals
    <2> HIDE DEF r
    <2>3. LocalTyped(r) /\ Ordered(r)
      BY <1>0, <2>1, <2>2 DEF LocalTyped, Ordered, WorldTyped
    <2>4. ProcTyped'
      BY <2>1, <2>3, SameWorld, SetsTyped, RestTyped
    <2>5. DiskTyped'
      BY <1>3 DEF RateLimit, DiskTyped
    <2> QED
      BY <2>1, <2>4, <2>5, SameWorld
  <1>4. CASE ListEntries(p)
    <2> DEFINE m == [e \in dirs |-> NoMeta]
               r == [s EXCEPT !.pc = "read", !.todo = dirs, !.seen = m]
    <2>1. proc' = [proc EXCEPT ![p] = r] /\ s.pc = "list" /\ UNCHANGED <<world, disk>>
      BY <1>4 DEF ListEntries, At
    <2>2. /\ m = [e \in DOMAIN m |-> m[e]] /\ DOMAIN m \subseteq Project
          /\ \A e \in DOMAIN m : m[e] \in Times
      BY DEF DiskTyped, Times
    <2> HIDE DEF m
    <2>3. /\ Entire(r) /\ r.pc = "read" /\ r.fd = s.fd /\ r.now = s.now /\ r.drop = s.drop
          /\ r.todo = dirs /\ r.seen = m
      BY <1>0 DEF LocalTyped, Entire, Locals
    <2> HIDE DEF r
    <2>4. LocalTyped(r) /\ Ordered(r)
      BY <1>0, <2>1, <2>2, <2>3 DEF LocalTyped, Ordered, DiskTyped
    <2>5. ProcTyped'
      BY <2>1, <2>4, SameWorld, SetsTyped
    <2> QED
      BY <2>1, <2>5, SameWorld, SameDisk
  <1>5. CASE ReadEntry(p)
    <2> DEFINE r(t, m) == [s EXCEPT !.todo = t, !.seen = m]
    <2>1. PICK e \in s.todo :
             proc' = [proc EXCEPT ![p].todo = @ \ {e}, ![p].seen[e] = meta[e]]
      BY <1>5 DEF ReadEntry
    <2>2. s.pc = "read" /\ UNCHANGED <<world, disk>>
      BY <1>5 DEF ReadEntry, At
    <2>3. e \in Project
      BY <1>0, <2>2 DEF LocalTyped
    <2>4. PICK m : m = [s.seen EXCEPT ![e] = meta[e]]
      OBVIOUS
    <2>5. /\ m = [x \in DOMAIN m |-> m[x]] /\ DOMAIN m \subseteq Project
          /\ \A x \in DOMAIN m : m[x] \in Times
      BY <1>0, <2>2, <2>3, <2>4 DEF LocalTyped, DiskTyped
    <2>6. PICK t : t = s.todo \ {e}
      OBVIOUS
    <2>7. proc' = [proc EXCEPT ![p] = r(t, m)]
      BY <2>1, <2>4, <2>6
    <2>8. PICK u : u = r(t, m)
      OBVIOUS
    <2>9. /\ Entire(u) /\ u.pc = "read" /\ u.fd = s.fd /\ u.now = s.now
          /\ u.drop = s.drop /\ u.todo = t /\ u.seen = m
      BY <1>0, <2>2, <2>8 DEF LocalTyped, Entire, Locals
    <2> HIDE DEF r
    <2>10. t \subseteq Project
      BY <1>0, <2>2, <2>6 DEF LocalTyped
    <2>11. LocalTyped(u) /\ Ordered(u)
      <3>1. u.now \in 0 .. MaxNow /\ u.drop \subseteq Project /\ u.fd = None
        BY <1>0, <2>2, <2>9 DEF LocalTyped
      <3> QED
        BY <2>5, <2>9, <2>10, <3>1 DEF LocalTyped, Ordered
    <2>12. ProcTyped'
      BY <2>2, <2>7, <2>8, <2>11, SameWorld, SetsTyped
    <2> QED
      BY <2>2, <2>12, SameWorld, SameDisk
  <1>6. CASE Decide(p)
    <2> DEFINE d == Condemned(s.seen, s.now)
               r == [s EXCEPT !.pc = "prune", !.drop = d]
    <2>1. proc' = [proc EXCEPT ![p] = r] /\ s.pc = "read" /\ UNCHANGED <<world, disk>>
      BY <1>6 DEF Decide, At
    <2>2. d \subseteq DOMAIN s.seen /\ DOMAIN s.seen \subseteq Project
      BY <1>0, <2>1 DEF Condemned, LocalTyped
    <2>3. ASSUME Undisturbed, NEW e \in d, NEW k \in DOMAIN s.seen \ d, s.seen[e] >= 0
          PROVE  s.seen[e] <= s.seen[k]
      <3>1. e \in rooted /\ s.seen[e] \in Int /\ s.seen[k] \in Int /\ s.now \in Int /\ MaxAge \in Int
        BY <1>0, <2>1, <2>2, <2>3, RegistryAssumption
           DEF WorldTyped, LocalTyped, Times, NoMeta, Torn, RegistryAssumption
      <3>2. s.now - s.seen[e] > MaxAge
        BY <2>3, <3>1 DEF Condemned
      <3>3. ~(s.now - s.seen[k] > MaxAge)
        BY <2>3 DEF Condemned
      <3> QED
        BY <3>1, <3>2, <3>3
    <2> HIDE DEF d
    <2>4. /\ Entire(r) /\ r.pc = "prune" /\ r.fd = s.fd /\ r.now = s.now /\ r.drop = d
          /\ r.seen = s.seen
      BY <1>0 DEF LocalTyped, Entire, Locals
    <2> HIDE DEF r
    <2>5. LocalTyped(r)
      BY <1>0, <2>1, <2>2, <2>4 DEF LocalTyped
    <2>6. Undisturbed => Ordered(r)
      BY <2>3, <2>4 DEF Ordered
    <2>7. ProcTyped'
      BY <2>1, <2>5, <2>6, SameWorld, SetsTyped
    <2> QED
      BY <2>1, <2>7, SameWorld, SameDisk
  <1>7. CASE PruneOne(p)
    <2> DEFINE r(d) == [s EXCEPT !.drop = d]
    <2>1. s.pc = "prune" /\ UNCHANGED <<world, disk>>
      BY <1>7 DEF PruneOne, At
    <2>2. PICK e \in Kept(p) : /\ \A o \in Kept(p) : s.seen[e] <= s.seen[o]
                               /\ proc' = [proc EXCEPT ![p].drop = @ \cup {e}]
      BY <1>7 DEF PruneOne
    <2>3. PICK d : d = s.drop \cup {e}
      OBVIOUS
    <2>4. proc' = [proc EXCEPT ![p] = r(d)]
      BY <2>2, <2>3
    <2>5. /\ Entire(r(d)) /\ r(d).pc = "prune" /\ r(d).fd = s.fd /\ r(d).now = s.now
          /\ r(d).drop = d /\ r(d).seen = s.seen
      BY <1>0, <2>1 DEF LocalTyped, Entire, Locals
    <2> HIDE DEF r
    <2>6. LocalTyped(r(d))
      BY <1>0, <2>1, <2>2, <2>3, <2>5 DEF LocalTyped, Kept
    <2>7. ASSUME Undisturbed PROVE Ordered(r(d))
      <3> SUFFICES ASSUME NEW x \in d, NEW k \in DOMAIN s.seen \ d, s.seen[x] >= 0
                   PROVE  s.seen[x] <= s.seen[k]
        BY <2>5 DEF Ordered
      <3>1. k \in Kept(p) /\ k \in DOMAIN s.seen \ s.drop
        BY <2>3 DEF Kept
      <3>2. CASE x = e
        BY <2>2, <3>1, <3>2
      <3>3. CASE x \in s.drop
        BY <1>0, <2>1, <2>7, <3>1, <3>3 DEF Ordered
      <3> QED
        BY <2>3, <3>2, <3>3
    <2>8. ProcTyped'
      BY <2>1, <2>4, <2>6, <2>7, SameWorld, SetsTyped
    <2> QED
      BY <2>1, <2>8, SameWorld, SameDisk
  <1>8. CASE Pruned(p)
    <2> DEFINE r == [s EXCEPT !.pc = "remove", !.todo = s.drop]
    <2>1. /\ proc' = [proc EXCEPT ![p] = r] \/ Go(p, "stamp") \/ Rest(p)
          /\ s.pc = "prune" /\ UNCHANGED <<world, disk>>
      BY <1>8 DEF Pruned, At
    <2>2. /\ Entire(r) /\ r.pc = "remove" /\ r.fd = s.fd /\ r.now = s.now /\ r.drop = s.drop
          /\ r.todo = s.drop
      BY <1>0 DEF LocalTyped, Entire, Locals
    <2> HIDE DEF r
    <2>3. LocalTyped(r) /\ Ordered(r)
      BY <1>0, <2>1, <2>2 DEF LocalTyped, Ordered
    <2>4. ProcTyped'
      BY <2>1, <2>3, SameWorld, SetsTyped, GoTyped, RestTyped
    <2> QED
      BY <2>1, <2>4, SameWorld, SameDisk
  <1> QED
    BY <1>1, <1>2, <1>3, <1>4, <1>5, <1>6, <1>7, <1>8

(* What it removes and links anew. *)
LEMMA RemoveTyped ==
    ASSUME RegistryInv, NEW p \in Proc,
           \/ Remove(p) \/ Wipe(p) \/ Relink(p) \/ Relinked(p) \/ Stamp(p) \/ Unlock(p)
    PROVE  RegistryInv'
  <1> USE DEF RegistryInv
  <1> DEFINE s == proc[p]
  <1>0. LocalTyped(s)
    BY DEF ProcTyped
  <1>1. CASE Remove(p)
    <2> DEFINE r(t, label) == [s EXCEPT !.todo = t, !.pc = label]
    <2>1. PICK e \in s.todo :
             /\ proc' = [proc EXCEPT ![p].todo = @ \ {e},
                                     ![p].pc = IF s.todo = {e} THEN "wipe" ELSE @]
             /\ dirs' \in {dirs \ {e}} \cup (IF e \in building THEN {dirs} ELSE {})
             /\ meta' = [meta EXCEPT ![e] = NoMeta]
             /\ indexed' = indexed \ {e} /\ building' = building \ {e}
      BY <1>1 DEF Remove
    <2>2. s.pc = "remove" /\ UNCHANGED <<world, link, file, tmp, manifest, gcLock, stamp>>
      BY <1>1 DEF Remove, At
    <2>3. PICK label : label = IF s.todo = {e} THEN "wipe" ELSE s.pc
      OBVIOUS
    <2>4. label \in {"wipe", "remove"}
      BY <2>2, <2>3
    <2>5. PICK t : t = s.todo \ {e}
      OBVIOUS
    <2>6. t \subseteq Project /\ e \in Project
      BY <1>0, <2>2, <2>5 DEF LocalTyped
    <2>7. proc' = [proc EXCEPT ![p] = r(t, label)]
      BY <2>1, <2>3, <2>5
    <2>8. PICK u : u = r(t, label)
      OBVIOUS
    <2>9. /\ Entire(u) /\ u.pc = label /\ u.fd = s.fd /\ u.now = s.now
          /\ u.drop = s.drop /\ u.todo = t
      BY <1>0, <2>8 DEF LocalTyped, Entire, Locals
    <2> HIDE DEF r
    <2>10. LocalTyped(u) /\ Ordered(u)
      BY <1>0, <2>2, <2>4, <2>6, <2>9 DEF LocalTyped, Ordered
    <2>11. ProcTyped'
      BY <2>2, <2>7, <2>8, <2>10, SameWorld, SetsTyped
    <2>12. dirs' \subseteq Project /\ indexed' \subseteq dirs' /\ building' \subseteq Project
      BY <2>1 DEF DiskTyped
    <2>13. DiskTyped'
      BY <2>1, <2>2, <2>6, <2>12 DEF DiskTyped, Times
    <2> QED
      BY <2>2, <2>11, <2>13, SameWorld
  <1>2. CASE Wipe(p)
    <2> DEFINE r == [s EXCEPT !.pc = "relink", !.todo = dirs, !.lists = {}]
    <2>1. proc' = [proc EXCEPT ![p] = r] /\ s.pc = "wipe" /\ UNCHANGED world
      BY <1>2 DEF Wipe, At
    <2>2. /\ Entire(r) /\ r.pc = "relink" /\ r.fd = s.fd /\ r.now = s.now /\ r.drop = s.drop
          /\ r.todo = dirs
      BY <1>0 DEF LocalTyped, Entire, Locals
    <2> HIDE DEF r
    <2>3. LocalTyped(r) /\ Ordered(r)
      BY <1>0, <2>1, <2>2 DEF LocalTyped, Ordered, DiskTyped
    <2>4. ProcTyped'
      BY <2>1, <2>3, SameWorld, SetsTyped
    <2>5. DiskTyped'
      BY <1>2 DEF Wipe, DiskTyped
    <2> QED
      BY <2>1, <2>4, <2>5, SameWorld
  <1>3. CASE Relink(p)
    <2> DEFINE slug(e) == IF NameOf[e] \in s.lists THEN e ELSE NameOf[e]
               r(t, l) == [s EXCEPT !.todo = t, !.lists = l]
    <2>1. PICK e \in s.todo :
             /\ proc' = [proc EXCEPT ![p].todo = @ \ {e},
                                     ![p].lists = IF Readable(e) THEN @ \cup {slug(e)} ELSE @]
             /\ link' = IF Readable(e) /\ link[slug(e)] = None
                        THEN [link EXCEPT ![slug(e)] = e] ELSE link
      BY <1>3 DEF Relink
    <2>2. s.pc = "relink"
          /\ UNCHANGED <<world, dirs, meta, indexed, building, file, tmp, manifest, gcLock, stamp>>
      BY <1>3 DEF Relink, At
    <2>3. PICK l : l = IF Readable(e) THEN s.lists \cup {slug(e)} ELSE s.lists
      OBVIOUS
    <2>4. PICK t : t = s.todo \ {e}
      OBVIOUS
    <2>5. t \subseteq Project /\ e \in Project
      BY <1>0, <2>2, <2>4 DEF LocalTyped
    <2>6. proc' = [proc EXCEPT ![p] = r(t, l)]
      BY <2>1, <2>3, <2>4
    <2>7. PICK u : u = r(t, l)
      OBVIOUS
    <2>8. /\ Entire(u) /\ u.pc = "relink" /\ u.fd = s.fd /\ u.now = s.now
          /\ u.drop = s.drop /\ u.todo = t
      BY <1>0, <2>2, <2>7 DEF LocalTyped, Entire, Locals
    <2> HIDE DEF r
    <2>9. LocalTyped(u) /\ Ordered(u)
      BY <1>0, <2>2, <2>5, <2>8 DEF LocalTyped, Ordered
    <2>10. ProcTyped'
      BY <2>2, <2>6, <2>7, <2>9, SameWorld, SetsTyped
    <2>11. link' \in [Name \cup Project -> Project \cup {None}]
      BY <2>1, <2>5 DEF DiskTyped
    <2>12. DiskTyped'
      BY <2>2, <2>11 DEF DiskTyped
    <2> QED
      BY <2>2, <2>10, <2>12, SameWorld
  <1>4. CASE Relinked(p)
    <2>1. Go(p, "list_manifest") /\ s.pc = "relink" /\ UNCHANGED <<world, disk>>
      BY <1>4 DEF Relinked, At
    <2> QED
      BY <2>1, GoTyped, SameWorld, SameDisk
  <1>5. CASE Stamp(p)
    <2>1. Go(p, "unlock") /\ s.pc = "stamp" /\ UNCHANGED world /\ stamp' = s.now
      BY <1>5 DEF Stamp, At
    <2>2. DiskTyped'
      BY <1>0, <1>5 DEF Stamp, DiskTyped, LocalTyped
    <2> QED
      BY <2>1, <2>2, GoTyped, SameWorld
  <1>6. CASE Unlock(p)
    <2>1. Rest(p) /\ UNCHANGED world
      BY <1>6 DEF Unlock
    <2>2. DiskTyped'
      BY <1>6 DEF Unlock, DiskTyped
    <2> QED
      BY <2>1, <2>2, RestTyped, SameWorld
  <1> QED
    BY <1>1, <1>2, <1>3, <1>4, <1>5, <1>6

(* A fault is one less to come, and none had happened only if there was none before. *)
LEMMA FaultTyped ==
    ASSUME WorldTyped, budget.faults > 0, budget' = [budget EXCEPT !.faults = @ - 1],
           clock' = clock, rooted' \subseteq Project
    PROVE  WorldTyped' /\ ~Undisturbed'
  <1>1. /\ budget'.faults = budget.faults - 1
        /\ budget' = [ops |-> budget'.ops, faults |-> budget'.faults]
    BY DEF WorldTyped
  <1>2. budget.faults \in 0 .. MaxFaults /\ MaxFaults \in Nat
    BY RegistryAssumption DEF WorldTyped, RegistryAssumption
  <1>3. ~Undisturbed'
    BY <1>1, <1>2 DEF Undisturbed
  <1>4. budget'.faults \in 0 .. MaxFaults
    BY <1>1, <1>2
  <1> QED
    BY <1>1, <1>3, <1>4 DEF WorldTyped

LEMMA SameProcs == ASSUME ProcTyped, proc' = proc, Undisturbed' => Undisturbed PROVE ProcTyped'
  BY DEF ProcTyped, LocalTyped, Ordered, Entire

LEMMA NextRegistryInv == RegistryInv /\ [Next]_vars => RegistryInv'
  <1> SUFFICES ASSUME RegistryInv, [Next]_vars PROVE RegistryInv'
    OBVIOUS
  <1> USE DEF RegistryInv
  <1>1. CASE Tick
    <2>1. WorldTyped' /\ (Undisturbed' => Undisturbed)
      BY <1>1, RegistryAssumption DEF Tick, WorldTyped, Undisturbed, RegistryAssumption
    <2> QED
      BY <1>1, <2>1, SameDisk, SameProcs DEF Tick
  <1>2. ASSUME NEW e \in Project, MoveRoot(e) PROVE RegistryInv'
    <2>1. rooted' \subseteq Project /\ UNCHANGED <<disk, clock, proc>>
      BY <1>2 DEF MoveRoot, WorldTyped
    <2>2. WorldTyped' /\ ~Undisturbed'
      BY <1>2, <2>1, FaultTyped DEF MoveRoot
    <2> QED
      BY <2>1, <2>2, SameDisk, SameProcs
  <1>3. CASE UNCHANGED vars
    BY <1>3, SameWorld, SameDisk, SameProcs DEF vars
  <1>4. ASSUME NEW p \in Proc, Crash(p) PROVE RegistryInv'
    <2>1. rooted' \subseteq Project /\ clock' = clock /\ Rest(p)
      BY <1>4 DEF Crash, WorldTyped
    <2>2. WorldTyped' /\ ~Undisturbed'
      BY <1>4, <2>1, FaultTyped DEF Crash
    <2>3. DiskTyped'
      BY <1>4 DEF Crash, DiskTyped
    <2> QED
      BY <2>1, <2>2, <2>3, RestTyped
  <1>5. ASSUME NEW p \in Proc, Step(p) PROVE RegistryInv'
    BY <1>5, UseTyped, ManifestTyped, DecideTyped, RemoveTyped DEF Step
  <1> QED
    BY <1>1, <1>2, <1>3, <1>4, <1>5 DEF Next

(* What the cache holds is what its collectors and builders take it for:    *)
(* an index lies in an entry, and a temporary manifest always finds a file  *)
(* that no name and no process holds (build_index, rebuild_manifest, gc).   *)
THEOREM RegistryTypeCorrect == Spec => []TypeOK
  <1>1. RegistryInv => TypeOK
    BY DEF RegistryInv, DiskTyped, WorldTyped, ProcTyped, LocalTyped, TypeOK, Times
  <1> QED
    BY <1>1, InitRegistryInv, NextRegistryInv, PTL DEF Spec

(* For any number of entries, of any size, used and built while it runs: a  *)
(* collection that the size cap makes drop an entry keeps none that was     *)
(* used before it, by what it has read of them (gc), in a history in which  *)
(* no project came or went: the entry of one that is gone always goes.      *)
THEOREM PrunesTheOldestHolds == Spec => []PrunesTheOldest
  <1>1. RegistryInv => PrunesTheOldest
    BY DEF RegistryInv, ProcTyped, Ordered, Undisturbed, PrunesTheOldest, At, Kept
  <1> QED
    BY <1>1, InitRegistryInv, NextRegistryInv, PTL DEF Spec

-----------------------------------------------------------------------------
(* A cache with one user. What it holds is exact whenever that user rests; while it works, *)
(* each part is behind by as much as the user has done of its work. *)
Real == {e \in Project : Readable(e)}
Listed == IF manifest = None THEN {} ELSE file[manifest]
Linked(e) == \E n \in DOMAIN link : link[n] = e

Manifesting == {"list_manifest", "open_tmp", "write_tmp", "rename"}

(* Only a build holds a build lock, and its own. *)
RolesKept(s) ==
    /\ s.pc \in {"publish", "write_meta", "link"} => s.op = "build"
    /\ s.pc = "meta_body" => s.op \in {"build", "touch"}
    /\ s.pc = "touch" => s.op = "touch" /\ s.new = FALSE
    /\ s.op = "build" => s.pc \in {"publish", "write_meta", "meta_body", "link"} \cup Manifesting
    /\ building \subseteq IF s.op = "build" THEN {s.e} ELSE {}

(* The index is there before the meta says so. *)
IndexedFirst(s) ==
    /\ \A e \in Project : meta[e] # NoMeta => e \in indexed
    /\ s.pc = "publish" => s.e \in dirs
    /\ s.pc \in {"write_meta", "meta_body", "link", "touch"} => s.e \in indexed
    /\ s.pc = "touch" => Readable(s.e)
    /\ s.pc = "relink" => s.todo \subseteq dirs

(* The manifest lists what has meta, but for the entry whose meta is being written, *)
(* until it is made anew. *)
ManifestKept(s) ==
    /\ s.pc \notin {"meta_body", "link", "remove", "wipe", "relink"} \cup Manifesting =>
          Listed = Real
    /\ s.pc = "meta_body" => /\ meta[s.e] = Torn /\ Real = Listed \ {s.e}
                             /\ (s.new <=> s.e \notin Listed)
                             /\ s.op = "touch" => ~s.new
    /\ s.pc = "link" => Real = Listed \cup {s.e} /\ (s.new <=> s.e \notin Listed)
    /\ s.pc \in {"open_tmp", "write_tmp"} => s.lists = Real
    /\ s.pc = "write_tmp" => tmp # None /\ s.fd = tmp
    /\ s.pc = "rename" => tmp # None /\ file[tmp] = Real
    /\ s.pc \notin {"write_tmp", "rename"} => tmp = None

(* A link leads to an entry, and an entry with meta has one, but for the entry whose link *)
(* is being made, until all links are made anew. *)
LinksKept(s) ==
    /\ \A e \in Project : link[e] \in {None, e}
    /\ s.pc \notin {"remove", "wipe"} => \A n \in DOMAIN link : link[n] # None => link[n] \in dirs
    /\ s.pc \notin {"remove", "wipe", "relink"} =>
          \A e \in Real : Linked(e) \/ (s.pc = "link" /\ e = s.e)
    /\ s.pc = "meta_body" /\ s.op = "touch" => Linked(s.e)
    /\ s.pc = "relink" => /\ \A n \in DOMAIN link : link[n] # None => n \in s.lists
                          /\ \A e \in s.todo : link[e] = None
                          /\ \A e \in Real : e \in s.todo \/ Linked(e)

SoloOf(p) ==
    /\ \A q \in Proc \ {p} : proc[q].pc = "idle"
    /\ RolesKept(proc[p]) /\ IndexedFirst(proc[p]) /\ ManifestKept(proc[p]) /\ LinksKept(proc[p])

(* The inductive invariant, beside RegistryInv. *)
SoloInv ==
    /\ solo \in Proc \cup {None}
    /\ \A p \in Proc : solo = p /\ p # None => SoloOf(p)

LEMMA InitSoloInv == Init => SoloInv
  <1> SUFFICES ASSUME Init PROVE SoloInv
    OBVIOUS
  <1> SUFFICES ASSUME NEW p \in Proc PROVE SoloOf(p)
    BY DEF Init, SoloInv
  <1>1. /\ \A q \in Proc : proc[q] = Resting
        /\ \A e \in Project : meta[e] = NoMeta
        /\ \A n \in Name \cup Project : link[n] = None
        /\ building = {} /\ manifest = None /\ tmp = None
        /\ DOMAIN link = Name \cup Project
    BY DEF Init
  <1>2. Resting.pc = "idle" /\ Resting.op = None
    BY DEF Resting
  <1>3. Real = {}
    BY <1>1 DEF Real, Readable, NoMeta
  <1>4. RolesKept(Resting)
    BY <1>1, <1>2, RegistryAssumption DEF RolesKept, RegistryAssumption
  <1>5. IndexedFirst(Resting)
    BY <1>1, <1>2 DEF IndexedFirst
  <1>6. ManifestKept(Resting)
    BY <1>1, <1>2, <1>3 DEF ManifestKept, Listed, Manifesting
  <1>7. LinksKept(Resting)
    BY <1>1, <1>2, <1>3 DEF LinksKept
  <1> QED
    BY <1>1, <1>2, <1>4, <1>5, <1>6, <1>7 DEF SoloOf

(* A process gets other locals: its fields, and those of the others. *)
LEMMA OwnOf ==
    ASSUME ProcTyped, NEW p \in Proc, NEW r, proc' = [proc EXCEPT ![p] = r]
    PROVE  proc'[p] = r /\ \A q \in Proc \ {p} : proc'[q] = proc[q]
  BY DEF ProcTyped

(* The places at which every part is exact, but for the entries a collection has chosen. *)
Plain == {"idle", "rate", "list", "read", "prune", "stamp", "unlock"}

(* A step between them. *)
LEMMA PlainSolo ==
    ASSUME RegistryInv, NEW p \in Proc, SoloOf(p), NEW r, proc' = [proc EXCEPT ![p] = r],
           UNCHANGED <<dirs, meta, indexed, building, link, file, tmp, manifest>>,
           proc[p].pc \in Plain, r.pc \in Plain, r.op # "build"
    PROVE  SoloOf(p)'
  <1>1. proc'[p] = r /\ \A q \in Proc \ {p} : proc'[q] = proc[q]
    BY OwnOf DEF RegistryInv
  <1>2. proc[p].op # "build" /\ building = {}
    BY DEF SoloOf, RolesKept, Plain, Manifesting
  <1>3. Real' = Real /\ Listed' = Listed
    BY DEF Real, Readable, Listed
  <1>4. RolesKept(proc[p])'
    BY <1>1, <1>2 DEF RolesKept, Plain, Manifesting
  <1>5. IndexedFirst(proc[p])'
    BY <1>1 DEF SoloOf, IndexedFirst, Plain
  <1>6. ManifestKept(proc[p])'
    BY <1>1, <1>3 DEF SoloOf, ManifestKept, Plain, Manifesting
  <1>7. LinksKept(proc[p])'
    BY <1>1, <1>3 DEF SoloOf, LinksKept, Plain, Linked
  <1> QED
    BY <1>1, <1>4, <1>5, <1>6, <1>7 DEF SoloOf

(* The steps of a collection that leave the entries, the links and the manifest alone. *)
LEMMA DecideSolo ==
    ASSUME RegistryInv, NEW p \in Proc, SoloOf(p),
           \/ Collect(p) \/ TryAuto(p) \/ RateLimit(p) \/ ListEntries(p) \/ ReadEntry(p)
           \/ Decide(p) \/ PruneOne(p) \/ Stamp(p) \/ Unlock(p)
    PROVE  SoloOf(p)'
  <1> DEFINE s == proc[p]
             Same == UNCHANGED <<dirs, meta, indexed, building, link, file, tmp, manifest>>
             Sets(u) == proc' = [proc EXCEPT ![p] = u]
  <1>0. Entire(s)
    BY DEF RegistryInv, ProcTyped, LocalTyped
  <1>1. s.pc \in Plain => s.op # "build"
    BY DEF SoloOf, RolesKept, Plain, Manifesting
  <1>2. ASSUME NEW u, Sets(u), Same, s.pc \in Plain, u.pc \in Plain, u.op # "build"
        PROVE  SoloOf(p)'
    BY <1>2, PlainSolo
  <1>3. Resting.pc \in Plain /\ Resting.op # "build"
    BY RegistryAssumption DEF Resting, Plain, RegistryAssumption
  <1>4. ASSUME NEW op, NEW label, Start(p, op, None, label), Same, op # "build", label \in Plain
        PROVE  SoloOf(p)'
    <2> DEFINE r == [Resting EXCEPT !.pc = label, !.op = op, !.e = None, !.now = clock]
    <2>1. Sets(r) /\ s.pc = "idle"
      BY <1>4 DEF Start, At
    <2>2. r.pc = label /\ r.op = op
      BY DEF Resting
    <2> HIDE DEF r
    <2> QED
      BY <1>2, <1>4, <2>1, <2>2 DEF Plain
  <1>5. CASE Collect(p)
    BY <1>4, <1>5 DEF Collect, disk, Plain
  <1>6. CASE TryAuto(p)
    BY <1>4, <1>6 DEF TryAuto, Plain
  <1>7. CASE RateLimit(p)
    <2> DEFINE r == [s EXCEPT !.pc = "list", !.now = clock]
    <2>1. (Sets(r) \/ Sets(Resting)) /\ s.pc = "rate" /\ Same
      BY <1>7 DEF RateLimit, At, Rest
    <2>2. r.pc = "list" /\ r.op = s.op
      BY <1>0 DEF Entire, Locals
    <2> HIDE DEF r
    <2> QED
      BY <1>1, <1>2, <1>3, <2>1, <2>2 DEF Plain
  <1>8. CASE ListEntries(p)
    <2> DEFINE r == [s EXCEPT !.pc = "read", !.todo = dirs, !.seen = [e \in dirs |-> NoMeta]]
    <2>1. Sets(r) /\ s.pc = "list" /\ Same
      BY <1>8 DEF ListEntries, At, disk
    <2>2. r.pc = "read" /\ r.op = s.op
      BY <1>0 DEF Entire, Locals
    <2> HIDE DEF r
    <2> QED
      BY <1>1, <1>2, <2>1, <2>2 DEF Plain
  <1>9. CASE ReadEntry(p)
    <2> DEFINE r(e) == [s EXCEPT !.todo = @ \ {e}, !.seen[e] = meta[e]]
    <2>1. PICK e : Sets(r(e))
      BY <1>9 DEF ReadEntry
    <2>2. s.pc = "read" /\ Same
      BY <1>9 DEF ReadEntry, At, disk
    <2>3. r(e).pc = "read" /\ r(e).op = s.op
      BY <1>0, <2>2 DEF Entire, Locals
    <2> HIDE DEF r
    <2> QED
      BY <1>1, <1>2, <2>1, <2>2, <2>3 DEF Plain
  <1>10. CASE Decide(p)
    <2> DEFINE r == [s EXCEPT !.pc = "prune", !.drop = Condemned(s.seen, s.now)]
    <2>1. Sets(r) /\ s.pc = "read" /\ Same
      BY <1>10 DEF Decide, At, disk
    <2>2. r.pc = "prune" /\ r.op = s.op
      BY <1>0 DEF Entire, Locals
    <2> HIDE DEF r
    <2> QED
      BY <1>1, <1>2, <2>1, <2>2 DEF Plain
  <1>11. CASE PruneOne(p)
    <2> DEFINE r(e) == [s EXCEPT !.drop = @ \cup {e}]
    <2>1. PICK e : Sets(r(e))
      BY <1>11 DEF PruneOne
    <2>2. s.pc = "prune" /\ Same
      BY <1>11 DEF PruneOne, At, disk
    <2>3. r(e).pc = "prune" /\ r(e).op = s.op
      BY <1>0, <2>2 DEF Entire, Locals
    <2> HIDE DEF r
    <2> QED
      BY <1>1, <1>2, <2>1, <2>2, <2>3 DEF Plain
  <1>12. CASE Stamp(p)
    <2> DEFINE r == [s EXCEPT !.pc = "unlock"]
    <2>1. Sets(r) /\ s.pc = "stamp" /\ Same
      BY <1>12 DEF Stamp, At, Go
    <2>2. r.pc = "unlock" /\ r.op = s.op
      BY <1>0 DEF Entire, Locals
    <2> HIDE DEF r
    <2> QED
      BY <1>1, <1>2, <2>1, <2>2 DEF Plain
  <1>13. CASE Unlock(p)
    <2>1. Sets(Resting) /\ s.pc = "unlock" /\ Same
      BY <1>13 DEF Unlock, At, Rest
    <2> QED
      BY <1>2, <1>3, <2>1 DEF Plain
  <1> QED
    BY <1>5, <1>6, <1>7, <1>8, <1>9, <1>10, <1>11, <1>12, <1>13

(* A build begins, and publishes. *)
LEMMA BuildSolo ==
    ASSUME RegistryInv, NEW p \in Proc, SoloOf(p),
           (\E e \in Project : BeginBuild(p, e)) \/ Publish(p)
    PROVE  SoloOf(p)'
  <1> DEFINE s == proc[p]
  <1>0. LocalTyped(s)
    BY DEF RegistryInv, ProcTyped
  <1>r. Real' = Real /\ Listed' = Listed
    BY DEF BeginBuild, Publish, Real, Readable, Listed
  <1>1. ASSUME NEW e \in Project, BeginBuild(p, e) PROVE SoloOf(p)'
    <2> DEFINE r == [Resting EXCEPT !.pc = "publish", !.op = "build", !.e = e, !.now = clock]
    <2>1. proc' = [proc EXCEPT ![p] = r] /\ s.pc = "idle"
      BY <1>1 DEF BeginBuild, Start, At
    <2>2. r.pc = "publish" /\ r.op = "build" /\ r.e = e
      BY DEF Resting
    <2> HIDE DEF r
    <2>3. proc'[p] = r /\ \A q \in Proc \ {p} : proc'[q] = proc[q]
      BY <2>1, OwnOf DEF RegistryInv
    <2>4. /\ dirs' = dirs \cup {e} /\ building' = building \cup {e}
          /\ UNCHANGED <<meta, indexed, link, file, tmp, manifest>>
      BY <1>1 DEF BeginBuild
    <2>5. RolesKept(proc[p])'
      BY <2>1, <2>2, <2>3, <2>4 DEF SoloOf, RolesKept, Manifesting
    <2>6. IndexedFirst(proc[p])'
      BY <2>1, <2>2, <2>3, <2>4 DEF SoloOf, IndexedFirst
    <2>7. ManifestKept(proc[p])'
      BY <1>r, <2>1, <2>2, <2>3, <2>4 DEF SoloOf, ManifestKept, Manifesting
    <2>8. LinksKept(proc[p])'
      BY <1>r, <2>1, <2>2, <2>3, <2>4 DEF SoloOf, LinksKept, Linked
    <2> QED
      BY <2>3, <2>5, <2>6, <2>7, <2>8 DEF SoloOf
  <1>2. CASE Publish(p)
    <2> DEFINE r == [s EXCEPT !.pc = "write_meta"]
    <2>1. s.pc = "publish" /\ s.e \in dirs /\ s.op = "build"
      BY <1>2 DEF Publish, At, SoloOf, IndexedFirst, RolesKept
    <2>2. proc' = [proc EXCEPT ![p] = r] /\ indexed' = indexed \cup {s.e}
          /\ UNCHANGED <<dirs, meta, building, link, file, tmp, manifest>>
      BY <1>2, <2>1 DEF Publish, Go
    <2>3. r.pc = "write_meta" /\ r.op = "build" /\ r.e = s.e
      BY <1>0, <2>1 DEF LocalTyped, Entire, Locals
    <2> HIDE DEF r
    <2>4. proc'[p] = r /\ \A q \in Proc \ {p} : proc'[q] = proc[q]
      BY <2>2, OwnOf DEF RegistryInv
    <2>5. RolesKept(proc[p])'
      BY <2>1, <2>2, <2>3, <2>4 DEF SoloOf, RolesKept, Manifesting
    <2>6. IndexedFirst(proc[p])'
      BY <2>1, <2>2, <2>3, <2>4 DEF SoloOf, IndexedFirst
    <2>7. ManifestKept(proc[p])'
      BY <1>r, <2>1, <2>2, <2>3, <2>4 DEF SoloOf, ManifestKept, Manifesting
    <2>8. LinksKept(proc[p])'
      BY <1>r, <2>1, <2>2, <2>3, <2>4 DEF SoloOf, LinksKept, Linked
    <2> QED
      BY <2>4, <2>5, <2>6, <2>7, <2>8 DEF SoloOf
  <1> QED
    BY <1>1, <1>2

(* The meta is opened: until it is written, its entry has none. *)
LEMMA OpensMetaSolo ==
    ASSUME RegistryInv, NEW p \in Proc, SoloOf(p), NEW r, proc' = [proc EXCEPT ![p] = r],
           meta' = [meta EXCEPT ![proc[p].e] = Torn],
           UNCHANGED <<dirs, indexed, building, link, file, tmp, manifest>>,
           proc[p].pc \in {"write_meta", "touch"},
           r.pc = "meta_body", r.op = proc[p].op, r.op \in {"build", "touch"}, r.e = proc[p].e,
           r.new = ~Readable(r.e), r.op = "touch" => Readable(r.e)
    PROVE  SoloOf(p)'
  <1> DEFINE s == proc[p]
             e == s.e
  <1>1. proc'[p] = r /\ \A q \in Proc \ {p} : proc'[q] = proc[q]
    BY OwnOf DEF RegistryInv
  <1>2. e \in Project /\ e \in indexed
    BY DEF RegistryInv, ProcTyped, LocalTyped, SoloOf, IndexedFirst
  <1>3. meta'[e] = Torn /\ \A x \in Project \ {e} : meta'[x] = meta[x]
    BY <1>2 DEF RegistryInv, DiskTyped
  <1>4. Real' = Real \ {e} /\ Listed' = Listed
    BY <1>3 DEF Real, Readable, Listed, Torn
  <1>5. Listed = Real /\ (Readable(e) <=> e \in Real)
    BY <1>2 DEF SoloOf, ManifestKept, Manifesting, Real
  <1>6. RolesKept(proc[p])'
    BY <1>1 DEF SoloOf, RolesKept
  <1>7. IndexedFirst(proc[p])'
    BY <1>1, <1>2, <1>3 DEF SoloOf, IndexedFirst
  <1>8. ManifestKept(proc[p])'
    <2>1. tmp = None /\ tmp' = None
      BY DEF SoloOf, ManifestKept
    <2>2. e \in Real <=> e \in Listed
      BY <1>5
    <2>3. (r.new <=> e \notin Listed) /\ (r.op = "touch" => ~r.new)
      BY <1>5, <2>2
    <2>4. Real' = Listed' \ {e}
      BY <1>4, <1>5
    <2> QED
      BY <1>1, <1>3, <1>4, <2>1, <2>3, <2>4 DEF ManifestKept, Manifesting
  <1>9. LinksKept(proc[p])'
    BY <1>1, <1>4, <1>5 DEF SoloOf, LinksKept, Linked
  <1> QED
    BY <1>1, <1>6, <1>7, <1>8, <1>9 DEF SoloOf

LEMMA MetaSolo ==
    ASSUME RegistryInv, NEW p \in Proc, SoloOf(p),
           (\E e \in Project : Touch(p, e)) \/ TouchMeta(p) \/ OpenMeta(p) \/ WriteMeta(p)
    PROVE  SoloOf(p)'
  <1> DEFINE s == proc[p]
  <1>0. LocalTyped(s)
    BY DEF RegistryInv, ProcTyped
  <1>1. ASSUME NEW e \in Project, Touch(p, e) PROVE SoloOf(p)'
    <2> DEFINE r == [Resting EXCEPT !.pc = "touch", !.op = "touch", !.e = e, !.now = clock]
    <2>1. proc' = [proc EXCEPT ![p] = r] /\ s.pc = "idle" /\ UNCHANGED disk
          /\ e \in indexed /\ Readable(e)
      BY <1>1 DEF Touch, Start, At
    <2>2. r.pc = "touch" /\ r.op = "touch" /\ r.e = e /\ r.new = FALSE
      BY DEF Resting
    <2> HIDE DEF r
    <2>3. proc'[p] = r /\ \A q \in Proc \ {p} : proc'[q] = proc[q]
      BY <2>1, OwnOf DEF RegistryInv
    <2>4. Real' = Real /\ Listed' = Listed /\ Readable(e)'
      BY <2>1 DEF Real, Readable, Listed, disk
    <2>5. RolesKept(proc[p])'
      BY <2>1, <2>2, <2>3 DEF SoloOf, RolesKept, Manifesting, disk
    <2>6. IndexedFirst(proc[p])'
      BY <2>1, <2>2, <2>3, <2>4 DEF SoloOf, IndexedFirst, disk
    <2>7. ManifestKept(proc[p])'
      BY <2>1, <2>2, <2>3, <2>4 DEF SoloOf, ManifestKept, Manifesting, disk
    <2>8. LinksKept(proc[p])'
      BY <2>1, <2>2, <2>3, <2>4 DEF SoloOf, LinksKept, Linked, disk
    <2> QED
      BY <2>3, <2>5, <2>6, <2>7, <2>8 DEF SoloOf
  <1>2. CASE TouchMeta(p)
    <2> DEFINE r == [s EXCEPT !.pc = "meta_body", !.now = clock]
    <2>1. s.pc = "touch" /\ s.e \in indexed /\ Readable(s.e) /\ s.e \in dirs
      BY <1>2 DEF TouchMeta, At, SoloOf, IndexedFirst, RegistryInv, DiskTyped
    <2>2. /\ proc' = [proc EXCEPT ![p] = r] /\ meta' = [meta EXCEPT ![s.e] = Torn]
          /\ UNCHANGED <<dirs, indexed, building, link, file, tmp, manifest>>
      BY <1>2, <2>1 DEF TouchMeta
    <2>3. r.pc = "meta_body" /\ r.op = s.op /\ r.e = s.e /\ r.new = s.new
      BY <1>0 DEF LocalTyped, Entire, Locals
    <2>4. s.op = "touch" /\ s.new = FALSE
      BY <2>1 DEF SoloOf, RolesKept
    <2> HIDE DEF r
    <2> QED
      BY <2>1, <2>2, <2>3, <2>4, OpensMetaSolo
  <1>3. CASE OpenMeta(p)
    <2> DEFINE r == [s EXCEPT !.pc = "meta_body", !.new = ~Readable(s.e), !.now = clock]
    <2>1. s.pc = "write_meta" /\ s.e \in indexed /\ s.e \in dirs /\ s.op = "build"
      BY <1>3 DEF OpenMeta, At, SoloOf, IndexedFirst, RolesKept, RegistryInv, DiskTyped
    <2>2. /\ proc' = [proc EXCEPT ![p] = r] /\ meta' = [meta EXCEPT ![s.e] = Torn]
          /\ UNCHANGED <<indexed, building, link, file, tmp, manifest>>
          /\ dirs' = dirs \cup {s.e}
      BY <1>3 DEF OpenMeta
    <2>3. r.pc = "meta_body" /\ r.op = s.op /\ r.e = s.e /\ r.new = ~Readable(s.e)
      BY <1>0 DEF LocalTyped, Entire, Locals
    <2> HIDE DEF r
    <2>4. dirs' = dirs
      BY <2>1, <2>2
    <2> QED
      BY <2>1, <2>2, <2>3, <2>4, OpensMetaSolo
  <1>4. CASE WriteMeta(p)
    <2> DEFINE e == s.e
               r == [s EXCEPT !.pc = "link"]
    <2>1. /\ s.pc = "meta_body" /\ e \in indexed /\ e \in Project
          /\ meta[e] = Torn /\ Real = Listed \ {e} /\ (s.new <=> e \notin Listed)
          /\ (s.op = "touch" => ~s.new) /\ s.op \in {"build", "touch"}
      BY <1>0, <1>4 DEF WriteMeta, At, SoloOf, IndexedFirst, ManifestKept, RolesKept, LocalTyped
    <2>2. /\ proc' = [proc EXCEPT ![p] = IF s.op = "touch" THEN Resting ELSE r]
          /\ meta' = [meta EXCEPT ![e] = s.now]
          /\ UNCHANGED <<dirs, indexed, building, link, file, tmp, manifest>>
      BY <1>4, <2>1 DEF WriteMeta, Go, Rest, NoMeta, Torn
    <2>3. r.pc = "link" /\ r.op = s.op /\ r.e = s.e /\ r.new = s.new
      BY <1>0 DEF LocalTyped, Entire, Locals
    <2> HIDE DEF r
    <2>4. /\ proc'[p] = IF s.op = "touch" THEN Resting ELSE r
          /\ \A q \in Proc \ {p} : proc'[q] = proc[q]
      BY <2>2, OwnOf DEF RegistryInv
    <2>5. s.now >= 0 /\ meta'[e] = s.now /\ \A x \in Project \ {e} : meta'[x] = meta[x]
      BY <1>0, <2>1, <2>2, RegistryAssumption
         DEF RegistryInv, DiskTyped, LocalTyped, RegistryAssumption
    <2>6. Real' = Real \cup {e} /\ Listed' = Listed
      BY <2>1, <2>2, <2>5 DEF Real, Readable, Listed
    <2>7. Resting.pc = "idle" /\ Resting.op = None
      BY DEF Resting
    <2>8. CASE s.op = "touch"
      <3>1. e \in Listed
        BY <2>1, <2>8 DEF SoloOf, ManifestKept
      <3>2. RolesKept(proc[p])'
        BY <2>1, <2>2, <2>4, <2>7, <2>8, RegistryAssumption
           DEF SoloOf, RolesKept, RegistryAssumption
      <3>3. IndexedFirst(proc[p])'
        BY <2>1, <2>2, <2>4, <2>5, <2>7, <2>8 DEF SoloOf, IndexedFirst
      <3>4. ManifestKept(proc[p])'
        BY <2>1, <2>2, <2>4, <2>6, <2>7, <2>8, <3>1 DEF SoloOf, ManifestKept, Manifesting
      <3>5. LinksKept(proc[p])'
        BY <2>1, <2>2, <2>4, <2>6, <2>7, <2>8 DEF SoloOf, LinksKept, Linked
      <3> QED
        BY <2>4, <3>2, <3>3, <3>4, <3>5 DEF SoloOf
    <2>9. CASE s.op = "build"
      <3>2. RolesKept(proc[p])'
        BY <2>1, <2>2, <2>3, <2>4, <2>9 DEF SoloOf, RolesKept
      <3>3. IndexedFirst(proc[p])'
        BY <2>1, <2>2, <2>3, <2>4, <2>5, <2>9 DEF SoloOf, IndexedFirst
      <3>4. ManifestKept(proc[p])'
        BY <2>1, <2>2, <2>3, <2>4, <2>6, <2>9 DEF SoloOf, ManifestKept, Manifesting
      <3>5. LinksKept(proc[p])'
        BY <2>1, <2>2, <2>3, <2>4, <2>6, <2>9 DEF SoloOf, LinksKept, Linked
      <3> QED
        BY <2>4, <2>7, <3>2, <3>3, <3>4, <3>5 DEF SoloOf
    <2> QED
      BY <2>1, <2>8, <2>9
  <1> QED
    BY <1>1, <1>2, <1>3, <1>4

(* A link is made: what the name led to before was nothing or the entry, so no other loses one. *)
LinkMade(e) ==
    /\ \A n \in DOMAIN link : link'[n] = link[n] \/ (link'[n] = e /\ link[n] \in {None, e})
    /\ \E n \in DOMAIN link : link'[n] = e
    /\ \A x \in Project : link'[x] \in {None, x}
    /\ DOMAIN link' = DOMAIN link

LEMMA LinkMadeKeepsLinks ==
    ASSUME NEW e, LinkMade(e), NEW x \in Project, Linked(x) \/ x = e PROVE Linked(x)'
  <1>1. x # None
    BY RegistryAssumption DEF RegistryAssumption
  <1>2. CASE x = e
    BY <1>2 DEF LinkMade, Linked
  <1>3. CASE x # e
    <2>1. PICK n \in DOMAIN link : link[n] = x
      BY <1>3 DEF Linked
    <2>2. link'[n] = x
      BY <1>1, <1>3, <2>1 DEF LinkMade
    <2> QED
      BY <2>1, <2>2 DEF LinkMade, Linked
  <1> QED
    BY <1>2, <1>3

(* The last step of a build of an entry that was there. *)
LEMMA EnsureLinkSolo ==
    ASSUME RegistryInv, NEW p \in Proc, SoloOf(p), EnsureLink(p) PROVE SoloOf(p)'
  <1> DEFINE s == proc[p]
             e == s.e
             slug == NameOf[e]
             r == [s EXCEPT !.pc = "list_manifest"]
  <1>0. LocalTyped(s)
    BY DEF RegistryInv, ProcTyped
  <1>1. /\ s.pc = "link" /\ e \in indexed /\ e \in dirs /\ e \in Project /\ s.op = "build"
        /\ building \subseteq {e} /\ slug \in Name
    BY <1>0, RegistryAssumption DEF EnsureLink, At, SoloOf, IndexedFirst, RolesKept, RegistryInv,
       DiskTyped, LocalTyped, RegistryAssumption
  <1>2. /\ Real = Listed \cup {e} /\ (s.new <=> e \notin Listed) /\ tmp = None
    BY <1>1 DEF SoloOf, ManifestKept
  <1>3. LinkMade(e)
    <2>1. /\ DOMAIN link = Name \cup Project /\ Name \cap Project = {}
          /\ \A x \in Project : link[x] \in {None, x}
      BY RegistryAssumption DEF RegistryAssumption, RegistryInv, DiskTyped, SoloOf, LinksKept
    <2>2. link' = CASE link[slug] = e -> link
                    [] link[slug] = None -> [link EXCEPT ![slug] = e]
                    [] OTHER -> [link EXCEPT ![e] = e]
      BY DEF EnsureLink
    <2>3. CASE link[slug] = e
      <3>1. link' = link
        BY <1>1, <2>2, <2>3, RegistryAssumption DEF RegistryAssumption
      <3> QED
        BY <1>1, <2>1, <2>3, <3>1 DEF LinkMade
    <2>4. CASE link[slug] # e /\ link[slug] = None
      <3>1. link' = [link EXCEPT ![slug] = e]
        BY <2>2, <2>4
      <3> QED
        BY <1>1, <2>1, <2>4, <3>1 DEF LinkMade
    <2>5. CASE link[slug] # e /\ link[slug] # None
      <3>1. link' = [link EXCEPT ![e] = e]
        BY <2>2, <2>5
      <3> QED
        BY <1>1, <2>1, <3>1 DEF LinkMade
    <2> QED
      BY <2>3, <2>4, <2>5
  <1>4. UNCHANGED <<dirs, meta, indexed, file, tmp, manifest>>
    BY DEF EnsureLink
  <1>5. Real' = Real /\ Listed' = Listed
    BY <1>4 DEF Real, Readable, Listed
  <1>6. LinksKept(proc[p])'
    <2> DEFINE u == IF s.new THEN r ELSE Resting
    <2>1. proc' = [proc EXCEPT ![p] = u]
      BY DEF EnsureLink, Go, Rest
    <2>2. u.pc \in {"idle", "list_manifest"}
      BY <1>0 DEF LocalTyped, Entire, Locals, Resting
    <2> HIDE DEF u
    <2>3. proc'[p].pc \in {"idle", "list_manifest"}
      BY <2>1, <2>2, OwnOf DEF RegistryInv
    <2>4. \A n \in DOMAIN link : link[n] # None => link[n] \in dirs
      BY <1>1 DEF SoloOf, LinksKept
    <2>5. \A n \in DOMAIN link' : link'[n] # None => link'[n] \in dirs'
      BY <1>1, <1>3, <1>4, <2>4 DEF LinkMade
    <2>6. \A x \in Real : Linked(x) \/ x = e
      BY <1>1 DEF SoloOf, LinksKept
    <2>7. \A x \in Real' : Linked(x)'
      BY <1>3, <1>5, <2>6, LinkMadeKeepsLinks DEF Real
    <2> QED
      BY <1>3, <2>3, <2>5, <2>7 DEF LinksKept, LinkMade
  <1>7. CASE s.new
    <2>1. proc' = [proc EXCEPT ![p] = r] /\ building' = building
      BY <1>7 DEF EnsureLink, Go
    <2>2. r.pc = "list_manifest" /\ r.op = s.op /\ r.e = s.e
      BY <1>0 DEF LocalTyped, Entire, Locals
    <2> HIDE DEF r
    <2>3. proc'[p] = r /\ \A q \in Proc \ {p} : proc'[q] = proc[q]
      BY <2>1, OwnOf DEF RegistryInv
    <2>4. RolesKept(proc[p])'
      BY <1>1, <2>1, <2>2, <2>3 DEF RolesKept, Manifesting
    <2>5. IndexedFirst(proc[p])'
      BY <1>1, <1>4, <2>2, <2>3 DEF SoloOf, IndexedFirst
    <2>6. ManifestKept(proc[p])'
      BY <1>2, <1>4, <2>2, <2>3 DEF ManifestKept, Manifesting
    <2> QED
      BY <1>6, <2>3, <2>4, <2>5, <2>6 DEF SoloOf
  <1>8. CASE ~s.new
    <2>1. proc' = [proc EXCEPT ![p] = Resting] /\ building' = {}
      BY <1>1, <1>8 DEF EnsureLink, Rest, EndBuild
    <2>2. Resting.pc = "idle" /\ Resting.op = None
      BY DEF Resting
    <2>3. proc'[p] = Resting /\ \A q \in Proc \ {p} : proc'[q] = proc[q]
      BY <2>1, OwnOf DEF RegistryInv
    <2>4. RolesKept(proc[p])'
      BY <2>1, <2>2, <2>3, RegistryAssumption DEF RolesKept, RegistryAssumption
    <2>5. IndexedFirst(proc[p])'
      BY <1>1, <1>4, <2>2, <2>3 DEF SoloOf, IndexedFirst
    <2>6. ManifestKept(proc[p])'
      BY <1>2, <1>4, <1>5, <1>8, <2>2, <2>3 DEF ManifestKept, Manifesting
    <2> QED
      BY <1>6, <2>3, <2>4, <2>5, <2>6 DEF SoloOf
  <1> QED
    BY <1>7, <1>8

(* The manifest is made anew of what has meta. *)
LEMMA ManifestSolo ==
    ASSUME RegistryInv, RegistryInv', NEW p \in Proc, SoloOf(p),
           ListManifest(p) \/ OpenTmp(p) \/ WriteTmp(p) \/ RenameTmp(p)
    PROVE  SoloOf(p)'
  <1> DEFINE s == proc[p]
             Sets(u) == proc' = [proc EXCEPT ![p] = u]
  <1>0. LocalTyped(s)
    BY DEF RegistryInv, ProcTyped
  <1>1. UNCHANGED <<dirs, meta, indexed, link>>
    BY DEF ListManifest, OpenTmp, WriteTmp, RenameTmp, disk
  <1>2. Real' = Real
    BY <1>1 DEF Real, Readable
  <1>3. s.pc \in Manifesting
    BY DEF ListManifest, OpenTmp, WriteTmp, RenameTmp, At, Manifesting
  <1>4. ASSUME NEW u, Sets(u), u.pc \in Manifesting \cup {"stamp", "idle"},
               u.op = "build" => u.op = s.op /\ u.e = s.e /\ u.pc \in Manifesting,
               building' \subseteq IF u.op = "build" THEN {u.e} ELSE {}, ManifestKept(proc[p])'
        PROVE  SoloOf(p)'
    <2>1. proc'[p] = u /\ \A q \in Proc \ {p} : proc'[q] = proc[q]
      BY <1>4, OwnOf DEF RegistryInv
    <2>2. RolesKept(proc[p])'
      BY <1>4, <2>1 DEF RolesKept, Manifesting
    <2>3. IndexedFirst(proc[p])'
      BY <1>1, <1>4, <2>1 DEF SoloOf, IndexedFirst, Manifesting
    <2>4. LinksKept(proc[p])'
      BY <1>1, <1>2, <1>3, <1>4, <2>1 DEF SoloOf, LinksKept, Linked, Manifesting
    <2> QED
      BY <1>4, <2>1, <2>2, <2>3, <2>4 DEF SoloOf
  <1>5. building \subseteq IF s.op = "build" THEN {s.e} ELSE {}
    BY DEF SoloOf, RolesKept
  <1>6. CASE ListManifest(p)
    <2> DEFINE l == {e \in dirs : Readable(e)}
               r == [s EXCEPT !.pc = "open_tmp", !.lists = l]
    <2>1. Sets(r) /\ s.pc = "list_manifest" /\ UNCHANGED <<tmp, building>>
      BY <1>6 DEF ListManifest, At, disk
    <2>2. l = Real
      BY DEF SoloOf, IndexedFirst, Real, Readable, NoMeta, RegistryInv, DiskTyped
    <2> HIDE DEF l
    <2>3. r.pc = "open_tmp" /\ r.lists = l /\ r.op = s.op /\ r.e = s.e
      BY <1>0 DEF LocalTyped, Entire, Locals
    <2> HIDE DEF r
    <2>4. proc'[p] = r
      BY <2>1, OwnOf DEF RegistryInv
    <2>5. ManifestKept(proc[p])'
      BY <1>2, <2>1, <2>2, <2>3, <2>4 DEF SoloOf, ManifestKept, Manifesting
    <2> QED
      BY <1>4, <1>5, <2>1, <2>3, <2>5 DEF Manifesting
  <1>7. CASE OpenTmp(p)
    <2> DEFINE r(i) == [s EXCEPT !.pc = "write_tmp", !.fd = i]
    <2>1. s.pc = "open_tmp" /\ building' = building
      BY <1>7 DEF OpenTmp, At
    <2>2. PICK i \in Inode : tmp' = i /\ Sets(r(i))
      BY <1>7, TmpIsFound
    <2>3. r(i).pc = "write_tmp" /\ r(i).fd = i /\ r(i).lists = s.lists /\ r(i).op = s.op /\ r(i).e = s.e
      BY <1>0 DEF LocalTyped, Entire, Locals
    <2> HIDE DEF r
    <2>4. proc'[p] = r(i)
      BY <2>2, OwnOf DEF RegistryInv
    <2>5. i # None
      BY RegistryAssumption DEF RegistryAssumption, Inode
    <2>6. ManifestKept(proc[p])'
      BY <1>2, <2>1, <2>2, <2>3, <2>4, <2>5 DEF SoloOf, ManifestKept, Manifesting
    <2> QED
      BY <1>4, <1>5, <2>1, <2>2, <2>3, <2>6 DEF Manifesting
  <1>8. CASE WriteTmp(p)
    <2> DEFINE r == [s EXCEPT !.pc = "rename", !.fd = None]
    <2>1. /\ Sets(r) /\ s.pc = "write_tmp" /\ UNCHANGED <<tmp, building>>
          /\ file' = [file EXCEPT ![s.fd] = s.lists]
      BY <1>8 DEF WriteTmp, At
    <2>2. r.pc = "rename" /\ r.op = s.op /\ r.e = s.e
      BY <1>0 DEF LocalTyped, Entire, Locals
    <2> HIDE DEF r
    <2>3. proc'[p] = r
      BY <2>1, OwnOf DEF RegistryInv
    <2>4. s.lists = Real /\ tmp # None /\ s.fd = tmp /\ tmp \in DOMAIN file
      BY <2>1 DEF SoloOf, ManifestKept, RegistryInv, DiskTyped
    <2>5. ManifestKept(proc[p])'
      BY <1>2, <2>1, <2>2, <2>3, <2>4 DEF ManifestKept, Manifesting
    <2> QED
      BY <1>4, <1>5, <2>1, <2>2, <2>5 DEF Manifesting
  <1>9. CASE RenameTmp(p)
    <2> DEFINE r == [s EXCEPT !.pc = "stamp"]
               u == IF s.op = "auto" THEN r ELSE Resting
    <2>1. /\ s.pc = "rename" /\ tmp # None /\ file[tmp] = Real
      BY <1>9 DEF RenameTmp, At, SoloOf, ManifestKept
    <2>2. Sets(u) /\ manifest' = tmp /\ tmp' = None /\ file' = file
      BY <1>9, <2>1 DEF RenameTmp, Go, Rest
    <2>3. building' = {}
      BY <1>5, <1>9 DEF RenameTmp
    <2>4. u.pc \in {"stamp", "idle"} /\ u.op # "build"
      BY <1>0, RegistryAssumption DEF LocalTyped, Entire, Locals, Resting, RegistryAssumption
    <2> HIDE DEF u
    <2>5. proc'[p] = u
      BY <2>2, OwnOf DEF RegistryInv
    <2>6. Listed' = Real'
      BY <1>2, <2>1, <2>2 DEF Listed
    <2>7. ManifestKept(proc[p])'
      BY <2>2, <2>4, <2>5, <2>6 DEF ManifestKept, Manifesting
    <2> QED
      BY <1>4, <2>2, <2>3, <2>4, <2>7
  <1> QED
    BY <1>6, <1>7, <1>8, <1>9

(* A collection removes entries; until it has made the links and the manifest anew, *)
(* these are behind. *)
LEMMA RemoveSolo ==
    ASSUME RegistryInv, NEW p \in Proc, SoloOf(p), Pruned(p) \/ Remove(p) \/ Wipe(p)
    PROVE  SoloOf(p)'
  <1> DEFINE s == proc[p]
             Sets(u) == proc' = [proc EXCEPT ![p] = u]
  <1>0. LocalTyped(s)
    BY DEF RegistryInv, ProcTyped
  <1>1. s.pc \in {"prune", "remove", "wipe"} => s.op # "build" /\ building = {} /\ tmp = None
    BY DEF SoloOf, RolesKept, ManifestKept, Manifesting
  <1>2. ASSUME NEW u, Sets(u), u.pc \in {"remove", "wipe"}, s.pc \in {"prune", "remove"},
               u.op = s.op, building' = {}, UNCHANGED <<link, file, tmp, manifest>>,
               \A e \in Project : meta'[e] # NoMeta => e \in indexed'
        PROVE  SoloOf(p)'
    <2>1. proc'[p] = u /\ \A q \in Proc \ {p} : proc'[q] = proc[q]
      BY <1>2, OwnOf DEF RegistryInv
    <2>2. RolesKept(proc[p])'
      BY <1>1, <1>2, <2>1 DEF RolesKept, Manifesting
    <2>3. IndexedFirst(proc[p])'
      BY <1>2, <2>1 DEF SoloOf, IndexedFirst
    <2>4. ManifestKept(proc[p])'
      BY <1>1, <1>2, <2>1 DEF SoloOf, ManifestKept, Manifesting
    <2>5. LinksKept(proc[p])'
      BY <1>2, <2>1 DEF SoloOf, LinksKept
    <2> QED
      BY <2>1, <2>2, <2>3, <2>4, <2>5 DEF SoloOf
  <1>3. CASE Pruned(p)
    <2> DEFINE r == [s EXCEPT !.pc = "remove", !.todo = s.drop]
               t == [s EXCEPT !.pc = "stamp"]
    <2>1. /\ Sets(r) \/ Sets(t) \/ Sets(Resting)
          /\ s.pc = "prune" /\ UNCHANGED disk
      BY <1>3 DEF Pruned, At, Go, Rest
    <2>2. /\ r.pc = "remove" /\ r.op = s.op /\ t.pc = "stamp" /\ t.op = s.op
          /\ Resting.pc = "idle" /\ Resting.op = None
      BY <1>0 DEF LocalTyped, Entire, Locals, Resting
    <2> HIDE DEF r, t
    <2>3. CASE Sets(r)
      <3>1. \A e \in Project : meta'[e] # NoMeta => e \in indexed'
        BY <2>1 DEF SoloOf, IndexedFirst, disk
      <3> QED
        BY <1>1, <1>2, <2>1, <2>2, <2>3, <3>1 DEF disk
    <2>4. CASE Sets(t)
      BY <1>1, <2>1, <2>2, <2>4, PlainSolo DEF disk, Plain
    <2>5. CASE Sets(Resting)
      BY <2>1, <2>2, <2>5, PlainSolo, RegistryAssumption DEF disk, Plain, RegistryAssumption
    <2> QED
      BY <2>1, <2>3, <2>4, <2>5
  <1>4. CASE Remove(p)
    <2> DEFINE r(t, label) == [s EXCEPT !.todo = t, !.pc = label]
    <2>1. PICK e \in s.todo :
             /\ proc' = [proc EXCEPT ![p].todo = @ \ {e},
                                     ![p].pc = IF s.todo = {e} THEN "wipe" ELSE @]
             /\ meta' = [meta EXCEPT ![e] = NoMeta]
             /\ indexed' = indexed \ {e} /\ building' = building \ {e}
      BY <1>4 DEF Remove
    <2>2. s.pc = "remove" /\ UNCHANGED <<link, file, tmp, manifest>>
      BY <1>4 DEF Remove, At
    <2>3. PICK label : label = IF s.todo = {e} THEN "wipe" ELSE s.pc
      OBVIOUS
    <2>4. PICK t : t = s.todo \ {e}
      OBVIOUS
    <2>5. Sets(r(t, label)) /\ label \in {"remove", "wipe"}
      BY <2>1, <2>2, <2>3, <2>4
    <2>6. r(t, label).pc = label /\ r(t, label).op = s.op
      BY <1>0 DEF LocalTyped, Entire, Locals
    <2> HIDE DEF r
    <2>7. e \in Project
      BY <1>0, <2>2 DEF LocalTyped
    <2>8. \A x \in Project : meta'[x] # NoMeta => x \in indexed'
      BY <2>1, <2>7 DEF SoloOf, IndexedFirst, RegistryInv, DiskTyped
    <2> QED
      BY <1>1, <1>2, <2>1, <2>2, <2>5, <2>6, <2>8
  <1>5. CASE Wipe(p)
    <2> DEFINE r == [s EXCEPT !.pc = "relink", !.todo = dirs, !.lists = {}]
    <2>1. /\ Sets(r) /\ s.pc = "wipe" /\ link' = [n \in DOMAIN link |-> None]
          /\ UNCHANGED <<dirs, meta, indexed, building, file, tmp, manifest>>
      BY <1>5 DEF Wipe, At
    <2>2. r.pc = "relink" /\ r.op = s.op /\ r.todo = dirs
      BY <1>0 DEF LocalTyped, Entire, Locals
    <2> HIDE DEF r
    <2>3. proc'[p] = r /\ \A q \in Proc \ {p} : proc'[q] = proc[q]
      BY <2>1, OwnOf DEF RegistryInv
    <2>4. DOMAIN link = Name \cup Project /\ dirs \subseteq Project /\ indexed \subseteq dirs
      BY DEF RegistryInv, DiskTyped
    <2>5. Real' = Real /\ Real \subseteq dirs
      BY <2>1, <2>4 DEF SoloOf, IndexedFirst, Real, Readable, NoMeta
    <2>6. RolesKept(proc[p])'
      BY <1>1, <2>1, <2>2, <2>3 DEF RolesKept, Manifesting
    <2>7. IndexedFirst(proc[p])'
      BY <2>1, <2>2, <2>3 DEF SoloOf, IndexedFirst
    <2>8. ManifestKept(proc[p])'
      BY <1>1, <2>1, <2>2, <2>3 DEF ManifestKept, Manifesting
    <2>9. LinksKept(proc[p])'
      BY <2>1, <2>2, <2>3, <2>4, <2>5 DEF LinksKept
    <2> QED
      BY <2>3, <2>6, <2>7, <2>8, <2>9 DEF SoloOf
  <1> QED
    BY <1>3, <1>4, <1>5

(* It makes the link of one entry after the other, each under a name not yet used. *)
LEMMA RelinkSolo ==
    ASSUME RegistryInv, NEW p \in Proc, SoloOf(p), Relink(p) \/ Relinked(p)
    PROVE  SoloOf(p)'
  <1> DEFINE s == proc[p]
             Sets(u) == proc' = [proc EXCEPT ![p] = u]
  <1>0. LocalTyped(s)
    BY DEF RegistryInv, ProcTyped
  <1>1. s.pc = "relink" /\ UNCHANGED <<dirs, meta, indexed, building, file, tmp, manifest>>
    BY DEF Relink, Relinked, At, disk
  <1>2. /\ s.op # "build" /\ building = {} /\ tmp = None
        /\ \A e \in Project : link[e] \in {None, e}
        /\ \A n \in DOMAIN link : link[n] # None => link[n] \in dirs /\ n \in s.lists
        /\ \A e \in s.todo : link[e] = None
        /\ \A e \in Real : e \in s.todo \/ Linked(e)
    BY <1>1 DEF SoloOf, RolesKept, ManifestKept, LinksKept, Manifesting
  <1>3. s.todo \subseteq dirs /\ s.todo \subseteq Project
    BY <1>0, <1>1 DEF SoloOf, IndexedFirst, LocalTyped
  <1>4. Real' = Real
    BY <1>1 DEF Real, Readable
  <1>5. DOMAIN link = Name \cup Project /\ Name \cap Project = {}
    BY RegistryAssumption DEF RegistryAssumption, RegistryInv, DiskTyped
  <1>6. CASE Relink(p)
    <2> DEFINE slug(e) == IF NameOf[e] \in s.lists THEN e ELSE NameOf[e]
               r(t, l) == [s EXCEPT !.todo = t, !.lists = l]
    <2>1. PICK e \in s.todo :
             /\ proc' = [proc EXCEPT ![p].todo = @ \ {e},
                                     ![p].lists = IF Readable(e) THEN @ \cup {slug(e)} ELSE @]
             /\ link' = IF Readable(e) /\ link[slug(e)] = None
                        THEN [link EXCEPT ![slug(e)] = e] ELSE link
      BY <1>6 DEF Relink
    <2>2. PICK l : l = IF Readable(e) THEN s.lists \cup {slug(e)} ELSE s.lists
      OBVIOUS
    <2>3. PICK t : t = s.todo \ {e}
      OBVIOUS
    <2>4. Sets(r(t, l))
      BY <2>1, <2>2, <2>3
    <2>5. r(t, l).pc = "relink" /\ r(t, l).op = s.op /\ r(t, l).todo = t /\ r(t, l).lists = l
      BY <1>0, <1>1 DEF LocalTyped, Entire, Locals
    <2>6. PICK u : u = r(t, l)
      OBVIOUS
    <2> HIDE DEF r
    <2>7. proc'[p] = u /\ \A q \in Proc \ {p} : proc'[q] = proc[q]
      BY <2>4, <2>6, OwnOf DEF RegistryInv
    <2>8. e \in Project /\ e \in dirs /\ NameOf[e] \in Name /\ slug(e) \in DOMAIN link
      BY <1>3, <1>5, RegistryAssumption DEF RegistryAssumption
    <2>9. link[slug(e)] = None
      BY <1>2, <1>5, <2>8
    <2>10. slug(e) = e \/ slug(e) \in Name
      BY <2>8
    <2>11. RolesKept(proc[p])'
      BY <1>1, <1>2, <2>5, <2>6, <2>7 DEF RolesKept, Manifesting
    <2>12. IndexedFirst(proc[p])'
      BY <1>1, <1>3, <2>3, <2>5, <2>6, <2>7 DEF SoloOf, IndexedFirst
    <2>13. ManifestKept(proc[p])'
      BY <1>1, <1>2, <2>5, <2>6, <2>7 DEF ManifestKept, Manifesting
    <2>14. LinksKept(proc[p])'
      <3>1. CASE Readable(e)
        <4>1. PICK sl : sl = slug(e)
          OBVIOUS
        <4> HIDE DEF slug
        <4>2. link' = [link EXCEPT ![sl] = e] /\ l = s.lists \cup {sl}
          BY <2>1, <2>2, <2>9, <3>1, <4>1
        <4>3. LinkMade(e)
          BY <1>2, <1>5, <2>8, <2>9, <2>10, <4>1, <4>2 DEF LinkMade
        <4>4. \A n \in DOMAIN link' : link'[n] # None => link'[n] \in dirs' /\ n \in l
          BY <1>1, <1>2, <2>8, <4>1, <4>2
        <4>5. \A x \in t : link'[x] = None
          BY <1>2, <1>3, <1>5, <2>3, <2>8, <2>10, <4>1, <4>2
        <4>6. \A x \in Real' : x \in t \/ Linked(x)'
          BY <1>2, <1>4, <2>3, <4>3, LinkMadeKeepsLinks DEF Real
        <4> QED
          BY <2>5, <2>6, <2>7, <4>3, <4>4, <4>5, <4>6 DEF LinksKept, LinkMade
      <3>2. CASE ~Readable(e)
        <4>1. link' = link /\ l = s.lists
          BY <2>1, <2>2, <3>2
        <4>2. e \notin Real
          BY <3>2 DEF Real
        <4> QED
          BY <1>1, <1>2, <1>4, <2>3, <2>5, <2>6, <2>7, <4>1, <4>2 DEF LinksKept, Linked
      <3> QED
        BY <3>1, <3>2
    <2> QED
      BY <2>7, <2>11, <2>12, <2>13, <2>14 DEF SoloOf
  <1>7. CASE Relinked(p)
    <2> DEFINE r == [s EXCEPT !.pc = "list_manifest"]
    <2>1. Sets(r) /\ s.todo = {} /\ link' = link
      BY <1>7 DEF Relinked, Go, disk
    <2>2. r.pc = "list_manifest" /\ r.op = s.op
      BY <1>0 DEF LocalTyped, Entire, Locals
    <2> HIDE DEF r
    <2>3. proc'[p] = r /\ \A q \in Proc \ {p} : proc'[q] = proc[q]
      BY <2>1, OwnOf DEF RegistryInv
    <2>4. RolesKept(proc[p])'
      BY <1>1, <1>2, <2>2, <2>3 DEF RolesKept, Manifesting
    <2>5. IndexedFirst(proc[p])'
      BY <1>1, <2>2, <2>3 DEF SoloOf, IndexedFirst
    <2>6. ManifestKept(proc[p])'
      BY <1>1, <1>2, <2>2, <2>3 DEF ManifestKept, Manifesting
    <2>7. LinksKept(proc[p])'
      BY <1>1, <1>2, <1>4, <2>1, <2>2, <2>3 DEF LinksKept, Linked
    <2> QED
      BY <2>3, <2>4, <2>5, <2>6, <2>7 DEF SoloOf
  <1> QED
    BY <1>6, <1>7

LEMMA NextSoloInv == RegistryInv /\ RegistryInv' /\ SoloInv /\ [Next]_vars => SoloInv'
  <1> SUFFICES ASSUME RegistryInv, RegistryInv', SoloInv, [Next]_vars PROVE SoloInv'
    OBVIOUS
  <1>1. solo' = solo
    <2>1. CASE Tick \/ \E e \in Project : MoveRoot(e)
      BY <2>1 DEF Tick, MoveRoot
    <2>2. CASE UNCHANGED vars
      BY <2>2 DEF vars, world
    <2>3. ASSUME NEW p \in Proc, Crash(p) PROVE solo' = solo
      BY <2>3 DEF Crash
    <2>4. ASSUME NEW p \in Proc, Step(p) PROVE solo' = solo
      BY <2>4 DEF Step, world, BeginBuild, Touch, Start, Publish, OpenMeta, WriteMeta, EnsureLink,
         TouchMeta, ListManifest, OpenTmp, WriteTmp, RenameTmp, Collect, TryAuto, RateLimit,
         ListEntries, ReadEntry, Decide, PruneOne, Pruned, Remove, Wipe, Relink, Relinked, Stamp,
         Unlock
    <2> QED
      BY <2>1, <2>2, <2>3, <2>4 DEF Next
  <1> SUFFICES ASSUME NEW p \in Proc, solo = p, p # None PROVE SoloOf(p)'
    BY <1>1 DEF SoloInv
  <1>2. SoloOf(p)
    BY DEF SoloInv
  <1>3. ASSUME UNCHANGED <<disk, proc>> PROVE SoloOf(p)'
    <2>1. Real' = Real /\ Listed' = Listed
      BY <1>3 DEF disk, Real, Readable, Listed
    <2>2. RolesKept(proc[p])'
      BY <1>2, <1>3 DEF SoloOf, RolesKept, disk
    <2>3. IndexedFirst(proc[p])'
      BY <1>2, <1>3 DEF SoloOf, IndexedFirst, Readable, disk
    <2>4. ManifestKept(proc[p])'
      BY <1>2, <1>3, <2>1 DEF SoloOf, ManifestKept, disk
    <2>5. LinksKept(proc[p])'
      BY <1>2, <1>3, <2>1 DEF SoloOf, LinksKept, Linked, disk
    <2> QED
      BY <1>2, <1>3, <2>2, <2>3, <2>4, <2>5 DEF SoloOf
  <1>4. CASE Tick \/ (\E e \in Project : MoveRoot(e)) \/ UNCHANGED vars
    BY <1>3, <1>4 DEF Tick, MoveRoot, vars
  <1>5. ASSUME NEW q \in Proc, Crash(q) PROVE FALSE
    BY <1>5 DEF Crash
  <1>6. ASSUME NEW q \in Proc \ {p}, Step(q) PROVE FALSE
    <2>1. proc[q].pc = "idle"
      BY <1>2 DEF SoloOf
    <2>2. PICK op, e, label : Start(q, op, e, label)
      BY <1>6, <2>1 DEF Step, At, BeginBuild, Touch, Publish, OpenMeta, WriteMeta, EnsureLink,
         TouchMeta, ListManifest, OpenTmp, WriteTmp, RenameTmp, Collect, TryAuto, RateLimit,
         ListEntries, ReadEntry, Decide, PruneOne, Pruned, Remove, Wipe, Relink, Relinked, Stamp,
         Unlock
    <2> QED
      BY <2>2 DEF Start
  <1>7. CASE Step(p)
    BY <1>2, <1>7, DecideSolo, BuildSolo, MetaSolo, EnsureLinkSolo, ManifestSolo, RemoveSolo,
       RelinkSolo DEF Step
  <1> QED
    BY <1>4, <1>5, <1>6, <1>7 DEF Next

(* A cache that one process at a time uses, for any number of entries, of which any may *)
(* share a name: at rest every entry with meta has an index and a link, every link      *)
(* leads to an entry, and the manifest lists the entries (build_index, ensure_link, gc, *)
(* rebuild_symlinks, rebuild_manifest).                                                 *)
THEOREM SoloRegistryIsExactHolds == Spec => []SoloRegistryIsExact
  <1>1. RegistryInv /\ SoloInv => SoloRegistryIsExact
    <2> SUFFICES ASSUME RegistryInv, SoloInv, solo /= None, At(solo, "idle")
                 PROVE  /\ \A e \in Project : Readable(e) => e \in indexed /\ Linked(e)
                        /\ \A n \in DOMAIN link : link[n] /= None => link[n] \in dirs
                        /\ Real = Listed
      BY DEF SoloRegistryIsExact, Linked, Real, Listed
    <2>1. PICK p \in Proc : p = solo
      BY DEF SoloInv
    <2>2. SoloOf(p) /\ proc[p].pc = "idle"
      BY <2>1 DEF SoloInv, At
    <2> QED
      BY <2>2 DEF SoloOf, IndexedFirst, ManifestKept, LinksKept, Manifesting, Real, Readable, NoMeta
  <1> QED
    BY <1>1, InitRegistryInv, NextRegistryInv, InitSoloInv, NextSoloInv, PTL DEF Spec
=============================================================================
