------------------------------- MODULE History -------------------------------
(***************************************************************************)
(* What the usage history promises: a run appends one entry, once, or none *)
(* when it dies before or cannot write, and nothing but clearing the log   *)
(* takes an entry out of it.                                               *)
(***************************************************************************)
EXTENDS Sequences

CONSTANT Run

VARIABLES log, running

HInit == log \in Seq(Run) /\ running = {}

HBegin(r) == r \notin running /\ running' = running \cup {r} /\ UNCHANGED log
HRecord(r) == r \in running /\ running' = running \ {r} /\ log' = Append(log, r)
HLeave(r) == r \in running /\ running' = running \ {r} /\ UNCHANGED log
HClear == log' = <<>> /\ UNCHANGED running

HNext == HClear \/ \E r \in Run : HBegin(r) \/ HRecord(r) \/ HLeave(r)

HSpec == HInit /\ [][HNext]_<<log, running>>
=============================================================================
