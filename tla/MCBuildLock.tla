----------------------------- MODULE MCBuildLock -----------------------------
(* BuildLock with the constants scaled down and their order kept:           *)
(* PidWriteGrace < AcquireTimeout < StaleAge.                               *)
EXTENDS BuildLock, TLC

CONSTANTS p1, p2, p3

TwoProcs == {p1, p2}
ThreeProcs == {p1, p2, p3}
Symmetry == Permutations(Proc)

CrashFaults == {"crash", "recycle"}
=============================================================================
