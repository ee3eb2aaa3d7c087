--------------------------- MODULE MCIndexBuilder ---------------------------
(* IndexBuilder on a project of two or three files and two text words.      *)
EXTENDS IndexBuilder

CONSTANTS f1, f2, f3, u, v, bin

TwoFiles == <<f1, f2>>
ThreeFiles == <<f1, f2, f3>>

\* Contents of one length, or each of its own.
SameLength == [w \in Word |-> 1]
OwnLength == [w \in Word |-> IF w = u THEN 1 ELSE IF w = v THEN 2 ELSE 3]

\* The text words are interchangeable where they are of one length.
Symmetry == Permutations({u, v})

CrashesAndRaces == {"crash", "race"}
UnrulyGit == {"git", "unruly"}
=============================================================================
