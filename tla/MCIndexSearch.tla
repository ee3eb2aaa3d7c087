--------------------------- MODULE MCIndexSearch ----------------------------
(* IndexSearch on a project of two or three files and two text words.       *)
EXTENDS IndexSearch

CONSTANTS f1, f2, f3, u, v, bin

TwoFiles == <<f1, f2>>
ThreeFiles == <<f1, f2, f3>>

\* Contents of one length.
SameLength == [w \in Word |-> 1]

\* The text words are interchangeable.
Symmetry == Permutations({u, v})

Crashing == {"crash"}
=============================================================================
