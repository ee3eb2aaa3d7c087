------------------------------ MODULE MCRecords ------------------------------
EXTENDS RunRecords, TLC
CONSTANTS p1, p2, f1, test, old
Symmetry == Permutations({p1, p2})
=============================================================================
