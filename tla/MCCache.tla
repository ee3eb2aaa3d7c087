------------------------------- MODULE MCCache -------------------------------
EXTENDS CacheRegistry, TLC
CONSTANTS p1, p2, e1, e2, e3, web
TwoWebs == e1 :> web @@ e2 :> web
Symmetry == Permutations({p1, p2}) \cup Permutations({e1, e2})
Ones == e1 :> 1 @@ e2 :> 1
=============================================================================
