--------------------------- MODULE MCSecCatalog ---------------------------
EXTENDS SecCatalog, TLC

CONSTANTS a1, a2, a3, p1, p2

\* Two activities for one product, the third for another.
MCProductOf == (a1 :> p1) @@ (a2 :> p1) @@ (a3 :> p2)

Symmetry == Permutations(Services) \cup Permutations({a1, a2})
=============================================================================
