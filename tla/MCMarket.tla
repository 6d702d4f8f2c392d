------------------------------ MODULE MCMarket ------------------------------
EXTENDS Market, TLC
CONSTANTS c1, c2, i1, i2, i3, i4

MCOwner == (i1 :> None) @@ (i2 :> c1) @@ (i3 :> None) @@ (i4 :> None)
MCStock == (i1 :> 2) @@ (i2 :> 1) @@ (i3 :> None) @@ (i4 :> None)

Symmetry == Permutations(Actions) \cup Permutations(Quotes) \cup Permutations(Edits)
                \cup Permutations(Characters) \cup Permutations({i3, i4})
=============================================================================
