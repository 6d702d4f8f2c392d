--------------------------- MODULE MCAbilityPlay ---------------------------
EXTENDS AbilityPlay, TLC
CONSTANTS c1, c2, strike, song, flask

MCHolder == (strike :> c1) @@ (song :> c2) @@ (flask :> c1)
MCCost == (strike :> 1) @@ (song :> 1) @@ (flask :> 0)
MCReach == song :> {c1, c2}

Symmetry == Permutations(Actions) \cup Permutations(Requests)
=============================================================================
