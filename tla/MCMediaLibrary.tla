--------------------------- MODULE MCMediaLibrary ---------------------------
EXTENDS MediaLibrary, TLC

CONSTANTS x1, up, re1, re2, cl, a1, a2, b1, b2, k1, e1

MCCommandOf == a1 :> up @@ a2 :> up @@ b1 :> re1 @@ b2 :> re2 @@ k1 :> cl
MCTargetOf == re1 :> x1 @@ re2 :> x1 @@ e1 :> cl
MCBytes == x1 :> 2 @@ up :> 1 @@ re1 :> 3 @@ re2 :> 1 @@ cl :> 1
MCEstimate == cl :> 2
MCSymmetry == Permutations({a1, a2})
=============================================================================
