---------------------------- MODULE MCBugReports ----------------------------
EXTENDS BugReports, TLC
CONSTANTS first, second, rival, f1, u1, u2

\* Two texts of the same date, and an edit of the first one.
MCSourceRev == (first :> 1) @@ (second :> 2) @@ (rival :> 2)
MCAttached == (first :> {f1}) @@ (second :> {}) @@ (rival :> {})
MCArrives == (u1 :> {first, rival}) @@ (u2 :> {second})

Symmetry == Permutations(Workers)
=============================================================================
