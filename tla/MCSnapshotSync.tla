--------------------------- MODULE MCSnapshotSync ---------------------------
EXTENDS SnapshotSync, TLC

CONSTANTS t1, t2, d1, f1, c1, c2

MCTokens == {t1, t2}
MCInitial == {t1}

(* The sockets of a broadcast are interchangeable.                         *)
MCSymmetry == Permutations(Clients)
=============================================================================
