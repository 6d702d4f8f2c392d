----------------------------- MODULE MCRowLocks -----------------------------
EXTENDS RowLocks

CONSTANTS c1, c2, e1

MCOwnerOf == e1 :> c1
MCById == <<c1, c2>>
=============================================================================
