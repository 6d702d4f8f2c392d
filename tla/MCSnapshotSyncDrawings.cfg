SPECIFICATION Spec
CONSTANTS
    t1 = t1
    t2 = t2
    d1 = d1
    f1 = f1
    c1 = c1
    c2 = c2
    Tokens <- MCTokens
    Drawings = {d1}
    Fogs = {f1}
    Clients = {c1}
    Initial <- MCInitial
    MaxSeq = 2
    MaxFailures = 0
INVARIANT AllDrawingsConverge
CHECK_DEADLOCK FALSE
