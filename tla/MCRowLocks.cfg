\* Two transactions, two characters, one entry.
CONSTANTS
    Transactions = {t1, t2}
    Campaign = campaign
    Graph = graph
    Characters = {c1, c2}
    Entries = {e1}
    c1 = c1
    c2 = c2
    e1 = e1
    OwnerOf <- MCOwnerOf
    ById <- MCById
SPECIFICATION Spec
INVARIANT AreaJoinsNoCircle
CHECK_DEADLOCK FALSE
