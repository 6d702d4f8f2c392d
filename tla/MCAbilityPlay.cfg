SPECIFICATION Spec
CONSTANTS
    c1 = c1
    c2 = c2
    strike = strike
    song = song
    flask = flask
    Characters = {c1, c2}
    Entries = {strike, song, flask}
    Holder <- MCHolder
    Cost <- MCCost
    Counted = {strike}
    Area = {song}
    Reach <- MCReach
    Crafted = {flask}
    Actions = {a1, a2, a3}
    Requests = {r1, r2}
    Dice = {1}
    MaxPool = 2
    MaxUses = 2
    MaxEdits = 1
    None = None
SYMMETRY Symmetry
INVARIANT UsesAreAccounted
INVARIANT ItemIsSpentOnce
PROPERTY KeepsLedger
CHECK_DEADLOCK FALSE
