SPECIFICATION Spec
CONSTANTS
    c1 = c1
    c2 = c2
    i1 = i1
    i2 = i2
    i3 = i3
    i4 = i4
    Characters = {c1}
    Items = {i1, i2, i3, i4}
    Actions = {a1, a2, a3}
    Quotes = {q1, q2}
    Upgrades = {u1}
    Edits = {e1}
    Stock <- MCStock
    Owner <- MCOwner
    Listed = i1
    Quantities = {1}
    StartPrice = 1
    Coins = {0}
    Prices = {1, 2}
    StartCoins = 3
    StartSP = 1
    Fee = 1
    None = None
SYMMETRY Symmetry
INVARIANT TypeOK
INVARIANT JournalAddsUp
INVARIANT ObjectKeepsItsItem
PROPERTY SoldAsShown
CHECK_DEADLOCK FALSE
