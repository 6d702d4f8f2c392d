SPECIFICATION Spec
CONSTANTS
    first = first
    second = second
    rival = rival
    f1 = f1
    u1 = u1
    u2 = u2
    Payloads = {first, second, rival}
    SourceRev <- MCSourceRev
    Attached <- MCAttached
    Files = {f1}
    Updates = {u1, u2}
    Arrives <- MCArrives
    Workers = {w1, w2}
    MaxRev = 6
    MaxVariants = 1
    None = None
SYMMETRY Symmetry
INVARIANT NewestSourceWins
INVARIANT LinkedIsDelivered
INVARIANT UnknownCanBeResolved
PROPERTY KeepsConsent
CHECK_DEADLOCK FALSE
