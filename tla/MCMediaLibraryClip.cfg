\* The same instance with a reservation of the clip that runs out at any time.
CONSTANTS
    x1 = x1
    up = up
    re1 = re1
    re2 = re2
    cl = cl
    a1 = a1
    a2 = a2
    b1 = b1
    b2 = b2
    k1 = k1
    e1 = e1
    Initial = {x1}
    Uploads = {up}
    Replaces = {re1, re2}
    Clips = {cl}
    Attempts = {a1, a2, b1, b2, k1}
    Deletions = {d1}
    Cancels = {e1}
    CommandOf <- MCCommandOf
    TargetOf <- MCTargetOf
    Bytes <- MCBytes
    Estimate <- MCEstimate
    Quota = 4
    MaxFaults = 1
    MaxRunning = 2
    Slow = {cl}
    None = None
SPECIFICATION Spec
INVARIANT QuotaHolds
INVARIANT NamedFilesExist
INVARIANT NothingLeftBehind
PROPERTY DeletedStaysDeleted
SYMMETRY MCSymmetry
CHECK_DEADLOCK FALSE
