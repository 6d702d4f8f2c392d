SPECIFICATION FairSpec
CONSTANTS
    Users = {u1}
    Ids = {m1, m2}
    Workers = {w1, w2}
    MaxAttempts = 2
    Batch = 2
    ForeignKey = {m2}
INVARIANT TypeOK
INVARIANT OneLiveCredential
INVARIANT OpenMailCarriesUnusedToken
INVARIANT SealedWhileOpen
INVARIANT BoundedDispatch
INVARIANT AcceptedWasDelivered
PROPERTY KeepsPromise
PROPERTY EveryMailSettles
