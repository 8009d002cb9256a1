\* One key, two workers and the updater; the clock only moves forward.
\* Two creations and a deletion; a budget as large as their number.
\* Cancellations of one peer and up to two sessions.
SPECIFICATION RecoverySpec
CONSTANTS
    Keys = {k1}
    w1 = w1
    w2 = w2
    up = up
    Workers = {w1, w2, up}
    opOwner = opOwner
    holdOwner = holdOwner
    Owners <- MCOwners
    OwnerOf <- MCOwnerOf
    Hold = holdOwner
    NoOwner = NoOwner
    NoWorker = NoWorker
    Times <- MCTimes
    TTLs <- MCTTLs
    MaxEpoch = 3
    MonotoneClock = TRUE
    Creations = {1, 3}
    Deletions = {2}
    MaxOperations = 3
    Sids = {1, 2}
    CPlans <- MCCPlans
INVARIANTS LeaseInv FenceHoldsToCommit CancelInv
PROPERTIES LiveLeaseIsNotStolen FencedSpec PassMissesNothing AttemptedUnlessSomeRaise CancellationSettles
