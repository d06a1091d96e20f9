\* Two threads make calls for one transaction tx, a third for its own.
CONSTANTS
    t1 = t1
    t2 = t2
    t3 = t3
    tx = tx
    d1 = d1
    Thread = {t1, t2, t3}
    Xid = {tx, t3}
    Data = {d1}
    Shared = {t1, t2}
    hashCode <- DistinctHash
    Serves <- OwnOrShared
    Timeout = 1
SPECIFICATION Spec
INVARIANTS TypeOK MutualExclusion OneLockPerItem NoDoubleWaiter
PROPERTIES ImplementsService
SYMMETRY SharedSymmetry
CHECK_DEADLOCK FALSE
