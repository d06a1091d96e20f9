\* One thread per transaction; liveness, hence no symmetry.
CONSTANTS
    t1 = t1
    t2 = t2
    d1 = d1
    Thread = {t1, t2}
    Xid = {t1, t2}
    Data = {d1}
    Shared = {}
    hashCode <- DistinctHash
    Serves <- Own
    Timeout = 1
SPECIFICATION FairSpec
PROPERTIES LockEnds
CHECK_DEADLOCK FALSE
