\* One thread per transaction; liveness, hence no symmetry.
CONSTANTS
    t1 = t1
    t2 = t2
    d1 = d1
    d2 = d2
    Thread = {t1, t2}
    Xid = {t1, t2}
    Data = {d1, d2}
    Shared = {}
    hashCode <- DistinctHash
    Serves <- Own
    Timeout = 1
SPECIFICATION FairSpec
INVARIANTS NoLeftovers
PROPERTIES Strict GrantedIsHeld LockEndsOrMonitorDeadlock
CHECK_DEADLOCK FALSE
