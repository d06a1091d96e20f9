\* Both clients make calls for both transactions, however long they take.
CONSTANTS
    c1 = c1
    c2 = c2
    reaper = reaper
    f = f
    k = k
    u = u
    Client = {c1, c2}
    Reaper = reaper
    Xid = {c1, c2}
    Key = {k}
    Op <- ChangeOps
    Serves <- Shared
    MayCrash = {}
    SlowCalls = TRUE
SPECIFICATION Spec
INVARIANTS NoDirtyRead
SYMMETRY OwnSymmetry
CHECK_DEADLOCK FALSE
