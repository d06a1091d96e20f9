\* Transactions that make a customer, and abort.
CONSTANTS
    c1 = c1
    c2 = c2
    reaper = reaper
    f = f
    k = k
    u = u
    Client = {c1, c2}
    Reaper = reaper
    Xid = {c1, c2}
    Key = {k, u}
    Op <- CustomerOps
    Serves <- Own
    MayCrash = {}
    SlowCalls = FALSE
SPECIFICATION Spec
INVARIANTS AbortIsComplete
SYMMETRY OwnSymmetry
CHECK_DEADLOCK FALSE
