\* Two clients with a transaction each; the car manager may stop answering.
CONSTANTS
    c1 = c1
    c2 = c2
    reaper = reaper
    f = f
    k = k
    u = u
    Client = {c1, c2}
    Reaper = reaper
    Xid = {c1, c2}
    Key = {f, k, u}
    Op <- CoreOps
    Serves <- Own
    MayCrash = {"Car"}
    SlowCalls = FALSE
SPECIFICATION Spec
INVARIANTS TypeOK LocksOfLive Isolation NoLostUpdate AllOrNothing
PROPERTIES OneOutcome ImplementsTransactionStore
SYMMETRY OwnSymmetry
CHECK_DEADLOCK FALSE
