\* One client works for two transactions and may go away; the car manager may
\* stop.  Liveness, hence no symmetry.
CONSTANTS
    c1 = c1
    x1 = x1
    x2 = x2
    reaper = reaper
    f = f
    k = k
    u = u
    Client = {c1}
    Reaper = reaper
    Xid = {x1, x2}
    Key = {k, u}
    Op <- LiveOps
    Serves <- Shared
    MayCrash = {"Car"}
    SlowCalls = FALSE
SPECIFICATION FairSpec
INVARIANTS LocksOfLive
PROPERTIES AbandonedGivesBack ImplementsLockService
CHECK_DEADLOCK FALSE
