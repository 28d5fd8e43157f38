\* One account, three requests on two pooled connections, every operation that
\* waits for a connection or for the row, and Tick: progress under fairness.
\* Two requests inside gdb.Transaction can wait for one row while the third
\* waits for the pool.
SPECIFICATION FairSpec
CONSTANTS
    User = {u1}
    Admin = {u1}
    Req = {r1, r2, r3}
    None = None
    Ops = {"login", "logout", "upload", "details", "tick"}
    Faults = {}
    MaxConns = 2
    MaxTime = 0
    AccessTTL = 1
    RefreshTTL = 1
    RenewWindow = 0
INVARIANT SomeoneRuns
PROPERTIES
    EveryRequestEnds
    LockedAccountDrains
