\* One account, two requests in flight, every fault.
SPECIFICATION Spec
SYMMETRY Symmetry
CONSTANTS
    User = {u1}
    Admin = {u1}
    Req = {r1, r2}
    None = None
    Ops = {"login", "logout", "refresh", "tick"}
    Faults = {"redis", "db", "crash"}
    MaxConns = 2
    MaxTime = 2
    AccessTTL = 2
    RefreshTTL = 2
    RenewWindow = 1
INVARIANTS
    TypeOK
    TxDiscipline
    KeyLifetime
    OnlineIsReachable
    OfflineHasNoKey
    SoloOutcome
PROPERTIES
    TokensDoNotReturn
    LivesInStages
    LockedStayOut
