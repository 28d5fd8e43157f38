\* No fault at all: the tokens of a session run out, its status does not.
SPECIFICATION Spec
CONSTANTS
    User = {u1}
    Admin = {}
    Req = {r1, r2}
    None = None
    Ops = {"login", "logout"}
    Faults = {}
    MaxConns = 2
    MaxTime = 3
    AccessTTL = 1
    RefreshTTL = 2
    RenewWindow = 0
INVARIANT OnlineHasSession
