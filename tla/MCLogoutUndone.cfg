\* No fault at all: a rotation in flight while the account logs out.
SPECIFICATION Spec
CONSTANTS
    User = {u1}
    Admin = {}
    Req = {r1, r2}
    None = None
    Ops = {"login", "logout", "refresh"}
    Faults = {}
    MaxConns = 2
    MaxTime = 1
    AccessTTL = 1
    RefreshTTL = 1
    RenewWindow = 0
INVARIANT LogoutEndsSession
