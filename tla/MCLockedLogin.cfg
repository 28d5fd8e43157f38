\* No fault at all: an administrator locks an account that logs in later.
SPECIFICATION Spec
CONSTANTS
    User = {a1, u1}
    Admin = {a1}
    Req = {r1, r2}
    None = None
    Ops = {"login", "tick"}
    Faults = {}
    MaxConns = 2
    MaxTime = 0
    AccessTTL = 1
    RefreshTTL = 1
    RenewWindow = 0
PROPERTY LockedLoginRefused
