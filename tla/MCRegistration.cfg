\* Two addresses, two names, two codes, two requests, every fault.
SPECIFICATION Spec
SYMMETRY Symmetry
CONSTANTS
    Email = {e1, e2}
    Name = {n1, n2}
    Password = {p1}
    Code = {c1, c2}
    Req = {r1, r2}
    None = None
    Ops = {"send", "register"}
    Faults = {"redis", "db", "mail", "crash"}
    MaxConns = 2
    MaxTime = 1
    CodeTTL = 1
INVARIANTS
    TypeOK
    StoredWasMailed
    SuccessIsCommitted
    OneWinner
    HoldersOnly
PROPERTY Promises
