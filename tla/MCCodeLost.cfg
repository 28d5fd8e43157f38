\* No fault of a store: a password that bcrypt refuses, over 72 bytes, is
\* found out after the code is gone.
SPECIFICATION Spec
CONSTANTS
    Email = {e1, e2}
    Name = {n1}
    Password = {p1}
    Code = {c1, c2}
    Req = {r1, r2}
    None = None
    Ops = {"send", "register"}
    Faults = {}
    MaxConns = 2
    MaxTime = 0
    CodeTTL = 1
PROPERTY FailureKeepsCode
