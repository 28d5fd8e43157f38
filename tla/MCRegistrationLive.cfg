\* Two pooled connections, three requests: progress under fairness, waiting
\* for a connection and for the transaction of a rival.
SPECIFICATION FairSpec
CONSTANTS
    Email = {e1}
    Name = {n1}
    Password = {p1}
    Code = {c1}
    Req = {r1, r2, r3}
    None = None
    Ops = {"send", "register"}
    Faults = {"db"}
    MaxConns = 2
    MaxTime = 0
    CodeTTL = 1
PROPERTY EveryRequestEnds
