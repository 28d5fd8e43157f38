\* A connection is opened and returned between the two reads.  The process
\* may exit.
SPECIFICATION Spec
CHECK_DEADLOCK FALSE
CONSTANTS
    Handler = {h1, h2}
    MaxConns = 2
    PoolSize = 3
    Word = 16
    Outage = {}
    None = None
INVARIANT NoUnderflow
