\* Three handlers that may keep what they hold, two database connections, two
\* Redis connections, both dependencies failing and recovering.  The process
\* may exit.
SPECIFICATION FairSpec
CHECK_DEADLOCK FALSE
CONSTANTS
    Handler = {h1, h2, h3}
    MaxConns = 2
    PoolSize = 2
    Word = 16
    Outage = {"db", "redis"}
    None = None
INVARIANTS
    TypeOK
    ReportAgrees
PROPERTIES
    ActiveIsRight
    HealthEnds
