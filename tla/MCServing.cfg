\* Two children, two requests, LOG_LEVEL below the levels of the access log
\* and at the top of them, and one that cannot be parsed.
SPECIFICATION FairSpec
CHECK_DEADLOCK FALSE
CONSTANTS
    Master = master
    Child = {c1, c2}
    Req = {r1, r2}
    None = None
    LogLevels = {"debug", "error", "unreadable"}
INVARIANTS
    TypeOK
    CutsAreExcused
    ClientCanTell
    AnswerIsLogged
PROPERTIES
    DrainEnds
    ServiceEnds
