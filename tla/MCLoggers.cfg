\* Two loggers, which share a slice or not, two writers, every level and one that is none.
SPECIFICATION Spec
CHECK_DEADLOCK FALSE
SYMMETRY Symmetry
CONSTANTS
    Logger = {l1, l2}
    Slice = {s1, s2}
    Writer = {stdout, file}
    Stdout = stdout
    None = None
    Levels = {"trace", "debug", "info", "warn", "error", "panic", "fatal", "other"}
INVARIANTS
    TypeOK
    AloneKeepsSettings
    NothingLost
