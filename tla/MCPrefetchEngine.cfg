\* Two threads and three LBAs, transfers of one or two: a prefetch that fits the
\* next read, one that is too long or too short for it, and one past the end.
\* The behaviour ends when a queue has no context left.
CONSTANTS
    Threads = {t1, t2}
    LbaCount = 3
    QueueDepth = 2
    MaxIoLbas = 2
    MaxWrites = 1
SYMMETRY Symmetry
SPECIFICATION Spec
INVARIANTS
    ReadsTheirLbas
    OwnWritesAreSeen
    WaitsAreAnswered
    UndefinedOnlyAfterRefusals
CHECK_DEADLOCK FALSE
