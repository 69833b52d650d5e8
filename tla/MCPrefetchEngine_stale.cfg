\* Two threads at the same two LBAs.
CONSTANTS
    Threads = {t1, t2}
    LbaCount = 2
    QueueDepth = 2
    MaxIoLbas = 1
    MaxWrites = 2
SPECIFICATION Spec
INVARIANT ReadsAreCurrent
CHECK_DEADLOCK FALSE
