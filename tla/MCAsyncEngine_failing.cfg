\* One command that fails.
CONSTANTS
    Threads = {t1}
    LbaCount = 3
    Parts = {p1, p2}
    MaxLbas = 2
    QueueDepth = 2
    MaxTransfer = 3
    MaxCalls = 2
    DeviceFailures = 1
    SubmitFailures = 0
SPECIFICATION Spec
INVARIANT WritesReachTheDevice
CHECK_DEADLOCK FALSE
