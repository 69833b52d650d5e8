\* Three LBAs in chunks of two: transfers of one and of two commands, in a queue
\* that holds just one transfer; one failure of the device and one refused
\* submission.  The behaviour ends with the last call.
CONSTANTS
    Threads = {t1, t2}
    LbaCount = 3
    Parts = {p1, p2}
    MaxLbas = 2
    QueueDepth = 2
    MaxTransfer = 3
    MaxCalls = 2
    DeviceFailures = 1
    SubmitFailures = 1
SPECIFICATION FairSpec
INVARIANTS
    TypeOK
    ReadsAreExact
    WritesAreExact
    SyncWritesReachTheDevice
    UndefinedOnlyAfterRefusal
PROPERTY CallsReturn
CHECK_DEADLOCK FALSE
