\* Two threads at two devices with two queues each.  The counter wraps at an odd
\* number, so that the wrap breaks the order of the indexes.
CONSTANTS
    t1 = t1
    t2 = t2
    b1 = b1
    b2 = b2
    d1 = d1
    d2 = d2
    Threads = {t1, t2}
    Kinds <- TwoKinds
    Devices = {d1, d2}
    MaxThreads = 2
    CounterSize = 3
    MaxDraws = 2
    CacheDepth = 1
    BlockSize = 2
    Sizes = {1, 2}
    Buffers = {b1, b2}
    None = None
    Gone = Gone
SPECIFICATION Spec
SYMMETRY Alike
INVARIANTS
    TypeOK
    QueuesAreNotShared
    BuffersHaveOnePlace
CHECK_DEADLOCK FALSE
