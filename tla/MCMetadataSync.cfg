\* Two threads and a file of two LBAs: one loop can overtake the other between
\* its load and its compare-and-swap, and two syncs overlap each other and the
\* calls in every way.
CONSTANTS
    Threads = {t1, t2}
    Syncers = {s1, s2}
    FileLbas = 2
    MaxCalls = 2
    MaxSyncs = 2
SPECIFICATION FairSyncSpec
PROPERTIES
    SyncedLocationIsRecent
    LocationIsWatermark
    RaisedOverData
    CallsReturn
CHECK_DEADLOCK FALSE
