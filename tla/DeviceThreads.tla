----------------------------- MODULE DeviceThreads -----------------------------
(***************************************************************************)
(* What the threads of the process share in NvmeDevice: the thread index,   *)
(* which selects the queue of an asynchronous engine, and the device        *)
(* buffers of the two allocators.  The index and the cache of the caching   *)
(* allocator are thread_local and static: one per thread for all NvmeDevice *)
(* objects, of which each activate_nvmefs makes one.  A transfer takes its  *)
(* buffer, then its queue, and gives the buffer back; what is submitted in  *)
(* between is in AsyncEngine and PrefetchEngine.                            *)
(***************************************************************************)
EXTENDS Integers, Sequences, FiniteSets

CONSTANTS
    Threads,
    Kinds,         \* the combinations of engine and allocator that are configured
    Devices,       \* bound: the NvmeDevice objects that exist at a time
    MaxThreads,    \* max_threads, the length of queues
    CounterSize,   \* thread_id_counter wraps here: 2^64
    MaxDraws,      \* bound: how often the counter of a device is counted up
    CacheDepth,    \* BUFFER_CACHE_DEPTH
    BlockSize,     \* DUCKDB_BLOCK_SIZE
    Sizes,         \* of the buffers asked for
    Buffers,       \* bound: the device buffers that exist at a time
    None, Gone

ASSUME DeviceAssumption ==
    /\ MaxThreads \in Nat \ {0}
    /\ CounterSize \in Nat \ {0}
    /\ Kinds \subseteq [engine : {"async", "sync"}, cached : BOOLEAN]
    /\ CacheDepth \in Nat
    /\ MaxDraws \in Nat
    /\ Sizes \subseteq Nat
    /\ None \notin Nat
    /\ {None, Gone} \cap Devices = {}

Slots == 0 .. MaxThreads - 1

VARIABLES
    kind,     \* of each device that is open: its engine and its allocator
    start,    \* thread_id_counter is not initialised: what it is at first
    draws,    \* how often it was counted up
    queues,   \* the elements of queues that are not null
    index,    \* index of each thread
    origin,   \* history: the device an index was taken from
    cache,    \* ThreadLocalCache of each thread
    heap,     \* the size of each buffer that exists
    call      \* the transfer each thread is in

vars == <<kind, start, draws, queues, index, origin, cache, heap, call>>
bufferVars == <<cache, heap>>
indexVars == <<start, draws, index, origin>>

Idle == [at |-> "idle"]
Places == {"queue", "init", "transfer"}
Calls == {Idle} \cup [at : Places, device : Devices, size : Sizes, buffer : Buffers]
InCall(t) == call[t] # Idle

Open == DOMAIN kind
Become(t, c) == call' = [call EXCEPT ![t] = c]
Goto(t, place) == Become(t, [call[t] EXCEPT !.at = place])

Init ==
    /\ kind = <<>>
    /\ start = [d \in Devices |-> 0]
    /\ draws = [d \in Devices |-> 0]
    /\ queues = [d \in Devices |-> {}]
    /\ index = [t \in Threads |-> None]
    /\ origin = [t \in Threads |-> None]
    /\ cache = [t \in Threads |-> <<>>]
    /\ heap = <<>>
    /\ call = [t \in Threads |-> Idle]

-----------------------------------------------------------------------------
(* Thread indexes and queues.                                              *)

thread_id_counter(d) == (start[d] + draws[d]) % CounterSize

\* Mutants: the counter is not taken modulo max_threads; it is not counted up.
TakeCounter(t, d, counter) ==
    /\ draws[d] < MaxDraws
    /\ index' = [index EXCEPT ![t] = counter]
    /\ origin' = [origin EXCEPT ![t] = d]
    /\ draws' = [draws EXCEPT ![d] = @ + 1]
TakeSameIndex(t, d, counter) ==
    /\ draws[d] < MaxDraws
    /\ index' = [index EXCEPT ![t] = start[d] % MaxThreads]
    /\ origin' = [origin EXCEPT ![t] = d]
    /\ draws' = [draws EXCEPT ![d] = @ + 1]

TakeIndex(t, d, counter) ==
    /\ draws[d] < MaxDraws
    /\ index' = [index EXCEPT ![t] = counter % MaxThreads]
    /\ origin' = [origin EXCEPT ![t] = d]
    /\ draws' = [draws EXCEPT ![d] = @ + 1]

\* The index of a thread is that of the first device that asks for one.
GetThreadIndex(t, d) ==
    IF index[t] # None THEN UNCHANGED <<index, origin, draws>>
    ELSE TakeIndex(t, d, thread_id_counter(d))

\* The constructor, by which first is in thread_id_counter; it takes an index
\* for the thread that runs it.
OpenDevice(t, d, k, first) ==
    /\ ~InCall(t)
    /\ d \notin Open
    /\ kind' = [e \in Open \cup {d} |-> IF e = d THEN k ELSE kind[e]]
    /\ start' = [start EXCEPT ![d] = first]
    /\ IF index[t] # None THEN UNCHANGED <<index, origin, draws>>
       ELSE TakeIndex(t, d, first)
    /\ UNCHANGED <<queues, bufferVars, call>>

CloseDevice(d) ==
    /\ d \in Open
    /\ \A t \in Threads : InCall(t) => call[t].device # d
    /\ kind' = [e \in Open \ {d} |-> kind[e]]
    /\ queues' = [queues EXCEPT ![d] = {}]
    /\ start' = [start EXCEPT ![d] = 0]
    /\ draws' = [draws EXCEPT ![d] = 0]
    /\ origin' = [t \in Threads |-> IF origin[t] = d THEN Gone ELSE origin[t]]
    /\ UNCHANGED <<index, bufferVars, call>>

\* A new thread may take its place.  The index is gone, and so is the cache: its
\* buffers leak, and are in the model no longer.
ThreadEnds(t) ==
    /\ ~InCall(t)
    /\ index' = [index EXCEPT ![t] = None]
    /\ origin' = [origin EXCEPT ![t] = None]
    /\ cache' = [cache EXCEPT ![t] = <<>>]
    /\ heap' = [b \in DOMAIN heap \ {cache[t][n] : n \in DOMAIN cache[t]} |-> heap[b]]
    /\ UNCHANGED <<kind, start, draws, queues, call>>

-----------------------------------------------------------------------------
(* Device buffers.                                                         *)

Cacheable(d, size) == kind[d].cached /\ size = BlockSize

\* AllocateDeviceBuffer, the first step of Read and of Write.
Start(t, d, size, b) ==
    Become(t, [at |-> IF kind[d].engine = "sync" THEN "transfer" ELSE "queue",
               device |-> d, size |-> size, buffer |-> b])

TakeCached(t, d, size) ==
    /\ ~InCall(t) /\ d \in Open
    /\ Cacheable(d, size) /\ cache[t] # <<>>
    /\ Start(t, d, size, cache[t][Len(cache[t])])
    /\ cache' = [cache EXCEPT ![t] = SubSeq(@, 1, Len(@) - 1)]
    /\ UNCHANGED <<kind, queues, indexVars, heap>>

\* xnvme_buf_alloc
Allocate(t, d, size) ==
    /\ ~InCall(t) /\ d \in Open
    /\ ~(Cacheable(d, size) /\ cache[t] # <<>>)
    /\ \E b \in Buffers \ DOMAIN heap :
        /\ heap' = [c \in DOMAIN heap \cup {b} |-> IF c = b THEN size ELSE heap[c]]
        /\ Start(t, d, size, b)
    /\ UNCHANGED <<kind, queues, indexVars, cache>>

\* Mutant: a buffer of any size is kept.
FreeAnySize(t) ==
    IF kind[call[t].device].cached /\ Len(cache[t]) < CacheDepth
    THEN /\ cache' = [cache EXCEPT ![t] = Append(@, call[t].buffer)]
         /\ UNCHANGED heap
    ELSE /\ heap' = [b \in DOMAIN heap \ {call[t].buffer} |-> heap[b]]
         /\ UNCHANGED cache

\* FreeDeviceBuffer with the size of the call.
Free(t) ==
    IF Cacheable(call[t].device, call[t].size) /\ Len(cache[t]) < CacheDepth
    THEN /\ cache' = [cache EXCEPT ![t] = Append(@, call[t].buffer)]
         /\ UNCHANGED heap
    ELSE /\ heap' = [b \in DOMAIN heap \ {call[t].buffer} |-> heap[b]]
         /\ UNCHANGED cache

-----------------------------------------------------------------------------
(* A transfer of an asynchronous engine.                                   *)

\* The thread takes its queue, or finds that it has to be made...
TakeQueue(t) ==
    /\ call[t].at = "queue"
    /\ GetThreadIndex(t, call[t].device)
    /\ Goto(t, IF index'[t] \in queues[call[t].device] THEN "transfer" ELSE "init")
    /\ UNCHANGED <<kind, start, queues, bufferVars>>

\* ... which xnvme_queue_init does, without a lock...
InitQueue(t) ==
    /\ call[t].at = "init"
    /\ queues' = [queues EXCEPT ![call[t].device] = @ \cup {index[t]}]
    /\ Goto(t, "transfer")
    /\ UNCHANGED <<kind, indexVars, bufferVars>>

\* ... or not, and the call throws; before it, so may the read of a partial write.
TransferFails(t) ==
    /\ call[t].at \in {"queue", "init"}
    /\ Free(t)
    /\ Become(t, Idle)
    /\ UNCHANGED <<kind, queues, indexVars>>

\* The transfer is over, or has failed.
Return(t) ==
    /\ call[t].at = "transfer"
    /\ Free(t)
    /\ Become(t, Idle)
    /\ UNCHANGED <<kind, queues, indexVars>>

Next ==
    \/ \E t \in Threads, d \in Devices :
        \/ \E k \in Kinds, first \in 0 .. CounterSize - 1 : OpenDevice(t, d, k, first)
        \/ \E size \in Sizes : TakeCached(t, d, size) \/ Allocate(t, d, size)
    \/ \E d \in Devices : CloseDevice(d)
    \/ \E t \in Threads :
        ThreadEnds(t) \/ TakeQueue(t) \/ InitQueue(t) \/ TransferFails(t) \/ Return(t)

Spec == Init /\ [][Next]_vars

-----------------------------------------------------------------------------
TypeOK ==
    /\ Open \subseteq Devices
    /\ kind \in [Open -> Kinds]
    /\ start \in [Devices -> 0 .. CounterSize - 1]
    /\ draws \in [Devices -> Nat]
    /\ queues \in [Devices -> SUBSET Slots]
    /\ index \in [Threads -> Slots \cup {None}]
    /\ origin \in [Threads -> Devices \cup {None, Gone}]
    /\ cache \in [Threads -> Seq(Buffers)]
    /\ \A t \in Threads : Len(cache[t]) <= CacheDepth
    /\ DOMAIN heap \subseteq Buffers
    /\ heap \in [DOMAIN heap -> Sizes]
    /\ call \in [Threads -> Calls]

\* Device d has counted up to max_threads threads, without a wrap.
HasQueuesForAll(d) == draws[d] <= MaxThreads /\ start[d] + draws[d] <= CounterSize

InQueue(t, d) == InCall(t) /\ call[t].device = d /\ call[t].at \in {"init", "transfer"}
                 /\ kind[d].engine = "async"

\* A queue has no lock: no two threads that have their index from the device
\* make one, or are in one, at the same time, as long as no more than
\* max_threads have taken theirs there.  Threads beyond that share a queue, also
\* when others have ended since, and so do those whose index is of another
\* NvmeDevice.
QueuesAreNotShared ==
    \A d \in Open : HasQueuesForAll(d) =>
        \A t, u \in Threads :
            /\ t # u
            /\ InQueue(t, d) /\ origin[t] = d
            /\ InQueue(u, d) /\ origin[u] = d
            => index[t] # index[u]

\* The places a buffer is in.
Holders(b) == {t \in Threads : InCall(t) /\ call[t].buffer = b}
Cached(b) == {p \in Threads \X (1 .. CacheDepth) :
                p[2] <= Len(cache[p[1]]) /\ cache[p[1]][p[2]] = b}

\* A buffer that exists is held by one call or is one entry of one cache, and
\* one that does not is in none: it is handed out once, and freed once.  What a
\* call holds has the size it asked for.
BuffersHaveOnePlace ==
    /\ \A b \in Buffers :
        Cardinality(Holders(b)) + Cardinality(Cached(b)) = (IF b \in DOMAIN heap THEN 1 ELSE 0)
    /\ \A t \in Threads : InCall(t) => heap[call[t].buffer] = call[t].size
=============================================================================
