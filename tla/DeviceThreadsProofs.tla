-------------------------- MODULE DeviceThreadsProofs --------------------------
(***************************************************************************)
(* Proof that threads do not share a queue, and that each device buffer is *)
(* handed out once, for any number of threads, devices, queues and buffers.*)
(***************************************************************************)
EXTENDS DeviceThreads, SequenceTheorems, FiniteSetTheorems, TLAPS

\* Numbers that are less than m apart differ modulo m.
LEMMA CloseNumbersDiffer ==
    ASSUME NEW m \in Nat \ {0}, NEW a \in Nat, NEW b \in Nat, a < b, b < a + m
    PROVE  a % m # b % m
<1>1. PICK p \in Int : a = m * p + (a % m) /\ a % m \in 0 .. m - 1
  <2>1. a = m * (a \div m) + (a % m) /\ a \div m \in Int /\ a % m \in 0 .. m - 1
    BY SMTT(30)
  <2>2. QED
    BY <2>1
<1>2. PICK q \in Int : b = m * q + (b % m) /\ b % m \in 0 .. m - 1
  <2>1. b = m * (b \div m) + (b % m) /\ b \div m \in Int /\ b % m \in 0 .. m - 1
    BY SMTT(30)
  <2>2. QED
    BY <2>1
<1>3. SUFFICES ASSUME a % m = b % m PROVE FALSE
  OBVIOUS
<1>4. 0 < m * q - m * p /\ m * q - m * p < m
  BY <1>1, <1>2, <1>3, SMTT(30)
<1>5. m * q - m * p = m * (q - p)
  BY SMTT(30)
<1>6. q - p \in Int /\ 0 < m * (q - p) /\ m * (q - p) < m
  BY <1>4, <1>5, SMTT(30)
<1>7. \A k \in Int : k <= 0 => m * k <= 0
  BY SMTT(30)
<1>8. \A k \in Int : k >= 1 => m * k >= m
  BY SMTT(30)
<1>9. QED
  BY <1>6, <1>7, <1>8, SMTT(30)

-----------------------------------------------------------------------------
\* What the proof needs of the types.
IndexTypeOK ==
    /\ start \in [Devices -> 0 .. CounterSize - 1]
    /\ draws \in [Devices -> Nat]
    /\ index \in [Threads -> Slots \cup {None}]
    /\ origin \in [Threads -> Devices \cup {None, Gone}]

\* The index that the n-th thread gets from device d, if the counter does not wrap.
Drawn(d, n) == (start[d] + n) % MaxThreads

\* Thread t has one of the indexes that d has given so far, and no other has it.
OwnIndex(t, d) ==
    /\ \E n \in Nat : n < draws[d] /\ index[t] = Drawn(d, n)
    /\ \A u \in Threads \ {t} : origin[u] = d => index[t] # index[u]

OwnIndexes(d) ==
    HasQueuesForAll(d) => \A t \in Threads : origin[t] = d => OwnIndex(t, d)

\* A device that is not open has given no index that is still in use.
Given == \A t \in Threads : origin[t] \in Devices => origin[t] \in Open

IndexInv ==
    /\ IndexTypeOK
    /\ Given
    /\ \A d \in Devices : OwnIndexes(d)

LEMMA Modulo == \A a \in Nat : a % MaxThreads \in Slots
BY DeviceAssumption, SMTT(30) DEF Slots

LEMMA IndexesInitially == Init => IndexInv
<1> SUFFICES ASSUME Init PROVE IndexInv
  OBVIOUS
<1>1. 0 \in 0 .. CounterSize - 1 /\ 0 \in Nat
  BY DeviceAssumption, SMT
<1>2. None \notin Devices
  BY DeviceAssumption
<1>3. IndexTypeOK
  BY <1>1 DEF Init, IndexTypeOK
<1>4. Given /\ \A d \in Devices : OwnIndexes(d)
  BY <1>2 DEF Init, Given, OwnIndexes
<1>5. QED
  BY <1>3, <1>4 DEF IndexInv

\* A step that leaves the indexes alone.
LEMMA IndexesStay ==
    ASSUME IndexInv, UNCHANGED indexVars, Open' = Open
    PROVE  IndexInv'
<1>1. UNCHANGED <<start, draws, index, origin>>
  BY DEF indexVars
<1>2. IndexTypeOK' /\ Given'
  BY <1>1 DEF IndexInv, IndexTypeOK, Given
<1>3. \A d \in Devices : OwnIndexes(d)'
  BY <1>1 DEF IndexInv, OwnIndexes, OwnIndex, HasQueuesForAll, Drawn
<1>4. QED
  BY <1>2, <1>3 DEF IndexInv

\* A thread without an index takes the one that its device's counter is at.
LEMMA DrawKeeps ==
    ASSUME IndexInv, NEW t \in Threads, NEW d \in Devices,
           TakeIndex(t, d, thread_id_counter(d)),
           start' = start, Open' = Open, d \in Open
    PROVE  IndexInv'
<1> DEFINE counter == thread_id_counter(d)
<1>1. /\ start \in [Devices -> 0 .. CounterSize - 1]
      /\ draws \in [Devices -> Nat]
      /\ index \in [Threads -> Slots \cup {None}]
      /\ origin \in [Threads -> Devices \cup {None, Gone}]
  BY DEF IndexInv, IndexTypeOK
<1>2. start[d] \in Nat /\ start[d] < CounterSize /\ draws[d] \in Nat
  BY <1>1, DeviceAssumption, SMT
<1>3. counter \in Nat
  BY <1>2, DeviceAssumption, SMTT(30) DEF thread_id_counter
<1>4. counter % MaxThreads \in Slots
  BY <1>3, Modulo
<1> HIDE DEF counter
<1>5. /\ index' = [index EXCEPT ![t] = counter % MaxThreads]
      /\ origin' = [origin EXCEPT ![t] = d]
      /\ draws' = [draws EXCEPT ![d] = @ + 1]
  BY DEF TakeIndex, counter
<1>6. draws'[d] = draws[d] + 1 /\ \A e \in Devices \ {d} : draws'[e] = draws[e]
  BY <1>1, <1>5
<1>7. /\ origin'[t] = d /\ index'[t] = counter % MaxThreads
      /\ \A u \in Threads \ {t} : origin'[u] = origin[u] /\ index'[u] = index[u]
  BY <1>1, <1>5
<1>8. IndexTypeOK'
  <2>1. draws' \in [Devices -> Nat]
    BY <1>1, <1>2, <1>5
  <2>2. QED
    BY <1>1, <1>4, <1>5, <2>1 DEF IndexTypeOK
<1>9. Given'
  BY <1>7 DEF IndexInv, Given
<1>10. ASSUME NEW e \in Devices \ {d} PROVE OwnIndexes(e)'
  <2> SUFFICES ASSUME HasQueuesForAll(e)', NEW u \in Threads, origin'[u] = e
               PROVE  OwnIndex(u, e)'
    BY DEF OwnIndexes
  <2>1. u # t /\ origin[u] = e /\ index'[u] = index[u]
    BY <1>7
  <2>2. HasQueuesForAll(e)
    BY <1>6 DEF HasQueuesForAll
  <2>3. OwnIndex(u, e)
    BY <2>1, <2>2 DEF IndexInv, OwnIndexes
  <2>4. \A v \in Threads \ {u} : origin'[v] = e => index'[u] # index'[v]
    BY <1>7, <2>1, <2>3 DEF OwnIndex
  <2>5. QED
    BY <1>6, <2>1, <2>3, <2>4 DEF OwnIndex, Drawn
<1>11. OwnIndexes(d)'
  <2> SUFFICES ASSUME HasQueuesForAll(d)', NEW u \in Threads, origin'[u] = d
               PROVE  OwnIndex(u, d)'
    BY DEF OwnIndexes
  <2>1. draws[d] + 1 <= MaxThreads /\ start[d] + draws[d] + 1 <= CounterSize
    BY <1>2, <1>6, DeviceAssumption, SMT DEF HasQueuesForAll
  <2>2. HasQueuesForAll(d)
    BY <1>2, <2>1, DeviceAssumption, SMT DEF HasQueuesForAll
  <2>3. counter = start[d] + draws[d]
    BY <1>2, <2>1, DeviceAssumption, SMTT(30) DEF counter, thread_id_counter
  <2>4. index'[t] = Drawn(d, draws[d])
    BY <1>7, <2>3 DEF Drawn
  <2>5. ASSUME NEW v \in Threads \ {t}, origin[v] = d
        PROVE  OwnIndex(v, d) /\ index[v] # index'[t]
    <3>1. OwnIndex(v, d)
      BY <2>2, <2>5 DEF IndexInv, OwnIndexes
    <3>2. PICK n \in Nat : n < draws[d] /\ index[v] = Drawn(d, n)
      BY <3>1 DEF OwnIndex
    <3>3. /\ start[d] + n \in Nat /\ start[d] + draws[d] \in Nat
          /\ start[d] + n < start[d] + draws[d]
          /\ start[d] + draws[d] < start[d] + n + MaxThreads
          /\ MaxThreads \in Nat \ {0}
      BY <1>2, <2>1, <3>2, DeviceAssumption, SMT
    <3>4. Drawn(d, n) # Drawn(d, draws[d])
      BY <3>3, CloseNumbersDiffer DEF Drawn
    <3>5. QED
      BY <2>4, <3>1, <3>2, <3>4
  <2>6. CASE u = t
    <3>1. \A v \in Threads \ {t} : origin'[v] = d => index'[t] # index'[v]
      BY <1>7, <2>5
    <3>2. draws[d] < draws'[d]
      BY <1>2, <1>6, SMT
    <3>3. \E n \in Nat : n < draws'[d] /\ index'[t] = Drawn(d, n)'
      BY <1>2, <2>4, <3>2 DEF Drawn
    <3>4. QED
      BY <1>2, <2>6, <3>1, <3>2, <3>3 DEF OwnIndex
  <2>7. CASE u # t
    <3>1. origin[u] = d /\ index'[u] = index[u]
      BY <1>7, <2>7
    <3>2. OwnIndex(u, d) /\ index[u] # index'[t]
      BY <2>5, <2>7, <3>1
    <3>3. \A v \in Threads \ {u} : origin'[v] = d => index'[u] # index'[v]
      BY <1>7, <3>1, <3>2 DEF OwnIndex
    <3>4. PICK n \in Nat : n < draws[d] /\ index[u] = Drawn(d, n)
      BY <3>2 DEF OwnIndex
    <3>5. n < draws'[d] /\ index'[u] = Drawn(d, n)'
      BY <1>2, <1>6, <3>1, <3>4, SMT DEF Drawn
    <3>6. QED
      BY <3>3, <3>5 DEF OwnIndex
  <2>8. QED
    BY <2>6, <2>7
<1>12. QED
  BY <1>8, <1>9, <1>10, <1>11 DEF IndexInv

-----------------------------------------------------------------------------
(* Types.                                                                  *)

DeviceTypeOK ==
    /\ Open \subseteq Devices
    /\ kind \in [Open -> Kinds]
    /\ queues \in [Devices -> SUBSET Slots]

BufferTypeOK ==
    /\ cache \in [Threads -> Seq(Buffers)]
    /\ \A t \in Threads : Len(cache[t]) <= CacheDepth
    /\ DOMAIN heap \subseteq Buffers
    /\ heap \in [DOMAIN heap -> Sizes]

\* A transfer is at a device that is open, and has an index before it makes a
\* queue.
CallsAreSound ==
    /\ call \in [Threads -> Calls]
    /\ \A t \in Threads : InCall(t) =>
        call[t].device \in Open /\ (call[t].at = "init" => index[t] # None)

LEMMA Types == TypeOK <=> DeviceTypeOK /\ IndexTypeOK /\ BufferTypeOK /\ call \in [Threads -> Calls]
BY DEF TypeOK, DeviceTypeOK, IndexTypeOK, BufferTypeOK

LEMMA CallFields ==
    ASSUME NEW c \in Calls, c # Idle
    PROVE  /\ c.at \in Places /\ c.device \in Devices /\ c.size \in Sizes /\ c.buffer \in Buffers
           /\ c = [at |-> c.at, device |-> c.device, size |-> c.size, buffer |-> c.buffer]
BY DEF Calls

\* A call goes to another place.
LEMMA GotoFields ==
    ASSUME NEW c \in Calls, c # Idle, NEW place \in Places
    PROVE  /\ [c EXCEPT !.at = place] \in Calls
           /\ [c EXCEPT !.at = place].device = c.device
           /\ [c EXCEPT !.at = place].at = place
BY DEF Calls

LEMMA CallBecomes ==
    ASSUME CallsAreSound, NEW t \in Threads, NEW c \in Calls, Become(t, c)
    PROVE  /\ call' \in [Threads -> Calls]
           /\ call'[t] = c
           /\ \A u \in Threads \ {t} : call'[u] = call[u]
BY DEF CallsAreSound, Become

LEMMA IdleIsCall == Idle \in Calls
BY DEF Calls

\* A call ends.
LEMMA CallEnds ==
    ASSUME CallsAreSound, NEW t \in Threads, Become(t, Idle), UNCHANGED index, Open' = Open
    PROVE  CallsAreSound'
<1>1. /\ call' \in [Threads -> Calls]
      /\ call'[t] = Idle
      /\ \A u \in Threads \ {t} : call'[u] = call[u]
  BY CallBecomes, IdleIsCall
<1>2. QED
  BY <1>1 DEF CallsAreSound, InCall

\* FreeDeviceBuffer keeps to the depth of the cache.
LEMMA FreeKeeps ==
    ASSUME BufferTypeOK, CallsAreSound, NEW t \in Threads, InCall(t), Free(t)
    PROVE  BufferTypeOK'
<1>1. call[t].buffer \in Buffers
  BY CallFields DEF CallsAreSound, InCall
<1>2. CASE UNCHANGED heap /\ cache' = [cache EXCEPT ![t] = Append(@, call[t].buffer)]
           /\ Len(cache[t]) < CacheDepth
  <2>1. cache[t] \in Seq(Buffers)
    BY DEF BufferTypeOK
  <2>2. /\ Append(cache[t], call[t].buffer) \in Seq(Buffers)
        /\ Len(Append(cache[t], call[t].buffer)) = Len(cache[t]) + 1
    BY <1>1, <2>1, AppendProperties
  <2>3. Len(cache[t]) \in Nat
    BY <2>1, LenProperties
  <2>4. Len(Append(cache[t], call[t].buffer)) <= CacheDepth
    BY <1>2, <2>2, <2>3, DeviceAssumption, SMT
  <2>5. /\ cache'[t] = Append(cache[t], call[t].buffer)
        /\ \A u \in Threads \ {t} : cache'[u] = cache[u]
        /\ cache' \in [Threads -> Seq(Buffers)]
    BY <1>2, <2>2 DEF BufferTypeOK
  <2>6. QED
    BY <1>2, <2>4, <2>5 DEF BufferTypeOK
<1>3. CASE UNCHANGED cache /\ heap' = [b \in DOMAIN heap \ {call[t].buffer} |-> heap[b]]
  <2>1. DOMAIN heap' = DOMAIN heap \ {call[t].buffer}
    BY <1>3
  <2>2. \A b \in DOMAIN heap' : heap'[b] \in Sizes
    BY <1>3, <2>1 DEF BufferTypeOK
  <2>3. heap' = [b \in DOMAIN heap' |-> heap'[b]]
    BY <1>3, <2>1
  <2>4. heap' \in [DOMAIN heap' -> Sizes]
    BY <2>2, <2>3
  <2>5. QED
    BY <1>3, <2>1, <2>4 DEF BufferTypeOK
<1>4. QED
  BY <1>2, <1>3 DEF Free

-----------------------------------------------------------------------------
(* The inductive invariant, action by action.                              *)

IInv ==
    /\ DeviceTypeOK
    /\ BufferTypeOK
    /\ CallsAreSound
    /\ IndexInv

LEMMA Initially == Init => IInv
<1> SUFFICES ASSUME Init PROVE IInv
  OBVIOUS
<1>1. DOMAIN kind = {} /\ DOMAIN heap = {}
  BY EmptySeq, LenProperties, SMT DEF Init
<1>2. DeviceTypeOK
  BY <1>1 DEF Init, DeviceTypeOK, Open
<1>3. BufferTypeOK
  <2>1. <<>> \in Seq(Buffers) /\ Len(<<>>) = 0 /\ 0 <= CacheDepth
    BY EmptySeq, DeviceAssumption, SMT
  <2>2. cache \in [Threads -> Seq(Buffers)] /\ \A t \in Threads : Len(cache[t]) <= CacheDepth
    BY <2>1 DEF Init
  <2>3. heap \in [DOMAIN heap -> Sizes]
    BY <1>1 DEF Init
  <2>4. QED
    BY <1>1, <2>2, <2>3 DEF BufferTypeOK
<1>4. CallsAreSound
  BY IdleIsCall DEF Init, CallsAreSound, InCall
<1>5. QED
  BY <1>2, <1>3, <1>4, IndexesInitially DEF IInv

\* Only the device whose counter starts has a new start, and no thread has an
\* index from it.
LEMMA StartKeepsOthers ==
    ASSUME IndexInv, NEW d \in Devices, NEW first, d \notin Open,
           start' = [start EXCEPT ![d] = first], UNCHANGED <<draws, index, origin>>
    PROVE  \A e \in Devices : OwnIndexes(e)'
<1>1. \A e \in Devices \ {d} : start'[e] = start[e]
  BY DEF IndexInv, IndexTypeOK
<1>2. \A t \in Threads : origin'[t] # d
  BY DEF IndexInv, Given
<1>3. OwnIndexes(d)'
  BY <1>2 DEF OwnIndexes
<1>4. ASSUME NEW e \in Devices \ {d} PROVE OwnIndexes(e)'
  BY <1>1, <1>4 DEF IndexInv, OwnIndexes, OwnIndex, HasQueuesForAll, Drawn
<1>5. QED
  BY <1>3, <1>4

\* The first index of a device is the one its counter starts at.
LEMMA FirstKeeps ==
    ASSUME IndexInv, NEW t \in Threads, NEW d \in Devices, NEW first \in 0 .. CounterSize - 1,
           d \notin Open, start' = [start EXCEPT ![d] = first], TakeIndex(t, d, first)
    PROVE  /\ draws' \in [Devices -> Nat]
           /\ index' \in [Threads -> Slots \cup {None}]
           /\ \A e \in Devices : OwnIndexes(e)'
<1>1. /\ start \in [Devices -> 0 .. CounterSize - 1]
      /\ draws \in [Devices -> Nat]
      /\ index \in [Threads -> Slots \cup {None}]
      /\ origin \in [Threads -> Devices \cup {None, Gone}]
  BY DEF IndexInv, IndexTypeOK
<1>2. first \in Nat /\ draws[d] \in Nat
  BY <1>1, DeviceAssumption, SMT
<1>3. first % MaxThreads \in Slots
  BY <1>2, Modulo
<1>4. /\ index' = [index EXCEPT ![t] = first % MaxThreads]
      /\ origin' = [origin EXCEPT ![t] = d]
      /\ draws' = [draws EXCEPT ![d] = @ + 1]
  BY DEF TakeIndex
<1>5. /\ start'[d] = first /\ draws'[d] = draws[d] + 1
      /\ \A e \in Devices \ {d} : start'[e] = start[e] /\ draws'[e] = draws[e]
  BY <1>1, <1>4
<1>6. /\ origin'[t] = d /\ index'[t] = first % MaxThreads
      /\ \A u \in Threads \ {t} : origin'[u] = origin[u] /\ index'[u] = index[u]
  BY <1>1, <1>4
<1>7. \A u \in Threads \ {t} : origin'[u] # d
  BY <1>6 DEF IndexInv, Given
<1>8. OwnIndexes(d)'
  <2>1. \E n \in Nat : n < draws'[d] /\ index'[t] = Drawn(d, n)'
    <3>1. 0 \in Nat /\ 0 < draws'[d] /\ start'[d] + 0 = first
      BY <1>2, <1>5, SMT
    <3>2. QED
      BY <1>6, <3>1 DEF Drawn
  <2>2. QED
    BY <1>7, <2>1 DEF OwnIndexes, OwnIndex
<1>9. ASSUME NEW e \in Devices \ {d} PROVE OwnIndexes(e)'
  <2> SUFFICES ASSUME HasQueuesForAll(e)', NEW u \in Threads, origin'[u] = e
               PROVE  OwnIndex(u, e)'
    BY DEF OwnIndexes
  <2>1. u # t /\ origin[u] = e /\ index'[u] = index[u]
    BY <1>6
  <2>2. HasQueuesForAll(e)
    BY <1>5 DEF HasQueuesForAll
  <2>3. OwnIndex(u, e)
    BY <2>1, <2>2 DEF IndexInv, OwnIndexes
  <2>4. \A v \in Threads \ {u} : origin'[v] = e => index'[u] # index'[v]
    BY <1>6, <2>1, <2>3 DEF OwnIndex
  <2>5. QED
    BY <1>5, <2>1, <2>3, <2>4 DEF OwnIndex, Drawn
<1>10. draws' \in [Devices -> Nat]
  <2>1. draws[d] + 1 \in Nat
    BY <1>2, SMT
  <2>2. QED
    BY <1>1, <1>4, <2>1
<1>11. index' \in [Threads -> Slots \cup {None}]
  BY <1>1, <1>3, <1>4
<1>12. QED
  BY <1>8, <1>9, <1>10, <1>11

LEMMA OpenKeeps ==
    ASSUME IInv, NEW t \in Threads, NEW d \in Devices, NEW k \in Kinds,
           NEW first \in 0 .. CounterSize - 1, OpenDevice(t, d, k, first)
    PROVE  IInv'
<1>1. /\ ~InCall(t) /\ d \notin Open
      /\ kind' = [e \in Open \cup {d} |-> IF e = d THEN k ELSE kind[e]]
      /\ start' = [start EXCEPT ![d] = first]
      /\ UNCHANGED queues /\ UNCHANGED bufferVars /\ UNCHANGED call
  BY DEF OpenDevice
<1>2. Open' = Open \cup {d}
  BY <1>1 DEF Open
<1>3. DeviceTypeOK'
  <2>1. kind' \in [Open \cup {d} -> Kinds]
    BY <1>1 DEF IInv, DeviceTypeOK
  <2>2. QED
    BY <1>1, <1>2, <2>1 DEF IInv, DeviceTypeOK
<1>4. BufferTypeOK'
  BY <1>1 DEF IInv, BufferTypeOK, bufferVars
<1>5. /\ index' \in [Threads -> Slots \cup {None}]
      /\ draws' \in [Devices -> Nat]
      /\ origin' \in [Threads -> Devices \cup {None, Gone}]
      /\ \A u \in Threads \ {t} : index'[u] = index[u]
      /\ \A u \in Threads : origin'[u] \in {origin[u], d}
      /\ \A e \in Devices : OwnIndexes(e)'
  <2>1. CASE UNCHANGED <<index, origin, draws>>
    <3>1. \A e \in Devices : OwnIndexes(e)'
      BY <1>1, <2>1, StartKeepsOthers DEF IInv
    <3>2. QED
      BY <2>1, <3>1 DEF IInv, IndexInv, IndexTypeOK
  <2>2. CASE TakeIndex(t, d, first)
    <3>1. /\ index' \in [Threads -> Slots \cup {None}]
          /\ draws' \in [Devices -> Nat]
          /\ \A e \in Devices : OwnIndexes(e)'
      BY <1>1, <2>2, FirstKeeps DEF IInv
    <3>2. /\ origin' \in [Threads -> Devices \cup {None, Gone}]
          /\ \A u \in Threads \ {t} : index'[u] = index[u]
          /\ \A u \in Threads : origin'[u] \in {origin[u], d}
      BY <2>2 DEF TakeIndex, IInv, IndexInv, IndexTypeOK
    <3>3. QED
      BY <3>1, <3>2
  <2>3. QED
    BY <2>1, <2>2 DEF OpenDevice
<1>6. start' \in [Devices -> 0 .. CounterSize - 1]
  BY <1>1 DEF IInv, IndexInv, IndexTypeOK
<1>7. Given'
  BY <1>2, <1>5 DEF IInv, IndexInv, Given
<1>8. IndexInv'
  BY <1>5, <1>6, <1>7 DEF IndexInv, IndexTypeOK
<1>9. CallsAreSound'
  BY <1>1, <1>2, <1>5 DEF IInv, CallsAreSound, InCall
<1>10. QED
  BY <1>3, <1>4, <1>8, <1>9 DEF IInv

LEMMA CloseKeeps ==
    ASSUME IInv, NEW d \in Devices, CloseDevice(d)
    PROVE  IInv'
<1>1. /\ \A t \in Threads : InCall(t) => call[t].device # d
      /\ kind' = [e \in Open \ {d} |-> kind[e]]
      /\ queues' = [queues EXCEPT ![d] = {}]
      /\ start' = [start EXCEPT ![d] = 0]
      /\ draws' = [draws EXCEPT ![d] = 0]
      /\ origin' = [t \in Threads |-> IF origin[t] = d THEN Gone ELSE origin[t]]
      /\ UNCHANGED index /\ UNCHANGED bufferVars /\ UNCHANGED call
  BY DEF CloseDevice
<1>2. Open' = Open \ {d}
  BY <1>1 DEF Open
<1>3. DeviceTypeOK'
  <2>1. kind' \in [Open \ {d} -> Kinds]
    BY <1>1 DEF IInv, DeviceTypeOK
  <2>2. QED
    BY <1>1, <1>2, <2>1 DEF IInv, DeviceTypeOK
<1>4. BufferTypeOK'
  BY <1>1 DEF IInv, BufferTypeOK, bufferVars
<1>5. CallsAreSound'
  BY <1>1, <1>2 DEF IInv, CallsAreSound, InCall
<1>6. Gone \notin Devices /\ 0 \in 0 .. CounterSize - 1 /\ 0 \in Nat
  BY DeviceAssumption, SMT
<1>7. IndexTypeOK'
  BY <1>1, <1>6 DEF IInv, IndexInv, IndexTypeOK
<1>8. \A t \in Threads : origin'[t] # d /\ \A e \in Devices : origin'[t] = e => origin[t] = e
  BY <1>1, <1>6
<1>9. Given'
  BY <1>2, <1>8 DEF IInv, IndexInv, Given
<1>10. OwnIndexes(d)'
  BY <1>8 DEF OwnIndexes
<1>11. ASSUME NEW e \in Devices \ {d} PROVE OwnIndexes(e)'
  <2>1. start'[e] = start[e] /\ draws'[e] = draws[e]
    BY <1>1 DEF IInv, IndexInv, IndexTypeOK
  <2>2. OwnIndexes(e)
    BY DEF IInv, IndexInv
  <2>3. UNCHANGED index
    BY <1>1
  <2>4. QED
    BY <1>8, <2>1, <2>2, <2>3 DEF OwnIndexes, OwnIndex, HasQueuesForAll, Drawn
<1>12. QED
  BY <1>3, <1>4, <1>5, <1>7, <1>9, <1>10, <1>11 DEF IInv, IndexInv

LEMMA EndKeeps ==
    ASSUME IInv, NEW t \in Threads, ThreadEnds(t)
    PROVE  IInv'
<1>1. /\ ~InCall(t)
      /\ index' = [index EXCEPT ![t] = None]
      /\ origin' = [origin EXCEPT ![t] = None]
      /\ cache' = [cache EXCEPT ![t] = <<>>]
      /\ heap' = [b \in DOMAIN heap \ {cache[t][n] : n \in DOMAIN cache[t]} |-> heap[b]]
      /\ UNCHANGED <<kind, start, draws, queues, call>>
  BY DEF ThreadEnds
<1>2. Open' = Open
  BY <1>1 DEF Open
<1>3. DeviceTypeOK'
  BY <1>1, <1>2 DEF IInv, DeviceTypeOK
<1>4. BufferTypeOK'
  <2>1. <<>> \in Seq(Buffers) /\ Len(<<>>) = 0 /\ 0 <= CacheDepth
    BY EmptySeq, DeviceAssumption, SMT
  <2>2. cache' \in [Threads -> Seq(Buffers)] /\ \A u \in Threads : Len(cache'[u]) <= CacheDepth
    BY <1>1, <2>1 DEF IInv, BufferTypeOK
  <2>3. DOMAIN heap' \subseteq DOMAIN heap
    BY <1>1
  <2>4. \A b \in DOMAIN heap' : heap'[b] \in Sizes
    BY <1>1, <2>3 DEF IInv, BufferTypeOK
  <2>5. heap' = [b \in DOMAIN heap' |-> heap'[b]]
    BY <1>1
  <2>6. heap' \in [DOMAIN heap' -> Sizes]
    BY <2>4, <2>5
  <2>7. QED
    BY <2>2, <2>3, <2>6 DEF IInv, BufferTypeOK
<1>5. CallsAreSound'
  <2>1. \A u \in Threads \ {t} : index'[u] = index[u]
    BY <1>1 DEF IInv, IndexInv, IndexTypeOK
  <2>2. QED
    BY <1>1, <1>2, <2>1 DEF IInv, CallsAreSound, InCall
<1>6. None \notin Devices
  BY DeviceAssumption
<1>7. /\ origin'[t] = None
      /\ \A u \in Threads \ {t} : origin'[u] = origin[u] /\ index'[u] = index[u]
  BY <1>1 DEF IInv, IndexInv, IndexTypeOK
<1>8. IndexTypeOK' /\ Given'
  BY <1>1, <1>2, <1>6, <1>7 DEF IInv, IndexInv, IndexTypeOK, Given
<1>9. ASSUME NEW e \in Devices PROVE OwnIndexes(e)'
  <2>1. OwnIndexes(e) /\ UNCHANGED <<start, draws>>
    BY <1>1 DEF IInv, IndexInv
  <2>2. QED
    BY <1>6, <1>7, <2>1 DEF OwnIndexes, OwnIndex, HasQueuesForAll, Drawn
<1>10. QED
  BY <1>3, <1>4, <1>5, <1>8, <1>9 DEF IInv, IndexInv

\* A transfer begins.
LEMMA StartKeeps ==
    ASSUME IInv, NEW t \in Threads, NEW d \in Open, NEW size \in Sizes, NEW b \in Buffers,
           Start(t, d, size, b), UNCHANGED <<kind, index>>
    PROVE  CallsAreSound'
<1> DEFINE place == IF kind[d].engine = "sync" THEN "transfer" ELSE "queue"
           c == [at |-> place, device |-> d, size |-> size, buffer |-> b]
<1>1. d \in Devices
  BY DEF IInv, DeviceTypeOK
<1>2. c \in Calls /\ c.device = d /\ c.at # "init"
  BY <1>1 DEF Calls, Places
<1>3. Become(t, c)
  BY DEF Start
<1> HIDE DEF c
<1>4. /\ call' \in [Threads -> Calls]
      /\ call'[t] = c
      /\ \A u \in Threads \ {t} : call'[u] = call[u]
  BY <1>2, <1>3, CallBecomes DEF IInv
<1>5. QED
  BY <1>2, <1>4 DEF IInv, CallsAreSound, InCall, Open

LEMMA TakeCachedKeeps ==
    ASSUME IInv, NEW t \in Threads, NEW d \in Devices, NEW size \in Sizes, TakeCached(t, d, size)
    PROVE  IInv'
<1>1. /\ d \in Open /\ cache[t] # <<>>
      /\ Start(t, d, size, cache[t][Len(cache[t])])
      /\ cache' = [cache EXCEPT ![t] = SubSeq(@, 1, Len(@) - 1)]
      /\ UNCHANGED <<kind, queues, heap>> /\ UNCHANGED indexVars
  BY DEF TakeCached
<1>2. cache[t] \in Seq(Buffers) /\ Len(cache[t]) <= CacheDepth
  BY DEF IInv, BufferTypeOK
<1>3. Len(cache[t]) \in Nat \ {0}
  BY <1>1, <1>2, EmptySeq
<1>4. \A n \in 1 .. Len(cache[t]) : cache[t][n] \in Buffers
  BY <1>2, ElementOfSeq
<1>5. cache[t][Len(cache[t])] \in Buffers
  BY <1>3, <1>4, SMT
<1>6. CallsAreSound'
  BY <1>1, <1>5, StartKeeps DEF indexVars
<1>7. BufferTypeOK'
  <2>1. SubSeq(cache[t], 1, Len(cache[t]) - 1) \in Seq(Buffers)
    <3>1. /\ 1 \in Int /\ Len(cache[t]) - 1 \in Int
          /\ \A n \in 1 .. Len(cache[t]) - 1 : n \in 1 .. Len(cache[t])
      BY <1>3, SMT
    <3>2. QED
      BY <1>4, <3>1, SubSeqProperties
  <2>2. Len(SubSeq(cache[t], 1, Len(cache[t]) - 1)) <= CacheDepth
    BY <1>2, <1>3, DeviceAssumption, SMT
  <2>3. /\ cache' \in [Threads -> Seq(Buffers)]
        /\ \A u \in Threads : Len(cache'[u]) <= CacheDepth
    BY <1>1, <2>1, <2>2 DEF IInv, BufferTypeOK
  <2>4. QED
    BY <1>1, <2>3 DEF IInv, BufferTypeOK
<1>8. Open' = Open /\ DeviceTypeOK'
  BY <1>1 DEF IInv, DeviceTypeOK, Open
<1>9. IndexInv'
  BY <1>1, <1>8, IndexesStay DEF IInv
<1>10. QED
  BY <1>6, <1>7, <1>8, <1>9 DEF IInv

LEMMA AllocateKeeps ==
    ASSUME IInv, NEW t \in Threads, NEW d \in Devices, NEW size \in Sizes, Allocate(t, d, size)
    PROVE  IInv'
<1>1. PICK b \in Buffers \ DOMAIN heap :
        /\ heap' = [c \in DOMAIN heap \cup {b} |-> IF c = b THEN size ELSE heap[c]]
        /\ Start(t, d, size, b)
  BY DEF Allocate
<1>2. d \in Open /\ UNCHANGED <<kind, queues, cache>> /\ UNCHANGED indexVars
  BY DEF Allocate
<1>3. CallsAreSound'
  BY <1>1, <1>2, StartKeeps DEF indexVars
<1>4. BufferTypeOK'
  <2>1. DOMAIN heap' = DOMAIN heap \cup {b}
    BY <1>1
  <2>2. \A c \in DOMAIN heap' : heap'[c] \in Sizes
    BY <1>1, <2>1 DEF IInv, BufferTypeOK
  <2>3. heap' = [c \in DOMAIN heap' |-> heap'[c]]
    BY <1>1
  <2>4. heap' \in [DOMAIN heap' -> Sizes]
    BY <2>2, <2>3
  <2>5. QED
    BY <1>2, <2>1, <2>4 DEF IInv, BufferTypeOK
<1>5. Open' = Open /\ DeviceTypeOK'
  BY <1>2 DEF IInv, DeviceTypeOK, Open
<1>6. IndexInv'
  BY <1>2, <1>5, IndexesStay DEF IInv
<1>7. QED
  BY <1>3, <1>4, <1>5, <1>6 DEF IInv

LEMMA TakeQueueKeeps ==
    ASSUME IInv, NEW t \in Threads, TakeQueue(t)
    PROVE  IInv'
<1> DEFINE d == call[t].device
           place == IF index'[t] \in queues[d] THEN "transfer" ELSE "init"
<1>1. /\ call[t].at = "queue" /\ GetThreadIndex(t, d) /\ Goto(t, place)
      /\ UNCHANGED <<kind, start, queues>> /\ UNCHANGED bufferVars
  BY DEF TakeQueue
<1>2. InCall(t) /\ call[t] \in Calls
  BY <1>1 DEF IInv, CallsAreSound, InCall, Idle
<1>3. d \in Open /\ d \in Devices
  BY <1>2 DEF IInv, CallsAreSound, DeviceTypeOK
<1>4. Open' = Open
  BY <1>1 DEF Open
<1>5. DeviceTypeOK' /\ BufferTypeOK'
  BY <1>1, <1>4 DEF IInv, DeviceTypeOK, BufferTypeOK, bufferVars
<1>6. IndexInv'
  <2>1. CASE UNCHANGED <<index, origin, draws>>
    BY <1>1, <1>4, <2>1, IndexesStay DEF IInv, indexVars
  <2>2. CASE TakeIndex(t, d, thread_id_counter(d))
    BY <1>1, <1>3, <1>4, <2>2, DrawKeeps DEF IInv
  <2>3. QED
    BY <1>1, <2>1, <2>2 DEF GetThreadIndex
<1>7. /\ index'[t] # None
      /\ \A u \in Threads \ {t} : index'[u] = index[u]
  <2>1. CASE index[t] # None /\ UNCHANGED index
    BY <2>1
  <2>2. CASE TakeIndex(t, d, thread_id_counter(d))
    <3>1. index' = [index EXCEPT ![t] = thread_id_counter(d) % MaxThreads]
      BY <2>2 DEF TakeIndex
    <3>2. thread_id_counter(d) \in Nat
      <4>1. start[d] \in Nat /\ draws[d] \in Nat
        BY <1>3, DeviceAssumption, SMT DEF IInv, IndexInv, IndexTypeOK
      <4>2. QED
        BY <4>1, DeviceAssumption, SMTT(30) DEF thread_id_counter
    <3>3. thread_id_counter(d) % MaxThreads # None
      BY <3>2, Modulo, DeviceAssumption, SMT DEF Slots
    <3>4. QED
      BY <3>1, <3>3 DEF IInv, IndexInv, IndexTypeOK
  <2>3. QED
    BY <1>1, <2>1, <2>2 DEF GetThreadIndex
<1>8. CallsAreSound'
  <2>1. place \in Places
    BY DEF Places
  <2> HIDE DEF place
  <2>2. /\ [call[t] EXCEPT !.at = place] \in Calls
        /\ [call[t] EXCEPT !.at = place].device = d
    BY <1>2, <2>1, GotoFields DEF InCall
  <2>3. /\ call' \in [Threads -> Calls]
        /\ call'[t].device = d
        /\ \A u \in Threads \ {t} : call'[u] = call[u]
    BY <1>1, <2>2, CallBecomes DEF IInv, Goto
  <2>4. QED
    BY <1>3, <1>4, <1>7, <2>3 DEF IInv, CallsAreSound, InCall
<1>9. QED
  BY <1>5, <1>6, <1>8 DEF IInv

LEMMA InitQueueKeeps ==
    ASSUME IInv, NEW t \in Threads, InitQueue(t)
    PROVE  IInv'
<1> DEFINE d == call[t].device
<1>1. /\ call[t].at = "init" /\ Goto(t, "transfer")
      /\ queues' = [queues EXCEPT ![d] = @ \cup {index[t]}]
      /\ UNCHANGED kind /\ UNCHANGED indexVars /\ UNCHANGED bufferVars
  BY DEF InitQueue
<1>2. InCall(t) /\ call[t] \in Calls
  BY <1>1 DEF IInv, CallsAreSound, InCall, Idle
<1>3. d \in Open /\ d \in Devices /\ index[t] \in Slots
  BY <1>1, <1>2 DEF IInv, CallsAreSound, DeviceTypeOK, IndexInv, IndexTypeOK
<1>4. Open' = Open
  BY <1>1 DEF Open
<1>5. DeviceTypeOK' /\ BufferTypeOK'
  BY <1>1, <1>3, <1>4 DEF IInv, DeviceTypeOK, BufferTypeOK, bufferVars
<1>6. IndexInv'
  BY <1>1, <1>4, IndexesStay DEF IInv
<1>7. CallsAreSound'
  <2>1. /\ [call[t] EXCEPT !.at = "transfer"] \in Calls
        /\ [call[t] EXCEPT !.at = "transfer"].device = d
        /\ [call[t] EXCEPT !.at = "transfer"].at = "transfer"
    BY <1>2, GotoFields DEF InCall, Places
  <2>2. /\ call' \in [Threads -> Calls]
        /\ call'[t].device = d /\ call'[t].at = "transfer"
        /\ \A u \in Threads \ {t} : call'[u] = call[u]
    BY <1>1, <2>1, CallBecomes DEF IInv, Goto
  <2>3. QED
    BY <1>1, <1>3, <1>4, <2>2 DEF IInv, CallsAreSound, InCall, indexVars
<1>8. QED
  BY <1>5, <1>6, <1>7 DEF IInv

\* A transfer ends, well or not.
LEMMA LeaveKeeps ==
    ASSUME IInv, NEW t \in Threads, TransferFails(t) \/ Return(t)
    PROVE  IInv'
<1>1. /\ call[t].at \in {"queue", "init", "transfer"}
      /\ Free(t) /\ Become(t, Idle)
      /\ UNCHANGED <<kind, queues>> /\ UNCHANGED indexVars
  BY DEF TransferFails, Return
<1>2. InCall(t)
  BY <1>1 DEF InCall, Idle
<1>3. Open' = Open
  BY <1>1 DEF Open
<1>4. BufferTypeOK'
  BY <1>1, <1>2, FreeKeeps DEF IInv
<1>5. CallsAreSound'
  BY <1>1, <1>3, CallEnds DEF IInv, indexVars
<1>6. IndexInv'
  BY <1>1, <1>3, IndexesStay DEF IInv
<1>7. DeviceTypeOK'
  BY <1>1, <1>3 DEF IInv, DeviceTypeOK
<1>8. QED
  BY <1>4, <1>5, <1>6, <1>7 DEF IInv

LEMMA StepKeeps == IInv /\ [Next]_vars => IInv'
<1> SUFFICES ASSUME IInv, [Next]_vars PROVE IInv'
  OBVIOUS
<1>1. CASE UNCHANGED vars
  <2>1. UNCHANGED <<kind, queues, cache, heap, call>> /\ UNCHANGED indexVars
    BY <1>1 DEF vars, indexVars
  <2>2. Open' = Open
    BY <2>1 DEF Open
  <2>3. IndexInv'
    BY <2>1, <2>2, IndexesStay DEF IInv
  <2>4. QED
    BY <2>1, <2>2, <2>3
    DEF IInv, DeviceTypeOK, BufferTypeOK, CallsAreSound, InCall, indexVars
<1>2. CASE \E t \in Threads, d \in Devices, k \in Kinds, first \in 0 .. CounterSize - 1 :
        OpenDevice(t, d, k, first)
  BY <1>2, OpenKeeps
<1>3. CASE \E t \in Threads, d \in Devices, size \in Sizes :
        TakeCached(t, d, size) \/ Allocate(t, d, size)
  BY <1>3, TakeCachedKeeps, AllocateKeeps
<1>4. CASE \E d \in Devices : CloseDevice(d)
  BY <1>4, CloseKeeps
<1>5. CASE \E t \in Threads :
        ThreadEnds(t) \/ TakeQueue(t) \/ InitQueue(t) \/ TransferFails(t) \/ Return(t)
  BY <1>5, EndKeeps, TakeQueueKeeps, InitQueueKeeps, LeaveKeeps
<1>6. QED
  BY <1>1, <1>2, <1>3, <1>4, <1>5 DEF Next

LEMMA Invariance == Spec => []IInv
BY Initially, StepKeeps, PTL DEF Spec

-----------------------------------------------------------------------------
\* The type invariant: in particular no index is beyond the queues, and no cache
\* deeper than BUFFER_CACHE_DEPTH (nvme_device.cpp:236,
\* nvme_cached_buffer_allocator.hpp:36).
THEOREM TypeCorrect == Spec => []TypeOK
<1>1. IInv => TypeOK
  BY Types DEF IInv, CallsAreSound, IndexInv
<1>2. QED
  BY Invariance, <1>1, PTL

\* A queue, which has no lock, is made and used by one thread only, of those that
\* have their index from its device, as long as that has counted no more threads
\* than it has queues and its counter has not wrapped (nvme_device.cpp:234).
THEOREM QueuesAreSeparate == Spec => []QueuesAreNotShared
<1>1. IInv => QueuesAreNotShared
  <2> SUFFICES ASSUME IInv, NEW d \in Open, HasQueuesForAll(d),
                      NEW t \in Threads, NEW u \in Threads,
                      t # u, origin[t] = d, origin[u] = d
               PROVE  index[t] # index[u]
    BY DEF QueuesAreNotShared
  <2>1. d \in Devices
    BY DEF IInv, DeviceTypeOK
  <2>2. OwnIndex(t, d)
    BY <2>1 DEF IInv, IndexInv, OwnIndexes
  <2>3. QED
    BY <2>2 DEF OwnIndex
<1>2. QED
  BY Invariance, <1>1, PTL

-----------------------------------------------------------------------------
(* The places of a buffer: the call of a thread, or an entry of its cache. *)

\* Spot 0 of a thread is its call.
In(b, t, n) ==
    \/ n = 0 /\ InCall(t) /\ call[t].buffer = b
    \/ n \in 1 .. Len(cache[t]) /\ cache[t][n] = b

Somewhere(b) == \E t \in Threads, n \in Nat : In(b, t, n)

NotTwice ==
    \A b \in Buffers, t, u \in Threads, n, m \in Nat : In(b, t, n) /\ In(b, u, m) => t = u /\ n = m

NoneLost == \A b \in Buffers : b \in DOMAIN heap <=> Somewhere(b)

\* A cached buffer has the size for which it may be handed out again.
SizesAgree ==
    \A t \in Threads :
        /\ InCall(t) => heap[call[t].buffer] = call[t].size
        /\ \A n \in 1 .. Len(cache[t]) : heap[cache[t][n]] = BlockSize

BufferInv == NotTwice /\ NoneLost /\ SizesAgree

LEMMA BuffersInitially == Init => BufferInv
<1> SUFFICES ASSUME Init PROVE BufferInv
  OBVIOUS
<1>1. \A t \in Threads : ~InCall(t) /\ cache[t] = <<>>
  BY DEF Init, InCall
<1>2. Len(<<>>) = 0 /\ DOMAIN heap = {}
  BY EmptySeq, LenProperties DEF Init
<1>3. \A b \in Buffers, t \in Threads, n \in Nat : ~In(b, t, n)
  BY <1>1, <1>2 DEF In
<1>4. SizesAgree
  BY <1>1, <1>2 DEF SizesAgree
<1>5. QED
  BY <1>2, <1>3, <1>4 DEF BufferInv, NotTwice, NoneLost, Somewhere

LEMMA CacheTypes ==
    ASSUME IInv, NEW t \in Threads
    PROVE  /\ cache[t] \in Seq(Buffers) /\ Len(cache[t]) \in Nat
           /\ \A n \in 1 .. Len(cache[t]) : cache[t][n] \in Buffers
           /\ InCall(t) => call[t].buffer \in Buffers
<1>1. cache[t] \in Seq(Buffers)
  BY DEF IInv, BufferTypeOK
<1>2. Len(cache[t]) \in Nat /\ \A n \in 1 .. Len(cache[t]) : cache[t][n] \in Buffers
  BY <1>1, LenProperties, ElementOfSeq
<1>3. InCall(t) => call[t].buffer \in Buffers
  BY CallFields DEF IInv, CallsAreSound, InCall
<1>4. QED
  BY <1>1, <1>2, <1>3

\* A buffer goes from one spot to another, which was empty.
LEMMA BufferMoves ==
    ASSUME NotTwice, NoneLost, UNCHANGED heap, NEW b \in Buffers, NEW t \in Threads,
           NEW n \in Nat, NEW m \in Nat, In(b, t, n),
           \A c \in Buffers : ~In(c, t, m),
           \A c \in Buffers, u \in Threads, k \in Nat :
                In(c, u, k)' <=> (u = t /\ k = m /\ c = b) \/ (In(c, u, k) /\ ~(u = t /\ k = n))
    PROVE  NotTwice' /\ NoneLost'
<1>1. ASSUME NEW c \in Buffers, NEW u \in Threads, NEW v \in Threads, NEW i \in Nat, NEW j \in Nat,
             In(c, u, i)', In(c, v, j)'
      PROVE  u = v /\ i = j
  BY <1>1 DEF NotTwice
<1>2. ASSUME NEW c \in Buffers PROVE Somewhere(c)' <=> Somewhere(c)
  <2>1. CASE c = b
    BY <2>1 DEF Somewhere
  <2>2. CASE c # b
    <3>1. ASSUME NEW u \in Threads, NEW k \in Nat, In(c, u, k)
          PROVE  Somewhere(c)'
      <4>1. ~(u = t /\ k = n)
        BY <2>2, <3>1 DEF In
      <4>2. QED
        BY <3>1, <4>1 DEF Somewhere
    <3>2. QED
      BY <2>2, <3>1 DEF Somewhere
  <2>3. QED
    BY <2>1, <2>2
<1>3. QED
  BY <1>1, <1>2 DEF NotTwice, NoneLost

\* A buffer is new, in a spot that was empty.
LEMMA BufferComes ==
    ASSUME NotTwice, NoneLost, NEW b \in Buffers \ DOMAIN heap, NEW t \in Threads,
           DOMAIN heap' = DOMAIN heap \cup {b},
           \A c \in Buffers, u \in Threads, k \in Nat :
                In(c, u, k)' <=> (u = t /\ k = 0 /\ c = b) \/ In(c, u, k)
    PROVE  NotTwice' /\ NoneLost'
<1>1. \A u \in Threads, k \in Nat : ~In(b, u, k)
  BY DEF NoneLost, Somewhere
<1>2. ASSUME NEW c \in Buffers, NEW u \in Threads, NEW v \in Threads, NEW i \in Nat, NEW j \in Nat,
             In(c, u, i)', In(c, v, j)'
      PROVE  u = v /\ i = j
  BY <1>1, <1>2 DEF NotTwice
<1>3. ASSUME NEW c \in Buffers PROVE Somewhere(c)' <=> c \in DOMAIN heap'
  BY DEF NoneLost, Somewhere
<1>4. QED
  BY <1>2, <1>3 DEF NotTwice, NoneLost

\* Buffers are gone, and nothing is where they were.
LEMMA BuffersGo ==
    ASSUME NotTwice, NoneLost, NEW gone \in SUBSET Buffers,
           DOMAIN heap' = DOMAIN heap \ gone,
           \A c \in Buffers, u \in Threads, k \in Nat :
                In(c, u, k)' <=> In(c, u, k) /\ c \notin gone
    PROVE  NotTwice' /\ NoneLost'
<1>1. NotTwice'
  BY DEF NotTwice
<1>2. ASSUME NEW c \in Buffers PROVE Somewhere(c)' <=> c \in DOMAIN heap'
  BY DEF NoneLost, Somewhere
<1>3. QED
  BY <1>1, <1>2 DEF NoneLost

\* A step that leaves the buffers where they are.
LEMMA BuffersStay ==
    ASSUME IInv, BufferInv, UNCHANGED bufferVars,
           \A t \in Threads : /\ InCall(t)' <=> InCall(t)
                              /\ InCall(t) => /\ call'[t].buffer = call[t].buffer
                                              /\ call'[t].size = call[t].size
    PROVE  BufferInv'
<1>1. UNCHANGED <<cache, heap>>
  BY DEF bufferVars
<1>2. \A b \in Buffers, t \in Threads, n \in Nat : In(b, t, n)' <=> In(b, t, n)
  BY <1>1 DEF In
<1>3. SizesAgree'
  BY <1>1 DEF BufferInv, SizesAgree
<1>4. QED
  BY <1>1, <1>2, <1>3 DEF BufferInv, NotTwice, NoneLost, Somewhere

LEMMA StartFields ==
    ASSUME IInv, NEW t \in Threads, NEW d, NEW size, NEW b, Start(t, d, size, b)
    PROVE  /\ InCall(t)' /\ call'[t].buffer = b /\ call'[t].size = size
           /\ \A u \in Threads \ {t} : call'[u] = call[u]
<1>1. call \in [Threads -> Calls]
  BY DEF IInv, CallsAreSound
<1>2. QED
  BY <1>1 DEF Start, Become, InCall, Idle

\* What the cache hands out is at its end.
LEMMA TakeCachedMoves ==
    ASSUME IInv, BufferInv, NEW t \in Threads, NEW d \in Devices, NEW size \in Sizes,
           TakeCached(t, d, size)
    PROVE  BufferInv'
<1> DEFINE len == Len(cache[t])
           b == cache[t][len]
<1>1. /\ ~InCall(t) /\ cache[t] # <<>> /\ size = BlockSize
      /\ Start(t, d, size, b)
      /\ cache' = [cache EXCEPT ![t] = SubSeq(@, 1, Len(@) - 1)]
      /\ UNCHANGED heap
  BY DEF TakeCached, Cacheable
<1>2. cache[t] \in Seq(Buffers) /\ \A n \in 1 .. len : cache[t][n] \in Buffers
  BY CacheTypes
<1>3. len \in Nat \ {0}
  BY <1>1, <1>2, EmptySeq
<1>4. b \in Buffers
  BY <1>2, <1>3
<1>5. /\ InCall(t)' /\ call'[t].buffer = b /\ call'[t].size = BlockSize
      /\ \A u \in Threads \ {t} : call'[u] = call[u]
  BY <1>1, StartFields
<1>6. /\ \A u \in Threads \ {t} : cache'[u] = cache[u]
      /\ Len(cache'[t]) = len - 1
      /\ \A n \in 1 .. len - 1 : cache'[t][n] = cache[t][n]
  <2>1. /\ 1 \in Int /\ len - 1 \in Int /\ \A n \in 1 .. len - 1 : n \in 1 .. len
    BY <1>3
  <2>2. /\ Len(SubSeq(cache[t], 1, len - 1)) = IF 1 <= len - 1 THEN len - 1 - 1 + 1 ELSE 0
        /\ \A n \in 1 .. len - 1 - 1 + 1 : SubSeq(cache[t], 1, len - 1)[n] = cache[t][1 + n - 1]
    BY <1>2, <2>1, SubSeqProperties
  <2>3. cache'[t] = SubSeq(cache[t], 1, len - 1) /\ \A u \in Threads \ {t} : cache'[u] = cache[u]
    BY <1>1 DEF IInv, BufferTypeOK
  <2>4. QED
    BY <1>3, <2>2, <2>3
<1> HIDE DEF len, b
<1>7. In(b, t, len) /\ \A c \in Buffers : ~In(c, t, 0)
  BY <1>1, <1>3 DEF In, b, len
<1>8. ASSUME NEW c \in Buffers, NEW u \in Threads, NEW k \in Nat
      PROVE  In(c, u, k)' <=> (u = t /\ k = 0 /\ c = b) \/ (In(c, u, k) /\ ~(u = t /\ k = len))
  <2>1. CASE u # t
    BY <1>5, <1>6, <2>1 DEF In, InCall
  <2>2. CASE u = t /\ k = 0
    BY <1>1, <1>5, <2>2 DEF In
  <2>3. CASE u = t /\ k # 0
    BY <1>3, <1>6, <2>3 DEF In, len
  <2>4. QED
    BY <2>1, <2>2, <2>3
<1>9. NotTwice' /\ NoneLost'
  BY <1>1, <1>3, <1>4, <1>7, <1>8, BufferMoves DEF BufferInv
<1>10. SizesAgree'
  <2>1. heap[b] = BlockSize
    BY <1>3 DEF BufferInv, SizesAgree, b, len
  <2>2. \A n \in 1 .. Len(cache'[t]) : n \in 1 .. Len(cache[t]) /\ cache'[t][n] = cache[t][n]
    BY <1>3, <1>6 DEF len
  <2>3. \A u \in Threads \ {t} : /\ InCall(u) => heap[call[u].buffer] = call[u].size
                                /\ \A n \in 1 .. Len(cache[u]) : heap[cache[u][n]] = BlockSize
    BY DEF BufferInv, SizesAgree
  <2>4. \A n \in 1 .. Len(cache'[t]) : heap[cache'[t][n]] = BlockSize
    BY <2>2 DEF BufferInv, SizesAgree
  <2>5. heap' = heap
    BY <1>1
  <2>6. ASSUME NEW u \in Threads \ {t}
        PROVE  /\ InCall(u)' => heap'[call'[u].buffer] = call'[u].size
               /\ \A n \in 1 .. Len(cache'[u]) : heap'[cache'[u][n]] = BlockSize
    <3>1. call'[u] = call[u] /\ cache'[u] = cache[u]
      BY <1>5, <1>6
    <3>2. QED
      BY <2>3, <2>5, <3>1 DEF InCall
  <2>7. heap'[call'[t].buffer] = call'[t].size
    BY <1>5, <2>1, <2>5
  <2>8. QED
    BY <2>4, <2>5, <2>6, <2>7 DEF SizesAgree
<1>11. QED
  BY <1>9, <1>10 DEF BufferInv

\* What is somewhere exists.
LEMMA PlacedBuffersExist ==
    ASSUME IInv, NoneLost, NEW t \in Threads
    PROVE  /\ InCall(t) => call[t].buffer \in DOMAIN heap
           /\ \A n \in 1 .. Len(cache[t]) : cache[t][n] \in DOMAIN heap
<1>1. InCall(t) => In(call[t].buffer, t, 0) /\ call[t].buffer \in Buffers
  BY CacheTypes DEF In
<1>2. \A n \in 1 .. Len(cache[t]) : In(cache[t][n], t, n) /\ cache[t][n] \in Buffers /\ n \in Nat
  BY CacheTypes DEF In
<1>3. QED
  BY <1>1, <1>2 DEF NoneLost, Somewhere

LEMMA AllocateMakes ==
    ASSUME IInv, BufferInv, NEW t \in Threads, NEW d \in Devices, NEW size \in Sizes,
           Allocate(t, d, size)
    PROVE  BufferInv'
<1>1. PICK b \in Buffers \ DOMAIN heap :
        /\ heap' = [c \in DOMAIN heap \cup {b} |-> IF c = b THEN size ELSE heap[c]]
        /\ Start(t, d, size, b)
  BY DEF Allocate
<1>2. ~InCall(t) /\ UNCHANGED cache
  BY DEF Allocate
<1>3. /\ InCall(t)' /\ call'[t].buffer = b /\ call'[t].size = size
      /\ \A u \in Threads \ {t} : call'[u] = call[u]
  BY <1>1, StartFields
<1>4. /\ DOMAIN heap' = DOMAIN heap \cup {b} /\ heap'[b] = size
      /\ \A c \in DOMAIN heap : heap'[c] = heap[c]
  BY <1>1
<1>5. \A c \in Buffers, u \in Threads, k \in Nat :
        In(c, u, k)' <=> (u = t /\ k = 0 /\ c = b) \/ In(c, u, k)
  BY <1>2, <1>3 DEF In, InCall
<1>6. NotTwice' /\ NoneLost'
  BY <1>4, <1>5, BufferComes DEF BufferInv
<1>7. \A u \in Threads : /\ InCall(u) => call[u].buffer \in DOMAIN heap
                         /\ \A n \in 1 .. Len(cache[u]) : cache[u][n] \in DOMAIN heap
  BY PlacedBuffersExist DEF BufferInv
<1>8. SizesAgree'
  BY <1>2, <1>3, <1>4, <1>7 DEF BufferInv, SizesAgree, InCall
<1>9. QED
  BY <1>6, <1>8 DEF BufferInv

\* The sizes of the buffers that a step leaves somewhere.
LEMMA RemainingSizes ==
    ASSUME IInv, SizesAgree, NoneLost',
           \A u \in Threads : /\ InCall(u)' => InCall(u) /\ call'[u] = call[u]
                              /\ Len(cache'[u]) = 0 \/ cache'[u] = cache[u],
           \A c \in DOMAIN heap' : heap'[c] = heap[c]
    PROVE  SizesAgree'
<1> SUFFICES ASSUME NEW u \in Threads
             PROVE  /\ InCall(u)' => heap'[call'[u].buffer] = call'[u].size
                    /\ \A n \in 1 .. Len(cache'[u]) : heap'[cache'[u][n]] = BlockSize
  BY DEF SizesAgree
<1>1. ASSUME InCall(u)' PROVE heap'[call'[u].buffer] = call'[u].size
  <2>1. In(call[u].buffer, u, 0)' /\ call[u].buffer \in Buffers /\ call'[u] = call[u] /\ InCall(u)
    BY <1>1, CacheTypes DEF In
  <2>2. call[u].buffer \in DOMAIN heap'
    BY <2>1 DEF NoneLost, Somewhere
  <2>3. QED
    BY <2>1, <2>2 DEF SizesAgree
<1>2. ASSUME NEW n \in 1 .. Len(cache'[u]) PROVE heap'[cache'[u][n]] = BlockSize
  <2>1. cache'[u] = cache[u]
    BY <1>2
  <2>2. n \in 1 .. Len(cache[u]) /\ n \in Nat /\ cache[u][n] \in Buffers
    BY <2>1, CacheTypes
  <2>3. In(cache[u][n], u, n)'
    BY <2>1, <2>2 DEF In
  <2>4. cache[u][n] \in DOMAIN heap'
    BY <2>2, <2>3 DEF NoneLost, Somewhere
  <2>5. QED
    BY <2>1, <2>2, <2>4 DEF SizesAgree
<1>3. QED
  BY <1>1, <1>2

\* FreeDeviceBuffer puts the buffer at the end of the cache, or frees it.
LEMMA LeaveFrees ==
    ASSUME IInv, BufferInv, NEW t \in Threads, TransferFails(t) \/ Return(t)
    PROVE  BufferInv'
<1> DEFINE b == call[t].buffer
<1>1. Free(t) /\ Become(t, Idle) /\ InCall(t)
  BY DEF TransferFails, Return, InCall, Idle
<1>2. b \in Buffers /\ In(b, t, 0)
  BY <1>1, CacheTypes DEF In
<1>3. ~InCall(t)' /\ \A u \in Threads \ {t} : call'[u] = call[u]
  BY <1>1, CallBecomes, IdleIsCall DEF IInv, InCall
<1>4. CASE /\ Cacheable(call[t].device, call[t].size)
           /\ cache' = [cache EXCEPT ![t] = Append(@, b)]
           /\ UNCHANGED heap
  <2> DEFINE len == Len(cache[t])
  <2>1. cache[t] \in Seq(Buffers) /\ len \in Nat
    BY CacheTypes
  <2>2. /\ \A u \in Threads \ {t} : cache'[u] = cache[u]
        /\ Len(cache'[t]) = len + 1 /\ cache'[t][len + 1] = b
        /\ \A n \in 1 .. len : cache'[t][n] = cache[t][n]
    <3>1. cache'[t] = Append(cache[t], b) /\ \A u \in Threads \ {t} : cache'[u] = cache[u]
      BY <1>4 DEF IInv, BufferTypeOK
    <3>2. QED
      BY <1>2, <2>1, <3>1, AppendProperties
  <2> HIDE DEF b
  <2>3. \A c \in Buffers : ~In(c, t, len + 1)
    BY <2>1 DEF In
  <2>4. ASSUME NEW c \in Buffers, NEW u \in Threads, NEW k \in Nat
        PROVE  In(c, u, k)' <=> (u = t /\ k = len + 1 /\ c = b)
                                \/ (In(c, u, k) /\ ~(u = t /\ k = 0))
    <3>1. CASE u # t
      BY <1>3, <2>2, <3>1 DEF In, InCall
    <3>2. CASE u = t /\ k = 0
      BY <1>3, <2>1, <3>2 DEF In
    <3>3. CASE u = t /\ k # 0
      <4>1. CASE k \in 1 .. len
        BY <2>1, <2>2, <3>3, <4>1 DEF In
      <4>2. CASE k = len + 1
        BY <2>1, <2>2, <3>3, <4>2 DEF In
      <4>3. CASE k > len + 1
        BY <2>1, <2>2, <3>3, <4>3 DEF In
      <4>4. QED
        BY <2>1, <3>3, <4>1, <4>2, <4>3
    <3>4. QED
      BY <3>1, <3>2, <3>3
  <2>5. NotTwice' /\ NoneLost'
    <3>1. len + 1 \in Nat /\ 0 \in Nat
      BY <2>1
    <3> HIDE DEF len
    <3>2. QED
      BY <1>2, <1>4, <2>3, <2>4, <3>1, BufferMoves DEF BufferInv
  <2>6. SizesAgree'
    <3>1. heap[b] = BlockSize
      BY <1>1, <1>4 DEF BufferInv, SizesAgree, Cacheable, b
    <3>2. \A n \in 1 .. len : heap[cache[t][n]] = BlockSize
      BY DEF BufferInv, SizesAgree
    <3>3. \A n \in 1 .. Len(cache'[t]) : n \in 1 .. len \/ n = len + 1
      BY <2>1, <2>2
    <3>4. \A n \in 1 .. Len(cache'[t]) : heap[cache'[t][n]] = BlockSize
      BY <2>2, <3>1, <3>2, <3>3
    <3>5. \A u \in Threads \ {t} :
            /\ InCall(u) => heap[call[u].buffer] = call[u].size
            /\ \A n \in 1 .. Len(cache[u]) : heap[cache[u][n]] = BlockSize
      BY DEF BufferInv, SizesAgree
    <3>6. QED
      BY <1>3, <1>4, <2>2, <3>4, <3>5 DEF SizesAgree, InCall
  <2>7. QED
    BY <2>5, <2>6 DEF BufferInv
<1>5. CASE heap' = [c \in DOMAIN heap \ {b} |-> heap[c]] /\ UNCHANGED cache
  <2>1. DOMAIN heap' = DOMAIN heap \ {b} /\ \A c \in DOMAIN heap \ {b} : heap'[c] = heap[c]
    BY <1>5
  <2>2. ASSUME NEW c \in Buffers, NEW u \in Threads, NEW k \in Nat
        PROVE  In(c, u, k)' <=> In(c, u, k) /\ c \notin {b}
    <3>1. In(b, u, k) => u = t /\ k = 0
      BY <1>2 DEF BufferInv, NotTwice
    <3>2. In(c, u, k)' <=> In(c, u, k) /\ ~(u = t /\ k = 0)
      BY <1>3, <1>5 DEF In, InCall
    <3>3. In(c, t, 0) => c = b
      BY DEF In
    <3>4. QED
      BY <3>1, <3>2, <3>3
  <2>3. NotTwice' /\ NoneLost'
    BY <1>2, <2>1, <2>2, BuffersGo DEF BufferInv
  <2>4. SizesAgree'
    BY <1>3, <1>5, <2>1, <2>3, RemainingSizes DEF BufferInv, InCall
  <2>5. QED
    BY <2>3, <2>4 DEF BufferInv
<1>6. QED
  BY <1>1, <1>4, <1>5 DEF Free

\* The buffers of its cache are gone with a thread.
LEMMA EndLeaks ==
    ASSUME IInv, BufferInv, NEW t \in Threads, ThreadEnds(t)
    PROVE  BufferInv'
<1> DEFINE gone == {cache[t][n] : n \in DOMAIN cache[t]}
<1>1. /\ ~InCall(t) /\ UNCHANGED call
      /\ cache' = [cache EXCEPT ![t] = <<>>]
      /\ heap' = [b \in DOMAIN heap \ gone |-> heap[b]]
  BY DEF ThreadEnds
<1>2. /\ cache[t] \in Seq(Buffers) /\ DOMAIN cache[t] = 1 .. Len(cache[t])
      /\ \A n \in 1 .. Len(cache[t]) : cache[t][n] \in Buffers
  BY CacheTypes, LenProperties
<1>3. gone \in SUBSET Buffers /\ \A c : c \in gone <=> \E n \in 1 .. Len(cache[t]) : cache[t][n] = c
  BY <1>2
<1>4. Len(cache'[t]) = 0 /\ \A u \in Threads \ {t} : cache'[u] = cache[u]
  BY <1>1, EmptySeq DEF IInv, BufferTypeOK
<1>5. DOMAIN heap' = DOMAIN heap \ gone /\ \A c \in DOMAIN heap \ gone : heap'[c] = heap[c]
  BY <1>1
<1> HIDE DEF gone
<1>6. ASSUME NEW c \in Buffers, NEW u \in Threads, NEW k \in Nat
      PROVE  In(c, u, k)' <=> In(c, u, k) /\ c \notin gone
  <2>1. c \in gone => \E n \in Nat : In(c, t, n)
    BY <1>2, <1>3 DEF In
  <2>2. c \in gone /\ In(c, u, k) => u = t
    BY <2>1 DEF BufferInv, NotTwice
  <2>3. In(c, t, k) => c \in gone
    BY <1>1, <1>3 DEF In
  <2>4. ~In(c, t, k)'
    BY <1>1, <1>4 DEF In, InCall
  <2>5. CASE u # t
    BY <1>1, <1>4, <2>2, <2>5 DEF In, InCall
  <2>6. QED
    BY <2>3, <2>4, <2>5
<1>7. NotTwice' /\ NoneLost'
  BY <1>3, <1>5, <1>6, BuffersGo DEF BufferInv
<1>8. SizesAgree'
  BY <1>1, <1>4, <1>5, <1>6, <1>7, RemainingSizes DEF BufferInv, InCall
<1>9. QED
  BY <1>7, <1>8 DEF BufferInv

LEMMA StepKeepsBuffers == IInv /\ BufferInv /\ [Next]_vars => BufferInv'
<1> SUFFICES ASSUME IInv, BufferInv, [Next]_vars PROVE BufferInv'
  OBVIOUS
<1>1. CASE UNCHANGED vars
  BY <1>1, BuffersStay DEF vars, bufferVars, InCall
<1>2. CASE \E t \in Threads, d \in Devices, k \in Kinds, first \in 0 .. CounterSize - 1 :
        OpenDevice(t, d, k, first)
  BY <1>2, BuffersStay DEF OpenDevice, InCall
<1>3. CASE \E t \in Threads, d \in Devices, size \in Sizes :
        TakeCached(t, d, size) \/ Allocate(t, d, size)
  BY <1>3, TakeCachedMoves, AllocateMakes
<1>4. CASE \E d \in Devices : CloseDevice(d)
  BY <1>4, BuffersStay DEF CloseDevice, InCall
<1>5. ASSUME NEW t \in Threads, TakeQueue(t) \/ InitQueue(t)
      PROVE  BufferInv'
  <2>1. PICK place \in Places : Goto(t, place) /\ call[t].at \in {"queue", "init"}
    BY <1>5 DEF TakeQueue, InitQueue, Places
  <2>2. InCall(t) /\ call[t] \in Calls /\ call \in [Threads -> Calls]
    BY <2>1 DEF IInv, CallsAreSound, InCall, Idle
  <2>3. PICK d : d = [call[t] EXCEPT !.at = place]
    OBVIOUS
  <2>4. d # Idle /\ d.buffer = call[t].buffer /\ d.size = call[t].size
    BY <2>2, <2>3 DEF Calls, Idle, InCall
  <2>5. call'[t] = d /\ \A u \in Threads \ {t} : call'[u] = call[u]
    BY <2>1, <2>2, <2>3 DEF Goto, Become
  <2>6. UNCHANGED bufferVars
    BY <1>5 DEF TakeQueue, InitQueue
  <2>7. QED
    BY <2>2, <2>4, <2>5, <2>6, BuffersStay DEF InCall
<1>6. CASE \E t \in Threads :
        ThreadEnds(t) \/ TakeQueue(t) \/ InitQueue(t) \/ TransferFails(t) \/ Return(t)
  BY <1>5, <1>6, EndLeaks, LeaveFrees
<1>7. QED
  BY <1>1, <1>2, <1>3, <1>4, <1>6 DEF Next

\* A device buffer is handed out to one call, or is one entry of one thread's cache,
\* or is freed, and never two of these: what FreeDeviceBuffer puts into the cache or
\* frees (nvme_cached_buffer_allocator.hpp:36) is no other call's, and a buffer from
\* the cache has the size that was asked for, whatever the threads do in between.
THEOREM BuffersAreHandedOutOnce == Spec => []BuffersHaveOnePlace
<1>1. IInv /\ BufferInv => BuffersHaveOnePlace
  <2> SUFFICES ASSUME IInv, BufferInv PROVE BuffersHaveOnePlace
    OBVIOUS
  <2>1. \A b : \A t \in Threads : t \in Holders(b) <=> In(b, t, 0)
    <3>1. \A t \in Threads : 0 \notin 1 .. Len(cache[t])
      OBVIOUS
    <3>2. QED
      BY <3>1 DEF Holders, In
  <2>2. \A b : \A t \in Threads, n \in 1 .. CacheDepth : <<t, n>> \in Cached(b) <=> In(b, t, n)
    <3>1. ASSUME NEW t \in Threads, NEW n \in 1 .. CacheDepth
          PROVE  n # 0 /\ (n <= Len(cache[t]) <=> n \in 1 .. Len(cache[t]))
      BY CacheTypes, DeviceAssumption
    <3>2. QED
      BY <3>1 DEF Cached, In
  <2>3. ASSUME NEW b, NEW t \in Threads, NEW n \in Nat, In(b, t, n), n # 0
        PROVE  n \in 1 .. CacheDepth
    <3>1. Len(cache[t]) \in Nat /\ Len(cache[t]) <= CacheDepth /\ n \in 1 .. Len(cache[t])
      BY <2>3, CacheTypes DEF In, IInv, BufferTypeOK
    <3>2. QED
      BY <3>1, DeviceAssumption
  <2>4. \A b : Holders(b) \subseteq Threads /\ Cached(b) \subseteq Threads \X (1 .. CacheDepth)
    BY DEF Holders, Cached
  <2>5. ASSUME NEW b \in Buffers, b \notin DOMAIN heap
        PROVE  Holders(b) = {} /\ Cached(b) = {}
    <3>1. \A t \in Threads, n \in Nat : ~In(b, t, n)
      BY <2>5 DEF BufferInv, NoneLost, Somewhere
    <3>2. QED
      BY <2>1, <2>2, <2>4, <3>1, DeviceAssumption
  <2>6. ASSUME NEW b \in Buffers, b \in DOMAIN heap
        PROVE  \/ Cached(b) = {} /\ \E t : Holders(b) = {t}
               \/ Holders(b) = {} /\ \E p : Cached(b) = {p}
    <3>1. PICK t \in Threads, n \in Nat : In(b, t, n)
      BY <2>6 DEF BufferInv, NoneLost, Somewhere
    <3>2. \A u \in Threads, m \in Nat : In(b, u, m) => u = t /\ m = n
      BY <3>1 DEF BufferInv, NotTwice
    <3>3. \A m \in 1 .. CacheDepth : m \in Nat /\ m # 0
      BY DeviceAssumption
    <3>4. CASE n = 0
      BY <2>1, <2>2, <2>4, <3>1, <3>2, <3>3, <3>4
    <3>5. CASE n # 0
      <4>1. n \in 1 .. CacheDepth
        BY <2>3, <3>1, <3>5
      <4>2. Holders(b) = {}
        BY <2>1, <2>4, <3>2, <3>5
      <4>3. <<t, n>> \in Cached(b)
        BY <2>2, <3>1, <4>1
      <4>4. \A p \in Cached(b) : p = <<t, n>>
        BY <2>2, <2>4, <3>2, <3>3
      <4>5. QED
        BY <4>2, <4>3, <4>4
    <3>6. QED
      BY <3>4, <3>5
  <2>7. ASSUME NEW b \in Buffers
        PROVE  Cardinality(Holders(b)) + Cardinality(Cached(b))
                    = (IF b \in DOMAIN heap THEN 1 ELSE 0)
    <3>1. b \notin DOMAIN heap => Cardinality(Holders(b)) = 0 /\ Cardinality(Cached(b)) = 0
      BY <2>5, FS_EmptySet
    <3>2. b \in DOMAIN heap => \/ Cardinality(Holders(b)) = 1 /\ Cardinality(Cached(b)) = 0
                               \/ Cardinality(Holders(b)) = 0 /\ Cardinality(Cached(b)) = 1
      BY <2>6, FS_EmptySet, FS_Singleton
    <3>3. QED
      BY <3>1, <3>2
  <2>8. QED
    BY <2>7 DEF BuffersHaveOnePlace, BufferInv, SizesAgree
<1>2. QED
  BY Invariance, BuffersInitially, StepKeepsBuffers, <1>1, PTL DEF Spec

=============================================================================
