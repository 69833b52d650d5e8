------------------------- MODULE PrefetchEngineProofs -------------------------
(***************************************************************************)
(* PrefetchEngine for any number of threads, any device and any length of  *)
(* transfer: a read returns what it was asked for, and no thread reads     *)
(* less than it has written itself.                                        *)
(***************************************************************************)
EXTENDS PrefetchEngine, TLAPS

\* What a thread's own place in the code says of its call and its prefetch.
OnDevice(t) == call[t].lba + call[t].nr_lbas <= LbaCount

\* A thread has drained its prefetch before it submits a command, and waits only
\* for one that was submitted.
Drained(t) ==
    /\ call[t].at \in {"submit", "prefetch"} => ~prefetch[t].active
    /\ call[t].at = "wait" => prefetch[t].active
    /\ prefetch[t].active => prefetch[t].sent

ReadData(t) ==
    call[t].op = "read" /\ call[t].at \in {"prefetch", "return"} =>
        /\ DOMAIN call[t].data = CallRange(t)
        /\ \A l \in CallRange(t) : call[t].data[l] >= own[t][l]

PrefetchRange(t) == Range(prefetch[t].lba, prefetch[t].nr_lbas)

\* The prefetched LBAs are at least as new as what the thread has written: it
\* drains the prefetch before it writes again.
PrefetchData(t) ==
    prefetch[t].ready =>
        /\ prefetch[t].active
        /\ DOMAIN prefetch[t].data = PrefetchRange(t)
        /\ PrefetchRange(t) \subseteq Lbas =>
            \A l \in PrefetchRange(t) : prefetch[t].data[l] >= own[t][l]

OwnIsOnDevice(t) == \A l \in Lbas : own[t][l] <= media[l]

ThreadInv(t) == OnDevice(t) /\ Drained(t) /\ ReadData(t) /\ PrefetchData(t) /\ OwnIsOnDevice(t)

IInv == TypeOK /\ \A t \in Threads : ThreadInv(t)

-----------------------------------------------------------------------------
(* The shape of the records. *)

LEMMA DataType ==
    ASSUME NEW lba \in 0 .. LbaCount, NEW nr \in 0 .. MaxIoLbas,
           NEW f \in [Range(lba, nr) -> Contents]
    PROVE  f \in Data
<1> DEFINE S == {[Range(a, n) -> Contents] : a \in 0 .. LbaCount, n \in 0 .. MaxIoLbas}
<1>1. [Range(lba, nr) -> Contents] \in S
  OBVIOUS
<1>2. Data = UNION S
  BY DEF Data
<1> HIDE DEF S
<1>3. QED BY <1>1, <1>2

LEMMA NoDataType == NoData \in Data /\ DOMAIN NoData = {}
<1>1. Range(0, 0) = {} /\ 0 \in 0 .. LbaCount /\ 0 \in 0 .. MaxIoLbas
  BY PrefetchAssumption DEF Range
<1>2. NoData \in [Range(0, 0) -> Contents]
  BY <1>1 DEF NoData, Contents
<1>3. QED BY <1>1, <1>2, DataType DEF NoData

LEMMA NoPrefetchType == NoPrefetch \in PrefetchState
<1>1. 0 \in 0 .. LbaCount /\ 0 \in 0 .. MaxIoLbas
  BY PrefetchAssumption
<1>2. QED BY <1>1, NoDataType, Zenon DEF NoPrefetch, PrefetchState

LEMMA PrefetchingType ==
    ASSUME NEW lba \in 0 .. LbaCount, NEW nr \in 0 .. MaxIoLbas, NEW sent \in BOOLEAN
    PROVE  Prefetching(lba, nr, sent) \in PrefetchState
BY NoDataType, Zenon DEF Prefetching, PrefetchState

LEMMA PrefetchedType ==
    ASSUME NEW p \in PrefetchState, NEW data \in Data
    PROVE  Prefetched(p, data) \in PrefetchState
BY Zenon DEF Prefetched, PrefetchState

LEMMA NoCallType == NoCall \in Calls
<1>1. 0 \in Lbas /\ 0 \in 0 .. MaxIoLbas
  BY PrefetchAssumption DEF Lbas
<1>2. QED BY <1>1, NoDataType DEF NoCall, Calls

LEMMA CallAtType ==
    ASSUME NEW c \in Calls, NEW data \in Data,
           NEW label \in {"submit", "prefetch", "return"}
    PROVE  CallAt(c, label, data) \in Calls
BY DEF CallAt, Calls

\* The types of one thread's state.
LEMMA Types ==
    ASSUME TypeOK, NEW t \in Threads
    PROVE  /\ prefetch[t] \in PrefetchState
           /\ prefetch[t].lba \in 0 .. LbaCount /\ prefetch[t].nr_lbas \in 0 .. MaxIoLbas
           /\ prefetch[t].data \in Data
           /\ call[t] \in Calls
           /\ call[t].lba \in Lbas /\ call[t].nr_lbas \in 0 .. MaxIoLbas
           /\ call[t].data \in Data
           /\ contexts[t] \in 0 .. QueueDepth
           /\ own[t] \in [Lbas -> 0 .. MaxWrites]
BY DEF TypeOK, PrefetchState, Calls

-----------------------------------------------------------------------------
(* A step of one thread. *)

\* What a thread's invariant says does not change while its own state does not
\* and the device only moves on.
LEMMA OthersKeep ==
    ASSUME TypeOK, NEW u \in Threads, ThreadInv(u),
           prefetch'[u] = prefetch[u], call'[u] = call[u], own'[u] = own[u],
           media' \in [Lbas -> 0 .. MaxWrites],
           \A l \in Lbas : media'[l] >= media[l]
    PROVE  ThreadInv(u)'
<1>1. OnDevice(u)' /\ Drained(u)' /\ ReadData(u)' /\ PrefetchData(u)'
  BY DEF ThreadInv, OnDevice, Drained, ReadData, PrefetchData, PrefetchRange, CallRange
<1>2. OwnIsOnDevice(u)'
  <2> SUFFICES ASSUME NEW l \in Lbas
               PROVE  own[u][l] <= media'[l]
    BY DEF OwnIsOnDevice
  <2>1. own[u][l] \in Nat /\ media[l] \in Nat /\ media'[l] \in Nat
    BY PrefetchAssumption DEF TypeOK
  <2>2. QED BY <2>1 DEF ThreadInv, OwnIsOnDevice
<1>3. QED BY <1>1, <1>2 DEF ThreadInv

\* What is left to show of a step of thread t that writes nothing.
LEMMA StepKeeps ==
    ASSUME IInv, NEW t \in Threads,
           NEW p \in PrefetchState, NEW c \in Calls, NEW n \in 0 .. QueueDepth,
           prefetch' = [prefetch EXCEPT ![t] = p],
           call' = [call EXCEPT ![t] = c],
           contexts' = [contexts EXCEPT ![t] = n],
           undefined' \in BOOLEAN, UNCHANGED <<media, own>>,
           OnDevice(t)', Drained(t)', ReadData(t)', PrefetchData(t)'
    PROVE  IInv'
<1>1. TypeOK'
  BY DEF IInv, TypeOK
<1>2. ThreadInv(t)'
  BY DEF IInv, ThreadInv, OwnIsOnDevice
<1>3. ASSUME NEW u \in Threads, u # t
      PROVE  ThreadInv(u)'
  <2>1. prefetch'[u] = prefetch[u] /\ call'[u] = call[u] /\ own'[u] = own[u]
    BY <1>3 DEF IInv, TypeOK
  <2>2. media' \in [Lbas -> 0 .. MaxWrites] /\ \A l \in Lbas : media'[l] >= media[l]
    BY PrefetchAssumption DEF IInv, TypeOK
  <2>3. TypeOK /\ ThreadInv(u)
    BY DEF IInv
  <2>4. QED BY <2>1, <2>2, <2>3, OthersKeep
<1>4. QED BY <1>1, <1>2, <1>3 DEF IInv

-----------------------------------------------------------------------------
(* The steps that write nothing. *)

\* A state left as it is, in the form of StepKeeps.
LEMMA SamePrefetch ==
    ASSUME IInv, NEW t \in Threads, UNCHANGED prefetch
    PROVE  prefetch' = [prefetch EXCEPT ![t] = prefetch[t]] /\ prefetch[t] \in PrefetchState
BY DEF IInv, TypeOK

LEMMA SameCall ==
    ASSUME IInv, NEW t \in Threads, UNCHANGED call
    PROVE  call' = [call EXCEPT ![t] = call[t]] /\ call[t] \in Calls
BY DEF IInv, TypeOK

LEMMA SameContexts ==
    ASSUME IInv, NEW t \in Threads, UNCHANGED contexts
    PROVE  contexts' = [contexts EXCEPT ![t] = contexts[t]] /\ contexts[t] \in 0 .. QueueDepth
BY DEF IInv, TypeOK

LEMMA LostContext ==
    ASSUME IInv, NEW t \in Threads, LoseContext(t)
    PROVE  /\ contexts' = [contexts EXCEPT ![t] = contexts[t] - 1]
           /\ contexts[t] - 1 \in 0 .. QueueDepth
BY PrefetchAssumption DEF IInv, TypeOK, LoseContext, HasContext, InUse

\* A thread between calls.
LEMMA EndOfCall ==
    ASSUME IInv, NEW t \in Threads, NEW n \in 0 .. QueueDepth,
           call' = [call EXCEPT ![t] = NoCall],
           contexts' = [contexts EXCEPT ![t] = n],
           UNCHANGED <<media, prefetch, undefined, own>>
    PROVE  IInv'
<1>1. call'[t] = NoCall /\ prefetch'[t] = prefetch[t] /\ own'[t] = own[t]
  BY DEF IInv, TypeOK
<1>2. OnDevice(t)' /\ ReadData(t)'
  BY <1>1, PrefetchAssumption DEF OnDevice, ReadData, NoCall
<1>3. Drained(t)' /\ PrefetchData(t)'
  BY <1>1 DEF IInv, ThreadInv, Drained, PrefetchData, PrefetchRange, NoCall
<1>4. undefined' \in BOOLEAN
  BY DEF IInv, TypeOK
<1>5. QED BY <1>2, <1>3, <1>4, SamePrefetch, NoCallType, StepKeeps

LEMMA BeginKeeps ==
    ASSUME IInv, NEW t \in Threads, NEW lba \in Lbas, NEW nr \in 1 .. MaxIoLbas,
           NEW op \in {"read", "write"}, Begin(t, op, lba, nr, "submit")
    PROVE  IInv'
<1> DEFINE Before == IF op = "read" THEN [l \in Range(lba, nr) |-> media[l]] ELSE NoData
           Started == [op |-> op, at |-> IF prefetch[t].active THEN "wait" ELSE "submit",
                       lba |-> lba, nr_lbas |-> nr, data |-> NoData, before |-> Before]
<1>1. call' = [call EXCEPT ![t] = Started] /\ lba + nr <= LbaCount
      /\ UNCHANGED <<media, prefetch, contexts, undefined, own>>
  BY Zenon DEF Begin, Waits
<1>2. Before \in Data
  <2>1. CASE op = "read"
    <3>1. Range(lba, nr) \subseteq Lbas
      BY <1>1, PrefetchAssumption DEF Range, Lbas
    <3>2. [l \in Range(lba, nr) |-> media[l]] \in [Range(lba, nr) -> Contents]
      BY <3>1 DEF IInv, TypeOK, Contents
    <3>3. lba \in 0 .. LbaCount /\ nr \in 0 .. MaxIoLbas
      BY PrefetchAssumption DEF Lbas
    <3>4. [l \in Range(lba, nr) |-> media[l]] \in Data
      BY <3>2, <3>3, DataType
    <3>5. QED BY <2>1, <3>4
  <2>2. CASE op # "read"
    BY <2>2, NoDataType
  <2>3. QED BY <2>1, <2>2
<1> HIDE DEF Before
<1>3. Started \in Calls
  BY <1>2, NoDataType, PrefetchAssumption DEF Calls
<1>4. /\ Started.lba = lba /\ Started.nr_lbas = nr
      /\ Started.at \in {"wait", "submit"}
      /\ Started.at = "wait" <=> prefetch[t].active
  OBVIOUS
<1> HIDE DEF Started
<1>5. call'[t] = Started /\ prefetch'[t] = prefetch[t] /\ own'[t] = own[t]
  BY <1>1 DEF IInv, TypeOK
<1>6. OnDevice(t)' /\ ReadData(t)'
  BY <1>1, <1>4, <1>5 DEF OnDevice, ReadData
<1>7. Drained(t)' /\ PrefetchData(t)'
  BY <1>4, <1>5 DEF IInv, ThreadInv, Drained, PrefetchData, PrefetchRange
<1>8. undefined' \in BOOLEAN
  BY <1>1 DEF IInv, TypeOK
<1>9. QED
  BY <1>1, <1>3, <1>6, <1>7, <1>8, SamePrefetch, SameContexts, StepKeeps

LEMMA DevicePrefetchesKeeps ==
    ASSUME IInv, NEW t \in Threads, DevicePrefetches(t)
    PROVE  IInv'
<1> DEFINE range == PrefetchRange(t)
           data == [l \in range |-> IF range \subseteq Lbas THEN media[l] ELSE Garbage]
           p == Prefetched(prefetch[t], data)
<1>1. /\ prefetch[t].active /\ prefetch' = [prefetch EXCEPT ![t] = p]
      /\ UNCHANGED <<media, call, contexts, undefined, own>>
  BY Zenon DEF DevicePrefetches, PrefetchRange
<1>2. TypeOK /\ ThreadInv(t)
  BY DEF IInv
<1>3. data \in [range -> Contents]
  <2>1. \A l \in range : (IF range \subseteq Lbas THEN media[l] ELSE Garbage) \in Contents
    BY <1>2 DEF TypeOK, Contents
  <2>2. QED BY <2>1
<1>4. data \in Data
  BY <1>2, <1>3, Types, DataType DEF PrefetchRange
<1>5. range \subseteq Lbas => \A l \in range : data[l] >= own[t][l]
  <2> SUFFICES ASSUME range \subseteq Lbas, NEW l \in range
               PROVE  media[l] >= own[t][l]
    OBVIOUS
  <2>1. own[t][l] <= media[l] /\ own[t][l] \in Nat /\ media[l] \in Nat
    BY <1>2, PrefetchAssumption DEF ThreadInv, OwnIsOnDevice, TypeOK
  <2>2. QED BY <2>1
<1>6. DOMAIN data = range
  OBVIOUS
<1> HIDE DEF data
<1>7. p \in PrefetchState
  BY <1>2, <1>4, Types, PrefetchedType
<1>8. p.active = prefetch[t].active /\ p.lba = prefetch[t].lba
      /\ p.sent = prefetch[t].sent
      /\ p.nr_lbas = prefetch[t].nr_lbas /\ p.data = data
  BY Zenon DEF Prefetched
<1> HIDE DEF p
<1>9. prefetch'[t] = p /\ call'[t] = call[t] /\ own'[t] = own[t]
  BY <1>1, <1>2 DEF TypeOK
<1>10. PrefetchData(t)'
  BY <1>1, <1>5, <1>6, <1>8, <1>9 DEF PrefetchData, PrefetchRange
<1>11. OnDevice(t)' /\ Drained(t)' /\ ReadData(t)'
  BY <1>2, <1>8, <1>9 DEF ThreadInv, OnDevice, Drained, ReadData, CallRange
<1>12. undefined' \in BOOLEAN
  BY <1>1, <1>2 DEF TypeOK
<1>13. QED
  BY <1>1, <1>7, <1>10, <1>11, <1>12, SameCall, SameContexts, StepKeeps

\* The call goes on without a prefetch of its own.
LEMMA ClearedKeeps ==
    ASSUME IInv, NEW t \in Threads, NEW n \in 0 .. QueueDepth, NEW data \in Data,
           NEW label \in {"submit", "prefetch", "return"},
           prefetch' = [prefetch EXCEPT ![t] = NoPrefetch],
           call' = [call EXCEPT ![t] = CallAt(call[t], label, data)],
           contexts' = [contexts EXCEPT ![t] = n],
           UNCHANGED <<media, undefined, own>>,
           call[t].op = "read" /\ label # "submit" =>
                /\ DOMAIN data = CallRange(t)
                /\ \A l \in CallRange(t) : data[l] >= own[t][l]
    PROVE  IInv'
<1> DEFINE c == CallAt(call[t], label, data)
<1>1. TypeOK /\ ThreadInv(t)
  BY DEF IInv
<1>2. c \in Calls
  BY <1>1, Types, CallAtType
<1>3. c.op = call[t].op /\ c.at = label /\ c.lba = call[t].lba
      /\ c.nr_lbas = call[t].nr_lbas /\ c.data = data
  BY DEF CallAt
<1> HIDE DEF c
<1>4. call'[t] = c /\ prefetch'[t] = NoPrefetch /\ own'[t] = own[t]
  BY <1>1 DEF TypeOK, c
<1>5. OnDevice(t)'
  BY <1>1, <1>3, <1>4 DEF ThreadInv, OnDevice
<1>6. ReadData(t)'
  BY <1>3, <1>4 DEF ReadData, CallRange
<1>7. Drained(t)' /\ PrefetchData(t)'
  BY <1>3, <1>4 DEF Drained, PrefetchData, NoPrefetch
<1>8. undefined' \in BOOLEAN
  BY <1>1 DEF TypeOK
<1>9. call' = [call EXCEPT ![t] = c]
  BY DEF c
<1>10. QED
  BY <1>2, <1>5, <1>6, <1>7, <1>8, <1>9, NoPrefetchType, StepKeeps

LEMMA TakePrefetchKeeps ==
    ASSUME IInv, NEW t \in Threads, TakePrefetch(t)
    PROVE  IInv'
<1>1. /\ prefetch[t].ready
      /\ prefetch[t].lba = call[t].lba /\ prefetch[t].nr_lbas = call[t].nr_lbas
      /\ prefetch' = [prefetch EXCEPT ![t] = NoPrefetch]
      /\ call' = [call EXCEPT ![t] = CallAt(call[t], "prefetch", prefetch[t].data)]
      /\ UNCHANGED <<media, contexts, undefined, own>>
  BY Zenon DEF TakePrefetch, Matches, GotoWith
<1>2. TypeOK /\ OnDevice(t) /\ PrefetchData(t)
  BY DEF IInv, ThreadInv
<1>3. PrefetchRange(t) = CallRange(t)
  BY <1>1 DEF PrefetchRange, CallRange
<1>4. CallRange(t) \subseteq Lbas
  BY <1>2, Types, PrefetchAssumption DEF OnDevice, CallRange, Range, Lbas
<1>5. /\ DOMAIN prefetch[t].data = CallRange(t)
      /\ \A l \in CallRange(t) : prefetch[t].data[l] >= own[t][l]
  BY <1>1, <1>2, <1>3, <1>4 DEF PrefetchData
<1>6. prefetch[t].data \in Data
  BY <1>2, Types
<1>7. QED BY <1>1, <1>5, <1>6, SameContexts, ClearedKeeps

LEMMA DropPrefetchKeeps ==
    ASSUME IInv, NEW t \in Threads, DropPrefetch(t) \/ DrainPrefetch(t)
    PROVE  IInv'
<1>1. /\ prefetch' = [prefetch EXCEPT ![t] = NoPrefetch]
      /\ call' = [call EXCEPT ![t] = CallAt(call[t], "submit", call[t].data)]
      /\ UNCHANGED <<media, contexts, undefined, own>>
  BY Zenon DEF DropPrefetch, DrainPrefetch, Goto, GotoWith
<1>2. call[t].data \in Data
  BY Types DEF IInv
<1> DEFINE label == "submit"
<1>3. /\ label \in {"submit", "prefetch", "return"} /\ label = "submit"
      /\ call' = [call EXCEPT ![t] = CallAt(call[t], label, call[t].data)]
  BY <1>1
<1> HIDE DEF label
<1>4. QED BY <1>1, <1>2, <1>3, SameContexts, ClearedKeeps

LEMMA PrefetchRefusedKeeps ==
    ASSUME IInv, NEW t \in Threads, PrefetchRefused(t)
    PROVE  IInv'
<1>1. /\ call[t].at = "prefetch" /\ LoseContext(t)
      /\ prefetch' = [prefetch EXCEPT ![t] = NoPrefetch]
      /\ call' = [call EXCEPT ![t] = CallAt(call[t], "return", call[t].data)]
      /\ UNCHANGED <<media, undefined, own>>
  BY Zenon DEF PrefetchRefused, At, Goto, GotoWith
<1>2. TypeOK /\ ReadData(t)
  BY DEF IInv, ThreadInv
<1>3. call[t].data \in Data
  BY <1>2, Types
<1>4. call[t].op = "read" =>
        /\ DOMAIN call[t].data = CallRange(t)
        /\ \A l \in CallRange(t) : call[t].data[l] >= own[t][l]
  BY <1>1, <1>2 DEF ReadData
<1>5. QED BY <1>1, <1>3, <1>4, LostContext, ClearedKeeps

LEMMA SubmitPrefetchKeeps ==
    ASSUME IInv, NEW t \in Threads, SubmitPrefetch(t)
    PROVE  IInv'
<1> DEFINE p == Prefetching(NextLba(t), call[t].nr_lbas, TRUE)
           c == CallAt(call[t], "return", call[t].data)
<1>1. /\ call[t].at = "prefetch"
      /\ prefetch' = [prefetch EXCEPT ![t] = p]
      /\ call' = [call EXCEPT ![t] = c]
      /\ UNCHANGED <<media, contexts, undefined, own>>
  BY Zenon DEF SubmitPrefetch, At, Goto, GotoWith
<1>2. TypeOK /\ OnDevice(t) /\ ReadData(t)
  BY DEF IInv, ThreadInv
<1>3. NextLba(t) \in 0 .. LbaCount
  BY <1>2, Types, PrefetchAssumption DEF OnDevice, NextLba, Lbas
<1>4. p \in PrefetchState
  BY <1>2, <1>3, Types, PrefetchingType
<1>5. c \in Calls
  BY <1>2, Types, CallAtType
<1>6. ~p.ready /\ p.sent
  BY Zenon DEF Prefetching
<1>7. c.op = call[t].op /\ c.at = "return" /\ c.lba = call[t].lba
      /\ c.nr_lbas = call[t].nr_lbas /\ c.data = call[t].data
  BY DEF CallAt
<1> HIDE DEF p, c
<1>8. call'[t] = c /\ prefetch'[t] = p /\ own'[t] = own[t]
  BY <1>1, <1>2 DEF TypeOK
<1>9. OnDevice(t)' /\ Drained(t)' /\ ReadData(t)'
  BY <1>1, <1>2, <1>6, <1>7, <1>8 DEF OnDevice, Drained, ReadData, CallRange
<1>10. PrefetchData(t)'
  BY <1>6, <1>8 DEF PrefetchData
<1>11. undefined' \in BOOLEAN
  BY <1>1, <1>2 DEF TypeOK
<1>12. QED
  BY <1>1, <1>4, <1>5, <1>9, <1>10, <1>11, SameContexts, StepKeeps

LEMMA DeviceReadsKeeps ==
    ASSUME IInv, NEW t \in Threads, DeviceReads(t)
    PROVE  IInv'
<1> DEFINE data == [l \in CallRange(t) |-> media[l]]
           c == CallAt(call[t], "prefetch", data)
<1>1. /\ call[t].at = "submit"
      /\ call' = [call EXCEPT ![t] = c]
      /\ UNCHANGED <<media, prefetch, contexts, undefined, own>>
  BY Zenon DEF DeviceReads, At, GotoWith
<1>2. TypeOK /\ OnDevice(t) /\ Drained(t) /\ PrefetchData(t) /\ OwnIsOnDevice(t)
  BY DEF IInv, ThreadInv
<1>3. CallRange(t) \subseteq Lbas
  BY <1>2, Types, PrefetchAssumption DEF OnDevice, CallRange, Range, Lbas
<1>4. data \in [CallRange(t) -> Contents]
  BY <1>2, <1>3 DEF TypeOK, Contents
<1>5. data \in Data
  <2>1. call[t].lba \in 0 .. LbaCount
    BY <1>2, Types, PrefetchAssumption DEF Lbas
  <2>2. QED BY <1>2, <1>4, <2>1, Types, DataType DEF CallRange
<1>6. DOMAIN data = CallRange(t)
  OBVIOUS
<1>7. \A l \in CallRange(t) : data[l] >= own[t][l]
  <2> SUFFICES ASSUME NEW l \in CallRange(t)
               PROVE  media[l] >= own[t][l]
    OBVIOUS
  <2>1. own[t][l] <= media[l] /\ own[t][l] \in Nat /\ media[l] \in Nat
    BY <1>2, <1>3, PrefetchAssumption DEF OwnIsOnDevice, TypeOK
  <2>2. QED BY <2>1
<1> HIDE DEF data
<1>8. c \in Calls
  BY <1>2, <1>5, Types, CallAtType
<1>9. c.op = call[t].op /\ c.at = "prefetch" /\ c.lba = call[t].lba
      /\ c.nr_lbas = call[t].nr_lbas /\ c.data = data
  BY DEF CallAt
<1> HIDE DEF c
<1>10. call'[t] = c /\ prefetch'[t] = prefetch[t] /\ own'[t] = own[t]
  BY <1>1, <1>2 DEF TypeOK
<1>11. OnDevice(t)' /\ Drained(t)'
  BY <1>1, <1>2, <1>9, <1>10 DEF OnDevice, Drained
<1>12. ReadData(t)'
  BY <1>6, <1>7, <1>9, <1>10 DEF ReadData, CallRange
<1>13. PrefetchData(t)'
  BY <1>2, <1>10 DEF PrefetchData, PrefetchRange
<1>14. undefined' \in BOOLEAN
  BY <1>1, <1>2 DEF TypeOK
<1>15. QED
  BY <1>1, <1>8, <1>11, <1>12, <1>13, <1>14, SamePrefetch, SameContexts, StepKeeps

LEMMA NoContextKeeps ==
    ASSUME IInv, NEW t \in Threads, NoContext(t)
    PROVE  IInv'
<1>1. undefined' = TRUE /\ UNCHANGED <<media, prefetch, call, contexts, own>>
  BY DEF NoContext
<1>2. TypeOK'
  BY <1>1 DEF IInv, TypeOK
<1>3. ASSUME NEW u \in Threads
      PROVE  ThreadInv(u)'
  BY <1>1 DEF IInv, ThreadInv, OnDevice, Drained, ReadData, PrefetchData, OwnIsOnDevice,
              PrefetchRange, CallRange
<1>4. QED BY <1>2, <1>3 DEF IInv

-----------------------------------------------------------------------------
(* The write. *)

LEMMA DeviceWritesKeeps ==
    ASSUME IInv, NEW t \in Threads, DeviceWrites(t)
    PROVE  IInv'
<1> DEFINE range == CallRange(t)
           written == [l \in Lbas |-> IF l \in range THEN media[l] + 1 ELSE media[l]]
           mine == [l \in Lbas |-> IF l \in range THEN written[l] ELSE own[t][l]]
           c == CallAt(call[t], "return", call[t].data)
<1>1. /\ call[t].op = "write" /\ call[t].at = "submit"
      /\ \A l \in range : media[l] < MaxWrites
      /\ media' = written
      /\ own' = [own EXCEPT ![t] = [l \in Lbas |-> IF l \in range THEN media'[l] ELSE @[l]]]
      /\ call' = [call EXCEPT ![t] = c]
      /\ UNCHANGED <<prefetch, contexts, undefined>>
  BY Zenon DEF DeviceWrites, At, Goto, GotoWith
<1>2. TypeOK /\ OnDevice(t) /\ Drained(t) /\ PrefetchData(t) /\ OwnIsOnDevice(t)
  BY DEF IInv, ThreadInv
<1>3. media \in [Lbas -> 0 .. MaxWrites] /\ own \in [Threads -> [Lbas -> 0 .. MaxWrites]]
  BY <1>2 DEF TypeOK
<1>4. own' = [own EXCEPT ![t] = mine]
  BY <1>1
<1>5. written \in [Lbas -> 0 .. MaxWrites] /\ \A l \in Lbas : written[l] >= media[l]
  <2> SUFFICES ASSUME NEW l \in Lbas
               PROVE  written[l] \in 0 .. MaxWrites /\ written[l] >= media[l]
    OBVIOUS
  <2>1. media[l] \in 0 .. MaxWrites /\ (l \in range => media[l] < MaxWrites)
    BY <1>1, <1>3
  <2>2. QED BY <2>1, PrefetchAssumption
<1>6. mine \in [Lbas -> 0 .. MaxWrites] /\ \A l \in Lbas : mine[l] <= written[l]
  <2> SUFFICES ASSUME NEW l \in Lbas
               PROVE  mine[l] \in 0 .. MaxWrites /\ mine[l] <= written[l]
    OBVIOUS
  <2>1. own[t][l] \in 0 .. MaxWrites /\ own[t][l] <= media[l] /\ media[l] \in 0 .. MaxWrites
    BY <1>2, <1>3 DEF OwnIsOnDevice
  <2>2. written[l] \in 0 .. MaxWrites /\ written[l] >= media[l]
    BY <1>5
  <2>3. mine[l] = IF l \in range THEN written[l] ELSE own[t][l]
    OBVIOUS
  <2> HIDE DEF written, mine
  <2>4. QED BY <2>1, <2>2, <2>3, PrefetchAssumption
<1> HIDE DEF written, mine
<1>7. c \in Calls
  BY <1>2, Types, CallAtType
<1>8. c.op = call[t].op /\ c.at = "return" /\ c.lba = call[t].lba
      /\ c.nr_lbas = call[t].nr_lbas
  BY DEF CallAt
<1> HIDE DEF c
<1>9. TypeOK'
  BY <1>1, <1>2, <1>4, <1>5, <1>6, <1>7 DEF TypeOK
<1>10. call'[t] = c /\ prefetch'[t] = prefetch[t] /\ own'[t] = mine
  BY <1>1, <1>2, <1>4 DEF TypeOK
<1>11. ThreadInv(t)'
  <2>1. OnDevice(t)' /\ Drained(t)'
    BY <1>2, <1>8, <1>10 DEF OnDevice, Drained
  <2>2. ReadData(t)'
    BY <1>1, <1>8, <1>10 DEF ReadData
  <2>3. ~prefetch[t].active
    BY <1>1, <1>2 DEF Drained
  <2>4. PrefetchData(t)'
    BY <1>2, <1>10, <2>3 DEF PrefetchData
  <2>5. OwnIsOnDevice(t)'
    BY <1>1, <1>6, <1>10 DEF OwnIsOnDevice
  <2>6. QED BY <2>1, <2>2, <2>4, <2>5 DEF ThreadInv
<1>12. ASSUME NEW u \in Threads, u # t
       PROVE  ThreadInv(u)'
  <2>1. prefetch'[u] = prefetch[u] /\ call'[u] = call[u] /\ own'[u] = own[u]
    BY <1>1, <1>2, <1>4, <1>12 DEF TypeOK
  <2>2. ThreadInv(u)
    BY DEF IInv
  <2>3. QED BY <1>1, <1>2, <1>5, <2>1, <2>2, OthersKeep
<1>13. QED BY <1>9, <1>11, <1>12 DEF IInv

-----------------------------------------------------------------------------
(* The specification. *)

LEMMA InitIInv == Init => IInv
<1> SUFFICES ASSUME Init PROVE IInv
  OBVIOUS
<1>1. TypeOK
  <2>1. 0 \in 0 .. MaxWrites /\ QueueDepth \in 0 .. QueueDepth
    BY PrefetchAssumption
  <2>2. media \in [Lbas -> 0 .. MaxWrites] /\ own \in [Threads -> [Lbas -> 0 .. MaxWrites]]
    BY <2>1 DEF Init
  <2>3. prefetch \in [Threads -> PrefetchState] /\ call \in [Threads -> Calls]
    BY NoPrefetchType, NoCallType DEF Init
  <2>4. contexts \in [Threads -> 0 .. QueueDepth] /\ undefined \in BOOLEAN
    BY <2>1 DEF Init
  <2>5. QED BY <2>2, <2>3, <2>4 DEF TypeOK
<1>2. ASSUME NEW t \in Threads
      PROVE  ThreadInv(t)
  <2>1. call[t] = NoCall /\ prefetch[t] = NoPrefetch
    BY DEF Init
  <2>2. OnDevice(t) /\ ReadData(t)
    BY <2>1, PrefetchAssumption DEF OnDevice, ReadData, NoCall
  <2>3. Drained(t) /\ PrefetchData(t)
    BY <2>1 DEF Drained, PrefetchData, NoPrefetch, NoCall
  <2>4. OwnIsOnDevice(t)
    BY DEF Init, OwnIsOnDevice
  <2>5. QED BY <2>2, <2>3, <2>4 DEF ThreadInv
<1>3. QED BY <1>1, <1>2 DEF IInv

LEMMA StepIInv ==
    ASSUME IInv, NEW t \in Threads, Step(t)
    PROVE  IInv'
<1>1. CASE TakePrefetch(t)
  BY <1>1, TakePrefetchKeeps
<1>2. CASE DropPrefetch(t) \/ DrainPrefetch(t)
  BY <1>2, DropPrefetchKeeps
<1>3. CASE DeviceReads(t)
  BY <1>3, DeviceReadsKeeps
<1>4. CASE SubmitPrefetch(t)
  BY <1>4, SubmitPrefetchKeeps
<1>5. CASE PrefetchRefused(t)
  BY <1>5, PrefetchRefusedKeeps
<1>6. CASE DeviceWrites(t)
  BY <1>6, DeviceWritesKeeps
<1>7. CASE Refused(t)
  BY <1>7, LostContext, EndOfCall DEF Refused
<1>8. CASE FillFails(t)
  BY <1>8, SameContexts, EndOfCall DEF FillFails
<1>9. CASE NoContext(t)
  BY <1>9, NoContextKeeps
<1>10. CASE Return(t)
  BY <1>10, SameContexts, EndOfCall DEF Return
<1>11. QED
  BY <1>1, <1>2, <1>3, <1>4, <1>5, <1>6, <1>7, <1>8, <1>9, <1>10 DEF Step

LEMMA NextIInv == IInv /\ [Next]_vars => IInv'
<1> SUFFICES ASSUME IInv, [Next]_vars PROVE IInv'
  OBVIOUS
<1>1. CASE Next
  <2>1. PICK t \in Threads :
            \/ \E lba \in Lbas, nr_lbas \in 1 .. MaxIoLbas :
                Read(t, lba, nr_lbas) \/ Write(t, lba, nr_lbas)
            \/ DevicePrefetches(t)
            \/ Step(t)
    BY <1>1, Zenon DEF Next
  <2>2. ASSUME NEW lba \in Lbas, NEW nr_lbas \in 1 .. MaxIoLbas,
               Read(t, lba, nr_lbas) \/ Write(t, lba, nr_lbas)
        PROVE  IInv'
    BY <2>2, BeginKeeps DEF Read, Write
  <2>3. QED
    BY <2>1, <2>2, DevicePrefetchesKeeps, StepIInv
<1>2. CASE UNCHANGED vars
  BY <1>2 DEF vars, IInv, TypeOK, ThreadInv, OnDevice, Drained, ReadData, PrefetchData,
              OwnIsOnDevice, PrefetchRange, CallRange
<1>3. QED BY <1>1, <1>2

LEMMA Invariant == Spec => []IInv
BY InitIInv, NextIInv, PTL DEF Spec

\* The state of the engine keeps its types, for every number of threads and
\* every length of transfer: no prefetch starts beyond the end of the device.
THEOREM TypeCorrect == Spec => []TypeOK
<1>1. IInv => TypeOK
  BY DEF IInv
<1>2. QED BY <1>1, Invariant, PTL

\* NvmeAsynPrefetchIOEngine::Read returns exactly the LBAs it was asked for.
THEOREM ReadsAreWhole == Spec => []ReadsTheirLbas
<1>1. IInv => ReadsTheirLbas
  BY DEF IInv, ThreadInv, ReadData, ReadsTheirLbas, ReadReturns, At
<1>2. QED BY <1>1, Invariant, PTL

\* A thread never reads less than what it has written itself, because
\* NvmeAsynPrefetchIOEngine::Write drains the prefetch before it writes.
THEOREM ThreadsSeeTheirWrites == Spec => []OwnWritesAreSeen
<1>1. IInv => OwnWritesAreSeen
  BY DEF IInv, ThreadInv, ReadData, OwnWritesAreSeen, ReadReturns, At
<1>2. QED BY <1>1, Invariant, PTL

\* Neither Read nor DrainPrefetch polls for a prefetch that the device does not
\* have: a refused one is not active any more.
THEOREM NoWaitIsInVain == Spec => []WaitsAreAnswered
<1>1. IInv => WaitsAreAnswered
  BY DEF IInv, ThreadInv, Drained, WaitsAreAnswered
<1>2. QED BY <1>1, Invariant, PTL

\* The queue of a thread has all contexts that no refusal has taken whenever the
\* engine asks for one: Read and Write wait for the prefetch before, so that a
\* null one is used only when all are taken.
THEOREM OnlyRefusalsUseContextsUp == Spec => []UndefinedOnlyAfterRefusals
<1>1. Init => UndefinedOnlyAfterRefusals
  BY DEF Init, UndefinedOnlyAfterRefusals
<1>2. ASSUME IInv, NEW t \in Threads, NoContext(t) PROVE contexts'[t] = 0
  <2>1. call[t].at \in {"submit", "prefetch"} /\ ~HasContext(t) /\ contexts' = contexts
    BY <1>2 DEF NoContext
  <2>2. ~prefetch[t].active /\ contexts[t] \in 0 .. QueueDepth
    BY <1>2, <2>1, Types DEF IInv, ThreadInv, Drained
  <2>3. QED BY <2>1, <2>2, PrefetchAssumption DEF HasContext, InUse
<1>3. ASSUME IInv, Next, undefined' PROVE \E t \in Threads : contexts'[t] = 0
  <2>1. ~undefined
    BY <1>3 DEF Next
  <2>2. \E t \in Threads : NoContext(t)
    BY <1>3, <2>1
    DEF Next, Step, Read, Write, Begin, DevicePrefetches, TakePrefetch, DropPrefetch, DeviceReads,
        SubmitPrefetch, PrefetchRefused, DrainPrefetch, DeviceWrites, Refused, FillFails, Return
  <2>3. QED BY <1>2, <1>3, <2>2
<1>4. IInv /\ UndefinedOnlyAfterRefusals /\ [Next]_vars => UndefinedOnlyAfterRefusals'
  <2>1. UndefinedOnlyAfterRefusals /\ UNCHANGED vars => UndefinedOnlyAfterRefusals'
    BY DEF UndefinedOnlyAfterRefusals, vars
  <2>2. QED BY <1>3, <2>1 DEF UndefinedOnlyAfterRefusals
<1>5. QED BY <1>1, <1>4, Invariant, PTL DEF Spec
=============================================================================
