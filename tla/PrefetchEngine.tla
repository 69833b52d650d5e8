---------------------------- MODULE PrefetchEngine ----------------------------
(***************************************************************************)
(* NvmeAsynPrefetchIOEngine: after each read a thread asks the device for  *)
(* the LBAs that follow, into a buffer of its own, and takes its next read *)
(* from that buffer if it is for exactly those LBAs.                       *)
(*                                                                         *)
(* The threads are at most max_threads and 256, so each has a queue and a  *)
(* prefetch of its own.  The content of an LBA is the number of times it   *)
(* has been written.  A command takes effect on the device at one instant; *)
(* the ones that fail there are left to AsyncEngine, but for the prefetch  *)
(* past the end of the device.                                             *)
(***************************************************************************)
EXTENDS Integers

CONSTANTS
    Threads,
    LbaCount,
    QueueDepth,   \* XNVME_QUEUE_DEPTH
    MaxIoLbas,    \* bound: length of a transfer
    MaxWrites     \* bound: writes to one LBA

ASSUME PrefetchAssumption ==
    LbaCount \in Nat \ {0} /\ QueueDepth \in Nat /\ MaxIoLbas \in Nat \ {0} /\ MaxWrites \in Nat

Lbas == 0 .. LbaCount - 1
Range(lba, nr_lbas) == lba .. lba + nr_lbas - 1

VARIABLES
    media,
    prefetch,   \* the PrefetchState of each thread
    call,       \* the call each thread is in
    contexts,   \* the contexts of each queue that no refusal has taken
    undefined,  \* a null context has been used
    own         \* history: what each thread has last written to each LBA

vars == <<media, prefetch, call, contexts, undefined, own>>

\* What a buffer holds when its command has failed.
Garbage == -1
Contents == {Garbage} \cup 0 .. MaxWrites
NoData == [l \in {} |-> Garbage]

\* expected_lba and expected_nr_lbas keep their values when active is reset;
\* nothing reads them then.
NoPrefetch == [active |-> FALSE, sent |-> FALSE, lba |-> 0, nr_lbas |-> 0,
               ready |-> FALSE, data |-> NoData]
Prefetching(lba, nr_lbas, sent) ==
    [active |-> TRUE, sent |-> sent, lba |-> lba, nr_lbas |-> nr_lbas,
     ready |-> FALSE, data |-> NoData]
Prefetched(p, data) ==
    [active |-> p.active, sent |-> p.sent, lba |-> p.lba, nr_lbas |-> p.nr_lbas,
     ready |-> TRUE, data |-> data]

\* before: history, the content of the LBAs when the call began.
NoCall == [op |-> "none", at |-> "idle", lba |-> 0, nr_lbas |-> 0,
           data |-> NoData, before |-> NoData]

Init ==
    /\ media = [l \in Lbas |-> 0]
    /\ prefetch = [t \in Threads |-> NoPrefetch]
    /\ call = [t \in Threads |-> NoCall]
    /\ contexts = [t \in Threads |-> QueueDepth]
    /\ undefined = FALSE
    /\ own = [t \in Threads |-> [l \in Lbas |-> 0]]

At(t, op, label) == call[t].op = op /\ call[t].at = label
CallAt(c, label, data) ==
    [op |-> c.op, at |-> label, lba |-> c.lba, nr_lbas |-> c.nr_lbas,
     data |-> data, before |-> c.before]
GotoWith(t, label, data) == call' = [call EXCEPT ![t] = CallAt(call[t], label, data)]
Goto(t, label) == GotoWith(t, label, call[t].data)
CallRange(t) == Range(call[t].lba, call[t].nr_lbas)

\* Mutant: a write leaves the prefetch where it is.
OnlyReadsWait(t, op) == op = "read" /\ prefetch[t].active

\* Both read and write wait for the prefetch, if there is one.
Waits(t, op) == prefetch[t].active

\* The range checks of the strategies guarantee LBAs of the device.
Begin(t, op, lba, nr_lbas, label) ==
    /\ call[t] = NoCall
    /\ lba + nr_lbas <= LbaCount
    /\ call' = [call EXCEPT ![t] =
            [op |-> op, at |-> IF Waits(t, op) THEN "wait" ELSE label,
             lba |-> lba, nr_lbas |-> nr_lbas, data |-> NoData,
             before |-> IF op = "read" THEN [l \in Range(lba, nr_lbas) |-> media[l]] ELSE NoData]]
    /\ UNCHANGED <<media, prefetch, contexts, undefined, own>>

\* A prefetch keeps its context until a call polls the queue for it; a read or a
\* write polls until its own is back.
InUse(t) == IF prefetch[t].active /\ prefetch[t].sent THEN 1 ELSE 0

HasContext(t) == InUse(t) < contexts[t]

\* xnvme_queue_get_cmd_ctx has none left, and its null pointer is used.
NoContext(t) ==
    /\ call[t].at \in {"submit", "prefetch"} /\ ~HasContext(t)
    /\ undefined' = TRUE
    /\ UNCHANGED <<media, prefetch, call, contexts, own>>

\* The context of a command that is refused does not go back to the queue.
LoseContext(t) == HasContext(t) /\ contexts' = [contexts EXCEPT ![t] = @ - 1]

-----------------------------------------------------------------------------
(* The prefetch on the device. *)

\* The device fails a command that goes past its end; CommandCallback sets the
\* future all the same.
DevicePrefetches(t) ==
    /\ prefetch[t].active /\ prefetch[t].sent /\ ~prefetch[t].ready
    /\ LET range == Range(prefetch[t].lba, prefetch[t].nr_lbas)
           data == [l \in range |-> IF range \subseteq Lbas THEN media[l] ELSE Garbage]
       IN  prefetch' = [prefetch EXCEPT ![t] = Prefetched(prefetch[t], data)]
    /\ UNCHANGED <<media, call, contexts, undefined, own>>

-----------------------------------------------------------------------------
(* Read. *)

Read(t, lba, nr_lbas) == Begin(t, "read", lba, nr_lbas, "submit")

\* Mutant: the length of the prefetch is not compared.
MatchesStart(t) == prefetch[t].lba = call[t].lba

Matches(t) == prefetch[t].lba = call[t].lba /\ prefetch[t].nr_lbas = call[t].nr_lbas

TakePrefetch(t) ==
    /\ At(t, "read", "wait") /\ prefetch[t].ready
    /\ Matches(t)
    /\ GotoWith(t, "prefetch", prefetch[t].data)
    /\ prefetch' = [prefetch EXCEPT ![t] = NoPrefetch]
    /\ UNCHANGED <<media, contexts, undefined, own>>

DropPrefetch(t) ==
    /\ At(t, "read", "wait") /\ prefetch[t].ready
    /\ ~Matches(t)
    /\ Goto(t, "submit")
    /\ prefetch' = [prefetch EXCEPT ![t] = NoPrefetch]
    /\ UNCHANGED <<media, contexts, undefined, own>>

\* The read that no prefetch has answered, up to its completion.
DeviceReads(t) ==
    /\ At(t, "read", "submit") /\ HasContext(t)
    /\ GotoWith(t, "prefetch", [l \in CallRange(t) |-> media[l]])
    /\ UNCHANGED <<media, prefetch, contexts, undefined, own>>

NextLba(t) == call[t].lba + call[t].nr_lbas

SubmitPrefetch(t) ==
    /\ At(t, "read", "prefetch") /\ HasContext(t)
    /\ prefetch' = [prefetch EXCEPT ![t] =
            Prefetching(NextLba(t), call[t].nr_lbas, TRUE)]
    /\ Goto(t, "return")
    /\ UNCHANGED <<media, contexts, undefined, own>>

\* Mutant: a prefetch that could not be submitted stays active.
PrefetchRefusedActive(t) ==
    /\ At(t, "read", "prefetch") /\ LoseContext(t)
    /\ prefetch' = [prefetch EXCEPT ![t] =
            Prefetching(NextLba(t), call[t].nr_lbas, FALSE)]
    /\ Goto(t, "return")
    /\ UNCHANGED <<media, undefined, own>>

\* The submission of the prefetch fails, which the read survives.
PrefetchRefused(t) ==
    /\ At(t, "read", "prefetch") /\ LoseContext(t)
    /\ prefetch' = [prefetch EXCEPT ![t] = NoPrefetch]
    /\ Goto(t, "return")
    /\ UNCHANGED <<media, undefined, own>>

-----------------------------------------------------------------------------
(* Write. *)

Write(t, lba, nr_lbas) == Begin(t, "write", lba, nr_lbas, "submit")

\* Whatever was prefetched is thrown away.
DrainPrefetch(t) ==
    /\ At(t, "write", "wait") /\ prefetch[t].ready
    /\ prefetch' = [prefetch EXCEPT ![t] = NoPrefetch]
    /\ Goto(t, "submit")
    /\ UNCHANGED <<media, contexts, undefined, own>>

\* The write up to its completion.  A partial one reads its LBAs first, which is
\* part of this step because DuckDB has no other call on them meanwhile.
DeviceWrites(t) ==
    /\ At(t, "write", "submit") /\ HasContext(t)
    /\ \A l \in CallRange(t) : media[l] < MaxWrites
    /\ media' = [l \in Lbas |-> IF l \in CallRange(t) THEN media[l] + 1 ELSE media[l]]
    /\ own' = [own EXCEPT ![t] = [l \in Lbas |-> IF l \in CallRange(t) THEN media'[l] ELSE @[l]]]
    /\ Goto(t, "return")
    /\ UNCHANGED <<prefetch, contexts, undefined>>

-----------------------------------------------------------------------------
\* The submission of the read or the write fails, and the call throws.
Refused(t) ==
    /\ call[t].at = "submit" /\ LoseContext(t)
    /\ call' = [call EXCEPT ![t] = NoCall]
    /\ UNCHANGED <<media, prefetch, undefined, own>>

\* The read that a partial write begins with fails; it is not of the queue.
FillFails(t) ==
    /\ At(t, "write", "submit")
    /\ call' = [call EXCEPT ![t] = NoCall]
    /\ UNCHANGED <<media, prefetch, contexts, undefined, own>>

Return(t) ==
    /\ call[t].at = "return"
    /\ call' = [call EXCEPT ![t] = NoCall]
    /\ UNCHANGED <<media, prefetch, contexts, undefined, own>>

\* The steps of a call that has begun.
Step(t) ==
    \/ TakePrefetch(t)
    \/ DropPrefetch(t)
    \/ DeviceReads(t)
    \/ SubmitPrefetch(t)
    \/ PrefetchRefused(t)
    \/ DrainPrefetch(t)
    \/ DeviceWrites(t)
    \/ Refused(t)
    \/ FillFails(t)
    \/ NoContext(t)
    \/ Return(t)

Next ==
    /\ ~undefined
    /\ \E t \in Threads :
        \/ \E lba \in Lbas, nr_lbas \in 1 .. MaxIoLbas :
            Read(t, lba, nr_lbas) \/ Write(t, lba, nr_lbas)
        \/ DevicePrefetches(t)
        \/ Step(t)

Spec == Init /\ [][Next]_vars

-----------------------------------------------------------------------------
Data == UNION {[Range(lba, nr_lbas) -> Contents] : lba \in 0 .. LbaCount, nr_lbas \in 0 .. MaxIoLbas}

PrefetchState == [active : BOOLEAN, sent : BOOLEAN, lba : 0 .. LbaCount,
                  nr_lbas : 0 .. MaxIoLbas, ready : BOOLEAN, data : Data]

Calls == [op : {"none", "read", "write"},
          at : {"idle", "wait", "submit", "prefetch", "return"},
          lba : Lbas, nr_lbas : 0 .. MaxIoLbas, data : Data, before : Data]

TypeOK ==
    /\ media \in [Lbas -> 0 .. MaxWrites]
    /\ prefetch \in [Threads -> PrefetchState]
    /\ call \in [Threads -> Calls]
    /\ contexts \in [Threads -> 0 .. QueueDepth]
    /\ undefined \in BOOLEAN
    /\ own \in [Threads -> [Lbas -> 0 .. MaxWrites]]

ReadReturns(t) == At(t, "read", "return")

\* A read returns the LBAs it was asked for, as many as it was asked for,
\* although the buffer it is answered from may have been filled for another
\* read: it never copies past the end of that buffer.
ReadsTheirLbas == \A t \in Threads : ReadReturns(t) => DOMAIN call[t].data = CallRange(t)

\* A read never returns less than what its own thread has written, whatever was
\* prefetched before, and never the buffer of a prefetch past the end of the
\* device.
OwnWritesAreSeen ==
    \A t \in Threads : ReadReturns(t) =>
        \A l \in DOMAIN call[t].data : l \in CallRange(t) => call[t].data[l] >= own[t][l]

\* A read returns what was on the device at some time during the call:
\* "Reads data from the device at the specified LBA position into the output
\* buffer" (nvme_device.hpp:40).
ReadsAreCurrent ==
    \A t \in Threads : ReadReturns(t) =>
        \A l \in CallRange(t) : call[t].data[l] >= call[t].before[l]

\* A thread waits only for a prefetch that is under way or has completed, so the
\* loop that polls its future ends once the device has answered: neither a
\* prefetch that could not be submitted nor one past the end of the device keeps
\* a later call waiting.
WaitsAreAnswered ==
    \A t \in Threads : call[t].at = "wait" => prefetch[t].active /\ prefetch[t].sent

\* A command finds a context in the queue of its thread, whatever was prefetched,
\* dropped or drained before, until as many submissions have been refused as the
\* queue is deep: only a refusal loses one for good.
UndefinedOnlyAfterRefusals == undefined => \E t \in Threads : contexts[t] = 0
=============================================================================
