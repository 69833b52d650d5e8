------------------------------ MODULE AsyncEngine ------------------------------
(***************************************************************************)
(* NvmeAsyncIOEngine: a transfer is cut into chunks, each a command of the *)
(* thread's own queue with a promise that its completion sets; the thread  *)
(* submits them all, then polls the queue until every future is ready.     *)
(* The device executes commands in any order.  NvmeSyncIOEngine, which     *)
(* takes its place if the configuration says so: the same read before a    *)
(* partial write, then one command that the thread waits for.              *)
(*                                                                         *)
(* The threads are at most max_threads, so no queue is shared.  An LBA is  *)
(* a set of parts, and a write that does not cover all of them reads the   *)
(* LBAs first.  What a part holds is the number of the call that wrote it. *)
(***************************************************************************)
EXTENDS Integers, FiniteSets

CONSTANTS
    Threads,
    LbaCount,
    Parts,           \* of an LBA
    MaxLbas,         \* max_lbas: the longest chunk
    QueueDepth,      \* XNVME_QUEUE_DEPTH
    MaxTransfer,     \* the longest transfer of a caller, in LBAs
    MaxCalls,        \* bound: calls altogether
    DeviceFailures,  \* bound: commands that complete with an error status
    SubmitFailures   \* bound: submissions that are refused

ASSUME EngineAssumption ==
    /\ LbaCount \in Nat /\ MaxCalls \in Nat /\ MaxTransfer \in Nat
    /\ MaxLbas \in Nat \ {0} /\ QueueDepth \in Nat \ {0}
    /\ DeviceFailures \in Nat /\ SubmitFailures \in Nat

Lbas == 0 .. LbaCount - 1
Cells == Lbas \X Parts

VARIABLES
    media,      \* what each part of each LBA holds
    call,       \* the call each thread is in
    queue,      \* the commands of each thread's queue
    contexts,   \* the free command contexts of each queue
    calls,      \* calls made so far
    failures,   \* failures of the device and of submissions so far
    undefined,  \* a null context or freed memory has been used
    engine      \* the io_engine of the device: it stays what it is

vars == <<media, call, queue, contexts, calls, failures, undefined, engine>>

\* id: number of the call; next: chunks submitted; set: promises set;
\* buffer: dev_buffer; before, failed: history, the LBAs of the call when it
\* began, and whether the device has failed one of its commands.
NoCall == [id |-> 0, op |-> "none", at |-> "idle", lbas |-> {}, cells |-> {}, first |-> 0,
           left |-> 0, sent |-> 0, set |-> {}, buffer |-> <<>>, before |-> <<>>,
           failed |-> FALSE]

Garbage == -1

Init ==
    /\ media = [c \in Cells |-> 0]
    /\ call = [t \in Threads |-> NoCall]
    /\ queue = [t \in Threads |-> {}]
    /\ contexts = [t \in Threads |-> QueueDepth]
    /\ calls = 0
    /\ failures = [device |-> 0, submit |-> 0]
    /\ undefined = FALSE
    /\ engine \in {"async", "sync"}

\* DuckDB transfers an LBA to or from one buffer of its own at a time.
Apart(lbas, op) ==
    \A t \in Threads :
        call[t].lbas \cap lbas # {} => op = "read" /\ call[t].op = "read"

NrLbas(t) == Cardinality(call[t].lbas)
Partial(t) == call[t].cells # call[t].lbas \X Parts

\* A call for the parts cells of the LBAs lba .. lba + nr_lbas - 1.
Begin(t, op, lba, nr_lbas, cells) ==
    LET lbas == lba .. lba + nr_lbas - 1
    IN  /\ call[t] = NoCall /\ calls < MaxCalls
        /\ lbas \subseteq Lbas
        /\ Apart(lbas, op)
        /\ calls' = calls + 1
        /\ call' = [call EXCEPT ![t] =
                [id |-> calls + 1, op |-> op, at |-> IF op = "read" THEN "submit" ELSE "fill",
                 lbas |-> lbas, cells |-> cells, first |-> lba, left |-> nr_lbas, sent |-> 0,
                 set |-> {}, buffer |-> [c \in lbas \X Parts |-> Garbage],
                 before |-> [c \in lbas \X Parts |-> media[c]], failed |-> FALSE]]
        /\ UNCHANGED <<media, queue, contexts, failures, undefined>>

\* The call throws; its buffer and its promises are gone.
Throw(t) == call' = [call EXCEPT ![t] = NoCall]

\* Mutant: a partial write does not read the LBAs first.
FillUnread(t) ==
    /\ call[t].at = "fill"
    /\ call' = [call EXCEPT ![t].at = "submit",
            ![t].buffer = [c \in DOMAIN @ |-> IF c \in call[t].cells THEN call[t].id ELSE @[c]]]
    /\ UNCHANGED <<media, queue, contexts, calls, failures, undefined>>

\* dev_buffer gets the LBAs, if the write is partial, and the caller's data.
Fill(t) ==
    /\ call[t].at = "fill"
    /\ call' = [call EXCEPT ![t].at = "submit",
            ![t].buffer = [c \in DOMAIN @ |-> IF c \in call[t].cells THEN call[t].id
                                              ELSE media[c]]]
    /\ UNCHANGED <<media, queue, contexts, calls, failures, undefined>>

\* The synchronous read of the LBAs fails.
FillFails(t) ==
    /\ call[t].at = "fill" /\ Partial(t)
    /\ failures.device < DeviceFailures
    /\ failures' = [failures EXCEPT !.device = @ + 1]
    /\ Throw(t)
    /\ UNCHANGED <<media, queue, contexts, calls, undefined>>

-----------------------------------------------------------------------------
(* The commands of the asynchronous engine: the loop over the chunks. *)

Submitting(t) == engine = "async" /\ call[t].at = "submit" /\ call[t].left > 0

\* Mutant: the last LBA of a full chunk is left out.
ChunkTooShort(t) ==
    IF call[t].left > MaxLbas THEN call[t].first .. call[t].first + MaxLbas - 2
    ELSE call[t].first .. call[t].first + call[t].left - 1

Chunk(t) ==
    IF call[t].left > MaxLbas THEN call[t].first .. call[t].first + MaxLbas - 1
    ELSE call[t].first .. call[t].first + call[t].left - 1

\* Mutant: the chunks share the first promise.
CommandOfFirstPromise(t) ==
    [id |-> call[t].id, nr |-> 0, op |-> call[t].op, lbas |-> Chunk(t), done |-> FALSE]

Command(t) ==
    [id |-> call[t].id, nr |-> call[t].sent, op |-> call[t].op, lbas |-> Chunk(t), done |-> FALSE]

\* Mutant: the context stays with the queue.
SubmitKeepsContext(t) ==
    /\ Submitting(t) /\ contexts[t] > 0
    /\ queue' = [queue EXCEPT ![t] = @ \cup {Command(t)}]
    /\ LET step == IF call[t].left > MaxLbas THEN MaxLbas ELSE call[t].left
       IN  call' = [call EXCEPT ![t].first = @ + step, ![t].left = @ - step, ![t].sent = @ + 1]
    /\ UNCHANGED <<media, contexts, calls, failures, undefined>>

Submit(t) ==
    /\ Submitting(t) /\ contexts[t] > 0
    /\ queue' = [queue EXCEPT ![t] = @ \cup {Command(t)}]
    /\ contexts' = [contexts EXCEPT ![t] = @ - 1]
    /\ LET step == IF call[t].left > MaxLbas THEN MaxLbas ELSE call[t].left
       IN  call' = [call EXCEPT ![t].first = @ + step, ![t].left = @ - step, ![t].sent = @ + 1]
    /\ UNCHANGED <<media, calls, failures, undefined>>

\* The command is refused: its context does not go back to the queue, and the
\* chunks before it are still under way.
SubmitRefused(t) ==
    /\ Submitting(t) /\ contexts[t] > 0
    /\ failures.submit < SubmitFailures
    /\ failures' = [failures EXCEPT !.submit = @ + 1]
    /\ contexts' = [contexts EXCEPT ![t] = @ - 1]
    /\ Throw(t)
    /\ UNCHANGED <<media, queue, calls, undefined>>

\* xnvme_queue_get_cmd_ctx has none left, and its null pointer is used.
NoContext(t) ==
    /\ Submitting(t) /\ contexts[t] = 0
    /\ undefined' = TRUE
    /\ UNCHANGED <<media, call, queue, contexts, calls, failures>>

-----------------------------------------------------------------------------
(* The device, and the completions. *)

\* Mutant: the wait ends before the last future is ready.
AllButOneReady(t) ==
    call[t].at = "submit" /\ call[t].left = 0 /\ Cardinality(call[t].set) >= call[t].sent - 1

AllReady(t) ==
    call[t].at = "submit" /\ call[t].left = 0 /\ Cardinality(call[t].set) = call[t].sent

Alive(t, cmd) == call[t].id = cmd.id

\* A command of thread t for some of the LBAs of its call writes its buffer to
\* them, or reads them into it.
MediaAfter(t, lbas) ==
    IF call[t].op = "read" THEN media
    ELSE [c \in Cells |-> IF c[1] \in lbas THEN call[t].buffer[c] ELSE media[c]]

BufferAfter(t, lbas) ==
    IF call[t].op = "write" THEN call[t].buffer
    ELSE [c \in DOMAIN call[t].buffer |-> IF c[1] \in lbas THEN media[c] ELSE call[t].buffer[c]]

\* The device executes a command, between the LBAs and the call's buffer.
Execute(t, cmd) ==
    /\ ~cmd.done /\ Alive(t, cmd)
    /\ queue' = [queue EXCEPT ![t] = (@ \ {cmd}) \cup {[cmd EXCEPT !.done = TRUE]}]
    /\ media' = MediaAfter(t, cmd.lbas)
    /\ call' = [call EXCEPT ![t].buffer = BufferAfter(t, cmd.lbas)]
    /\ UNCHANGED <<contexts, calls, failures, undefined>>

\* A command outlives its call: the device uses the buffer, or the callback the
\* promise, after they are freed.  What happens then is not modelled.
UseAfterFree(t, cmd) ==
    /\ ~Alive(t, cmd)
    /\ undefined' = TRUE
    /\ UNCHANGED <<media, call, queue, contexts, calls, failures>>

\* The command completes with an error status, and has no effect.
ExecuteFails(t, cmd) ==
    /\ ~cmd.done /\ Alive(t, cmd)
    /\ failures.device < DeviceFailures
    /\ failures' = [failures EXCEPT !.device = @ + 1]
    /\ queue' = [queue EXCEPT ![t] = (@ \ {cmd}) \cup {[cmd EXCEPT !.done = TRUE]}]
    /\ call' = [call EXCEPT ![t].failed = TRUE]
    /\ UNCHANGED <<media, contexts, calls, undefined>>

\* xnvme_queue_poke calls CommandCallback, which prints an error status and
\* sets the promise in any case.
CommandCallback(t, cmd) ==
    /\ call[t].at = "submit" /\ call[t].left = 0 /\ ~AllReady(t)
    /\ cmd.done /\ Alive(t, cmd)
    /\ queue' = [queue EXCEPT ![t] = @ \ {cmd}]
    /\ contexts' = [contexts EXCEPT ![t] = @ + 1]
    /\ call' = [call EXCEPT ![t].set = @ \cup {cmd.nr}]
    /\ UNCHANGED <<media, calls, failures, undefined>>

\* All futures are ready; a read copies the buffer to its caller.
Finish(t) ==
    /\ AllReady(t)
    /\ call' = [call EXCEPT ![t].at = "return"]
    /\ UNCHANGED <<media, queue, contexts, calls, failures, undefined>>

-----------------------------------------------------------------------------
(* The command of the synchronous engine: it is not cut into chunks. *)

TransferSync(t) ==
    /\ engine = "sync" /\ call[t].at = "submit"
    /\ media' = MediaAfter(t, call[t].lbas)
    /\ call' = [call EXCEPT ![t].at = "return", ![t].buffer = BufferAfter(t, call[t].lbas)]
    /\ UNCHANGED <<queue, contexts, calls, failures, undefined>>

\* Mutant: the error is printed and nothing is thrown.
TransferSyncPrints(t) ==
    /\ engine = "sync" /\ call[t].at = "submit"
    /\ failures.device < DeviceFailures
    /\ failures' = [failures EXCEPT !.device = @ + 1]
    /\ call' = [call EXCEPT ![t].at = "return", ![t].failed = TRUE]
    /\ UNCHANGED <<media, queue, contexts, calls, undefined>>

\* The command fails, and the call throws.
TransferSyncFails(t) ==
    /\ engine = "sync" /\ call[t].at = "submit"
    /\ failures.device < DeviceFailures
    /\ failures' = [failures EXCEPT !.device = @ + 1]
    /\ Throw(t)
    /\ UNCHANGED <<media, queue, contexts, calls, undefined>>

Return(t) ==
    /\ call[t].at = "return"
    /\ Throw(t)
    /\ UNCHANGED <<media, queue, contexts, calls, failures, undefined>>

-----------------------------------------------------------------------------
\* The parts a transfer of nr_lbas LBAs may be for: a first or last LBA may be
\* left incomplete.
CellsOf(lba, nr_lbas) ==
    LET all == (lba .. lba + nr_lbas - 1) \X Parts
    IN  {all} \cup {all \ {<<lba + nr_lbas - 1, p>>} : p \in Parts}

Call(t) ==
    \E lba \in Lbas, nr_lbas \in 1 .. MaxTransfer :
        \/ Begin(t, "read", lba, nr_lbas, (lba .. lba + nr_lbas - 1) \X Parts)
        \/ \E cells \in CellsOf(lba, nr_lbas) : Begin(t, "write", lba, nr_lbas, cells)

Poll(t) == \E cmd \in queue[t] : CommandCallback(t, cmd)

\* The steps of a call that has begun, and of the device.
Step(t) ==
    \/ Fill(t) \/ FillFails(t)
    \/ Submit(t) \/ SubmitRefused(t) \/ NoContext(t)
    \/ TransferSync(t) \/ TransferSyncFails(t)
    \/ Poll(t)
    \/ Finish(t)
    \/ Return(t)

Device(t) == \E cmd \in queue[t] : Execute(t, cmd) \/ ExecuteFails(t, cmd) \/ UseAfterFree(t, cmd)

\* The behaviour ends where it is no longer defined.
Goes(A) == ~undefined /\ A /\ UNCHANGED engine

Next == Goes(\E t \in Threads : Call(t) \/ Step(t) \/ Device(t))

Spec == Init /\ [][Next]_vars

\* A thread inside a call goes on, and the device completes its commands.
FairSpec ==
    Spec /\ \A t \in Threads : WF_vars(Goes(Step(t))) /\ WF_vars(Goes(Device(t)))

-----------------------------------------------------------------------------
Ids == 0 .. MaxCalls
Contents == Ids \cup {Garbage}

TypeOK ==
    /\ media \in [Cells -> Contents]
    /\ \A t \in Threads :
        /\ call[t].id \in Ids
        /\ call[t].at \in {"idle", "fill", "submit", "return"}
        /\ call[t].lbas \subseteq Lbas /\ call[t].cells \subseteq call[t].lbas \X Parts
        /\ call[t].left \in 0 .. LbaCount
        /\ call[t].set \subseteq 0 .. call[t].sent - 1
        /\ call[t].buffer \in [call[t].lbas \X Parts -> Contents]
        /\ contexts[t] \in 0 .. QueueDepth
        /\ Cardinality(queue[t]) <= QueueDepth - contexts[t]
    /\ undefined \in BOOLEAN

Returns(t, op) == call[t].op = op /\ call[t].at = "return"

\* A read that no command has failed returns the LBAs as they are on the device,
\* whatever the order in which its chunks complete.
ReadsAreExact ==
    \A t \in Threads : Returns(t, "read") /\ ~call[t].failed =>
        \A c \in call[t].cells : call[t].buffer[c] = media[c]

\* All of a write's data, and nothing else, is on the device; the rest of its
\* LBAs is as before: "to preserve surrounding data" (nvme_sync_io_engine.hpp:41).
Written(t) ==
    \A c \in call[t].lbas \X Parts :
        media[c] = IF c \in call[t].cells THEN call[t].id ELSE call[t].before[c]

\* A write that returns, and that no command has failed, has done its work,
\* whatever other calls are refused or failed.
WritesAreExact == \A t \in Threads : Returns(t, "write") /\ ~call[t].failed => Written(t)

\* A write that returns has done its work: "Writes data from the input buffer to
\* the device at the specified LBA position" (nvme_device.hpp:37).
WritesReachTheDevice == \A t \in Threads : Returns(t, "write") => Written(t)

\* With the synchronous engine that is so whether commands fail or not: a write
\* whose command fails throws.
SyncWritesReachTheDevice == engine = "sync" => WritesReachTheDevice

\* No buffer is freed and no promise destroyed under a command, and no queue
\* runs out of contexts, unless a submission was refused before: error
\* completions, and calls one after the other, leave nothing behind.  That is of
\* transfers of at most QueueDepth chunks: no code cuts longer ones into several.
UndefinedOnlyAfterRefusal == undefined => failures.submit > 0

\* Every call returns or throws: no future is left unset.
CallsReturn == \A t \in Threads : call[t].at # "idle" ~> call[t].at = "idle" \/ undefined
=============================================================================
