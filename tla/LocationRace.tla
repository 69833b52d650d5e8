----------------------------- MODULE LocationRace -----------------------------
(***************************************************************************)
(* One atomic location (db_location or wal_location of a database) under   *)
(* concurrent calls on handles of its file: the compare-and-swap loops of  *)
(* UpdateMetadata and Truncate and the store of the WAL's RemoveFile, one  *)
(* atomic access per step.  LBAs are counted from the start of the file.   *)
(***************************************************************************)
EXTENDS Integers, FiniteSets

CONSTANTS
    Threads,
    FileLbas,     \* the size of the file's region
    MaxCalls      \* bound: calls made altogether

ASSUME LocationAssumption == FileLbas \in Nat /\ MaxCalls \in Nat

Ends == 0 .. FileLbas
Kinds == {"write", "truncate", "remove"}

VARIABLES
    location,   \* the atomic
    onDevice,   \* the LBAs of the file that a write has put on the device
    kind,       \* the call each thread is in
    new,        \* its new_location
    expected,   \* its expected_location
    pc,         \* where it is
    calls       \* calls made so far

vars == <<location, onDevice, kind, new, expected, pc, calls>>

PCs == {"idle", "device", "load", "cas", "store", "done"}

Init ==
    /\ location = 0
    /\ onDevice = {}
    /\ kind = [t \in Threads |-> "none"]
    /\ new = [t \in Threads |-> 0]
    /\ expected = [t \in Threads |-> 0]
    /\ pc = [t \in Threads |-> "idle"]
    /\ calls = 0

Goto(t, label) == pc' = [pc EXCEPT ![t] = label]

\* The call enters after its range check: new_location is inside the region,
\* and a write has at least one LBA.
Enter(t, k, n, label) ==
    /\ pc[t] = "idle" /\ calls < MaxCalls
    /\ calls' = calls + 1
    /\ kind' = [kind EXCEPT ![t] = k]
    /\ new' = [new EXCEPT ![t] = n]
    /\ Goto(t, label)
    /\ UNCHANGED <<location, onDevice, expected>>

\* Mutant: UpdateMetadata before device->Write.
WriteMetadataFirst(t, end) == Enter(t, "write", end, "load")

Write(t, end) == Enter(t, "write", end, "device")
Truncate(t, size) == Enter(t, "truncate", size, "load")
RemoveFile(t) == Enter(t, "remove", 0, "store")

\* device->Write of the LBAs first .. new - 1.
DeviceWrite(t, first) ==
    /\ pc[t] = "device"
    /\ onDevice' = onDevice \cup first .. new[t] - 1
    /\ Goto(t, "load")
    /\ UNCHANGED <<location, kind, new, expected, calls>>

\* Where the loop goes with a fresh expected_location e: UpdateMetadata breaks
\* if the new location is below it, Truncate never does.
AfterReading(t, e) == IF kind[t] = "write" /\ new[t] < e THEN "done" ELSE "cas"

\* expected_location = location.load()
Load(t) ==
    /\ pc[t] = "load"
    /\ expected' = [expected EXCEPT ![t] = location]
    /\ Goto(t, AfterReading(t, location))
    /\ UNCHANGED <<location, onDevice, kind, new, calls>>

\* Mutant: the location is stored without the comparison.
StoreUnchecked(t) ==
    /\ pc[t] = "cas"
    /\ location' = new[t]
    /\ Goto(t, "done")
    /\ UNCHANGED <<onDevice, kind, new, expected, calls>>

\* compare_exchange_weak succeeds...
CasSucceeds(t) ==
    /\ pc[t] = "cas"
    /\ location = expected[t]
    /\ location' = new[t]
    /\ Goto(t, "done")
    /\ UNCHANGED <<onDevice, kind, new, expected, calls>>

\* Mutant: expected_location is not reloaded.
CasFailsUnread(t) ==
    /\ pc[t] = "cas"
    /\ location # expected[t]
    /\ UNCHANGED vars

\* ... or fails, which the weak form may do for no reason, and reloads.
CasFails(t) ==
    /\ pc[t] = "cas"
    /\ expected' = [expected EXCEPT ![t] = location]
    /\ Goto(t, AfterReading(t, location))
    /\ UNCHANGED <<location, onDevice, kind, new, calls>>

\* wal_location.store(region->wal_start)
Store(t) ==
    /\ pc[t] = "store"
    /\ location' = new[t]
    /\ Goto(t, "done")
    /\ UNCHANGED <<onDevice, kind, new, expected, calls>>

Return(t) ==
    /\ pc[t] = "done"
    /\ kind' = [kind EXCEPT ![t] = "none"]
    /\ new' = [new EXCEPT ![t] = 0]
    /\ expected' = [expected EXCEPT ![t] = 0]
    /\ Goto(t, "idle")
    /\ UNCHANGED <<location, onDevice, calls>>

Call(t) ==
    \/ \E end \in Ends \ {0} : Write(t, end)
    \/ \E size \in Ends : Truncate(t, size)
    \/ RemoveFile(t)

\* The steps of a call that has begun.
Step(t) ==
    \/ \E first \in Ends : first < new[t] /\ DeviceWrite(t, first)
    \/ Load(t)
    \/ CasSucceeds(t)
    \/ CasFails(t)
    \/ Store(t)
    \/ Return(t)

Next == \E t \in Threads : Call(t) \/ Step(t)

\* A thread inside a call goes on, and the weak compare-and-swap does not fail
\* spuriously for ever.
Fairness ==
    \A t \in Threads : WF_vars(Step(t)) /\ SF_vars(CasSucceeds(t))

Spec == Init /\ [][Next]_vars
FairSpec == Spec /\ Fairness

-----------------------------------------------------------------------------
TypeOK ==
    /\ location \in Ends
    /\ onDevice \subseteq 0 .. FileLbas - 1
    /\ kind \in [Threads -> Kinds \cup {"none"}]
    /\ new \in [Threads -> Ends]
    /\ expected \in [Threads -> Ends]
    /\ pc \in [Threads -> PCs]
    /\ calls \in 0 .. MaxCalls

\* Refinement: whatever the interleaving of the loops, each call takes effect
\* once, at one instant, so no write's end is lost to a concurrent write: the
\* effect of a call is its successful compare-and-swap or store, and that of a
\* write that found a higher location the reading of that location.
Mark == INSTANCE Watermark WITH
    mark <- location,
    call <- [t \in Threads |->
                [kind |-> kind[t], new |-> new[t], applied |-> pc[t] = "done"]]

LocationIsWatermark == Mark!Spec

\* The location never runs ahead of the data: a write raises it only to an end
\* whose last LBA is on the device, so a location that a FileSync makes durable
\* does not end in LBAs that were never written.
RaisedOverData ==
    [][location' > location =>
        \/ location' - 1 \in onDevice
        \/ \E t \in Threads : kind[t] = "truncate" /\ new[t] = location']_vars

\* No loop goes on for ever: every call returns.
CallsReturn == \A t \in Threads : pc[t] # "idle" ~> pc[t] = "idle"
=============================================================================
