---------------------------- MODULE LocationProofs ----------------------------
(***************************************************************************)
(* Proofs about LocationRace, for any number of threads and calls, and     *)
(* about MetadataSync, for any number of syncs beside them.                *)
(***************************************************************************)
EXTENDS MetadataSync, TLAPS

-----------------------------------------------------------------------------
(* LocationRace.                                                           *)

\* What the local variables of a thread say about its call.
CallState(t) ==
    /\ pc[t] = "idle" <=> kind[t] = "none"
    /\ pc[t] = "idle" => new[t] = 0
    /\ pc[t] = "device" => kind[t] = "write"
    /\ pc[t] \in {"load", "cas"} => kind[t] \in {"write", "truncate"}
    /\ pc[t] = "store" => kind[t] = "remove"

\* A remove sets the location to the start of the file.
RemoveIsZero(t) == kind[t] = "remove" => new[t] = 0

\* A write is past its device->Write when it touches the location, and gives
\* up as soon as it reads a higher one.
WriteIsOrdered(t) ==
    kind[t] = "write" =>
        /\ pc[t] \in {"load", "cas", "done"} => new[t] - 1 \in onDevice
        /\ pc[t] = "cas" => expected[t] <= new[t]

IInv ==
    /\ TypeOK
    /\ \A t \in Threads : CallState(t) /\ RemoveIsZero(t) /\ WriteIsOrdered(t)

-----------------------------------------------------------------------------
LEMMA Initially == Init => IInv
  BY LocationAssumption, SMT
  DEF Init, IInv, TypeOK, CallState, RemoveIsZero, WriteIsOrdered, Ends, Kinds, PCs

LEMMA StutterKeeps == IInv /\ UNCHANGED vars => IInv'
  BY DEF IInv, TypeOK, CallState, RemoveIsZero, WriteIsOrdered, vars

\* A call begins: nothing is known of it but its arguments.
LEMMA CallKeeps == ASSUME IInv, NEW t \in Threads, Call(t) PROVE IInv'
<1> USE LocationAssumption DEF IInv, TypeOK, CallState, RemoveIsZero, WriteIsOrdered, Ends, Kinds, PCs
<1>1. CASE \E end \in Ends \ {0} : Write(t, end)
  BY <1>1, SMT DEF Write, Enter, Goto
<1>2. CASE \E size \in Ends : Truncate(t, size)
  BY <1>2, SMT DEF Truncate, Enter, Goto
<1>3. CASE RemoveFile(t)
  BY <1>3, SMT DEF RemoveFile, Enter, Goto
<1>4. QED  BY <1>1, <1>2, <1>3 DEF Call

\* A call goes on.
LEMMA StepKeeps == ASSUME IInv, NEW t \in Threads, Step(t) PROVE IInv'
<1> USE LocationAssumption DEF IInv, TypeOK, CallState, RemoveIsZero, WriteIsOrdered, Ends, Kinds, PCs
<1>1. CASE \E first \in Ends : first < new[t] /\ DeviceWrite(t, first)
  <2>1. PICK first \in Ends : first < new[t] /\ DeviceWrite(t, first)
    BY <1>1
  <2>2. new[t] - 1 \in onDevice' /\ onDevice \subseteq onDevice'
    BY <2>1, SMT DEF DeviceWrite
  <2>3. onDevice' \subseteq 0 .. FileLbas - 1
    <3>1. first \in 0 .. FileLbas /\ new[t] \in 0 .. FileLbas
      BY <2>1
    <3>2. first .. new[t] - 1 \subseteq 0 .. FileLbas - 1
      BY <3>1, SMT
    <3>3. onDevice \subseteq 0 .. FileLbas - 1
      OBVIOUS
    <3>4. onDevice' = onDevice \cup first .. new[t] - 1
      BY <2>1 DEF DeviceWrite
    <3> HIDE DEF IInv, TypeOK, CallState, RemoveIsZero, WriteIsOrdered, Ends
    <3>5. QED  BY <3>2, <3>3, <3>4
  <2>4. /\ pc[t] = "device" /\ pc' = [pc EXCEPT ![t] = "load"]
        /\ UNCHANGED <<location, kind, new, expected, calls>>
    BY <2>1 DEF DeviceWrite, Goto
  <2>5. QED  BY <2>2, <2>3, <2>4, SMT
<1>2. CASE Load(t)
  BY <1>2, SMT DEF Load, AfterReading, Goto
<1>3. CASE CasSucceeds(t)
  BY <1>3, SMT DEF CasSucceeds, Goto
<1>4. CASE CasFails(t)
  BY <1>4, SMT DEF CasFails, AfterReading, Goto
<1>5. CASE Store(t)
  BY <1>5, SMT DEF Store, Goto
<1>6. CASE Return(t)
  BY <1>6, SMT DEF Return, Goto
<1>7. QED  BY <1>1, <1>2, <1>3, <1>4, <1>5, <1>6 DEF Step

LEMMA Invariance == Spec => []IInv
<1>1. IInv /\ [Next]_vars => IInv'
  BY CallKeeps, StepKeeps, StutterKeeps DEF Next
<1>2. QED  BY Initially, <1>1, PTL DEF Spec

\* The type invariant of the location and of the threads at it.
THEOREM TypeCorrect == Spec => []TypeOK
  BY Invariance, PTL DEF IInv

-----------------------------------------------------------------------------
(* The action property. *)

\* A step that raises the location is a successful compare-and-swap: a store
\* only lowers it.
LEMMA StepRaises ==
    ASSUME IInv, NEW t \in Threads, Call(t) \/ Step(t), location' > location
    PROVE  \/ location' - 1 \in onDevice
           \/ kind[t] = "truncate" /\ new[t] = location'
<1> USE LocationAssumption DEF IInv, TypeOK, CallState, RemoveIsZero, WriteIsOrdered, Ends, Kinds, PCs
<1>1. CASE Call(t)
  BY <1>1, SMT DEF Call, Write, Truncate, RemoveFile, Enter
<1>2. CASE CasSucceeds(t)
  BY <1>2, SMT DEF CasSucceeds
<1>3. CASE Store(t)
  BY <1>3, SMT DEF Store
<1>4. CASE \/ \E first \in Ends : DeviceWrite(t, first)
           \/ Load(t) \/ CasFails(t) \/ Return(t)
  BY <1>4, SMT DEF DeviceWrite, Load, CasFails, Return
<1>5. QED  BY <1>1, <1>2, <1>3, <1>4 DEF Step

\* The location that FileSync makes durable is raised only over data that is on
\* the device: Write puts its LBAs there before UpdateMetadata starts.
THEOREM NoLocationBeforeData == Spec => RaisedOverData
<1> DEFINE Raised ==
        location' > location =>
            \/ location' - 1 \in onDevice
            \/ \E t \in Threads : kind[t] = "truncate" /\ new[t] = location'
<1>1. IInv /\ [Next]_vars => [Raised]_vars
  BY StepRaises DEF Next
<1>2. QED  BY Invariance, <1>1, PTL DEF Spec, RaisedOverData
-----------------------------------------------------------------------------
(* The refinement: a call is applied in the abstract mark at its successful *)
(* compare-and-swap or store, or when it reads a higher location.           *)

Abstract(t) == [kind |-> kind[t], new |-> new[t], applied |-> pc[t] = "done"]
AbstractCall == [t \in Threads |-> Abstract(t)]

LEMMA InitRefines == Init => Mark!Init
  BY DEF Init, Mark!Init, Mark!NoCall

\* A step of one thread leaves the abstract calls of the others alone.
LEMMA OneCallChanges ==
    ASSUME NEW t \in Threads,
           \A u \in Threads \ {t} : kind'[u] = kind[u] /\ new'[u] = new[u] /\ pc'[u] = pc[u]
    PROVE  AbstractCall' = [AbstractCall EXCEPT ![t] = Abstract(t)']
  BY DEF AbstractCall, Abstract

LEMMA CallRefines ==
    ASSUME IInv, NEW t \in Threads, Call(t)
    PROVE  \E k \in Mark!Kinds, n \in Ends : Mark!Invoke(t, k, n)
<1> DEFINE Entered(k, n) ==
        /\ pc[t] = "idle" /\ pc' = [pc EXCEPT ![t] = pc'[t]] /\ pc'[t] \notin {"idle", "done"}
        /\ kind' = [kind EXCEPT ![t] = k]
        /\ new' = [new EXCEPT ![t] = n]
        /\ location' = location
<1>1. \E k \in Kinds, n \in Ends : Entered(k, n)
  BY LocationAssumption, SMT
  DEF Call, Write, Truncate, RemoveFile, Enter, Goto, Kinds, Ends, IInv, TypeOK
<1>2. PICK k \in Kinds, n \in Ends : Entered(k, n)
  BY <1>1
<1>3. Abstract(t) = Mark!NoCall
  BY <1>2 DEF IInv, CallState, Abstract, Mark!NoCall
<1>4. Abstract(t)' = [kind |-> k, new |-> n, applied |-> FALSE]
  BY <1>2 DEF IInv, TypeOK, Abstract
<1>5. AbstractCall' = [AbstractCall EXCEPT ![t] = Abstract(t)']
  BY <1>2, OneCallChanges DEF IInv, TypeOK
<1>6. AbstractCall[t] = Abstract(t)
  BY DEF AbstractCall
<1>7. QED
  BY <1>2, <1>3, <1>4, <1>5, <1>6
  DEF Mark!Invoke, Mark!Kinds, Kinds, AbstractCall, Abstract

\* The steps that do not touch the location leave the abstract state alone.
LEMMA InnerStepStutters ==
    ASSUME IInv, NEW t \in Threads, pc[t] # "done", pc'[t] # "done",
           pc' = [pc EXCEPT ![t] = pc'[t]],
           UNCHANGED <<location, kind, new>>
    PROVE  UNCHANGED Mark!vars
  BY DEF Mark!vars, AbstractCall, Abstract, IInv, TypeOK

\* A thread that reaches "done" with the mark its call leaves has applied it.
LEMMA DoneApplies ==
    ASSUME IInv, NEW t \in Threads, pc[t] # "done", kind[t] # "none",
           pc' = [pc EXCEPT ![t] = "done"],
           UNCHANGED <<kind, new>>,
           location' = IF kind[t] = "write" /\ new[t] < location THEN location ELSE new[t]
    PROVE  Mark!Apply(t)
<1>1. AbstractCall' = [AbstractCall EXCEPT ![t] = Abstract(t)']
  BY OneCallChanges DEF IInv, TypeOK
<1>2. Abstract(t)' = Mark!Applied(Abstract(t))
  <2>1. pc'[t] = "done" /\ kind'[t] = kind[t] /\ new'[t] = new[t]
    BY DEF IInv, TypeOK
  <2>2. Abstract(t)' = [kind |-> kind[t], new |-> new[t], applied |-> TRUE]
    BY <2>1 DEF Abstract
  <2>3. QED  BY <2>2 DEF Abstract, Mark!Applied
<1>3. AbstractCall[t] = Abstract(t)
  BY DEF AbstractCall
<1>4. location' = Mark!Effect(AbstractCall[t], location)
  BY <1>3 DEF Mark!Effect, Abstract
<1>5. AbstractCall[t].kind # "none" /\ ~AbstractCall[t].applied
  <2>1. Abstract(t).kind = kind[t]
    BY DEF Abstract
  <2>2. ~Abstract(t).applied
    BY Zenon DEF Abstract
  <2>3. QED  BY <1>3, <2>1, <2>2
<1>6. AbstractCall' = [AbstractCall EXCEPT ![t] = Mark!Applied(AbstractCall[t])]
  BY <1>1, <1>2, <1>3
<1>7. QED
  BY <1>4, <1>5, <1>6 DEF Mark!Apply, AbstractCall, Abstract

LEMMA ReturnRefines == ASSUME IInv, NEW t \in Threads, Return(t) PROVE Mark!Return(t)
<1>1. AbstractCall' = [AbstractCall EXCEPT ![t] = Abstract(t)']
  BY OneCallChanges DEF Return, Goto, IInv, TypeOK
<1>2. Abstract(t)' = Mark!NoCall
  BY DEF Return, Goto, Abstract, Mark!NoCall, IInv, TypeOK
<1>3. AbstractCall[t].applied
  BY DEF Return, AbstractCall, Abstract
<1>4. QED
  BY <1>1, <1>2, <1>3 DEF Mark!Return, AbstractCall, Abstract, Return

LEMMA StepRefines ==
    ASSUME IInv, NEW t \in Threads, Step(t)
    PROVE  Mark!Apply(t) \/ Mark!Return(t) \/ UNCHANGED Mark!vars
<1> USE DEF IInv, TypeOK, CallState, RemoveIsZero, WriteIsOrdered, Goto
<1>1. CASE \E first \in Ends : first < new[t] /\ DeviceWrite(t, first)
  BY <1>1, InnerStepStutters DEF DeviceWrite
<1>2. ASSUME pc[t] \in {"load", "cas"}, UNCHANGED <<location, kind, new>>,
             pc' = [pc EXCEPT ![t] = AfterReading(t, location)]
      PROVE  Mark!Apply(t) \/ UNCHANGED Mark!vars
  <2>1. CASE AfterReading(t, location) = "cas"
    BY <1>2, <2>1, InnerStepStutters
  <2>2. CASE AfterReading(t, location) = "done"
    <3>1. kind[t] = "write" /\ new[t] < location
      BY <2>2 DEF AfterReading
    <3>2. QED  BY <1>2, <2>2, <3>1, DoneApplies
  <2>3. QED  BY <2>1, <2>2 DEF AfterReading
<1>3. CASE Load(t)
  BY <1>2, <1>3 DEF Load
<1>4. CASE CasFails(t)
  BY <1>2, <1>4 DEF CasFails
<1>5. CASE CasSucceeds(t)
  <2>1. ~(kind[t] = "write" /\ new[t] < location)
    BY <1>5, LocationAssumption, SMT DEF CasSucceeds, Ends
  <2>2. location' = new[t]
    BY <1>5 DEF CasSucceeds
  <2>3. QED  BY <1>5, <2>1, <2>2, DoneApplies DEF CasSucceeds
<1>6. CASE Store(t)
  BY <1>6, DoneApplies DEF Store
<1>7. CASE Return(t)
  BY <1>7, ReturnRefines
<1>8. QED  BY <1>1, <1>3, <1>4, <1>5, <1>6, <1>7 DEF Step

\* Each call on a location takes effect once, at one instant, whatever the
\* number of threads: the loops of UpdateMetadata and Truncate implement an
\* atomic high-water mark.
THEOREM LoopsAreAtomic == Spec => LocationIsWatermark
<1>1. IInv /\ [Next]_vars => [Mark!Next]_(Mark!vars)
  <2>1. ASSUME IInv, NEW t \in Threads, Call(t) PROVE Mark!Next
    BY <2>1, CallRefines DEF Mark!Next
  <2>2. ASSUME IInv, NEW t \in Threads, Step(t) PROVE [Mark!Next]_(Mark!vars)
    BY <2>2, StepRefines DEF Mark!Next
  <2>3. UNCHANGED vars => UNCHANGED Mark!vars
    BY DEF vars, Mark!vars
  <2>4. QED  BY <2>1, <2>2, <2>3 DEF Next
<1>2. QED
  BY InitRefines, Invariance, <1>1, PTL DEF Spec, LocationIsWatermark, Mark!Spec

-----------------------------------------------------------------------------
(* MetadataSync.                                                           *)

\* What a sync has loaded, what it is about to copy and what it is about to
\* write are locations of the syncs under way.
SyncIsRecent(s) ==
    /\ at[s] # "idle" => location \in held
    /\ at[s] \in {"store", "write"} => local[s] \in held
    /\ at[s] = "copy" => region \in held

SyncInv ==
    /\ IInv
    /\ SyncTypeOK
    /\ \A s \in Syncers : SyncIsRecent(s)

LEMMA SyncInitially == SyncInit => SyncInv
<1> SUFFICES ASSUME SyncInit PROVE SyncInv
  OBVIOUS
<1>1. IInv
  BY Initially DEF SyncInit
<1>2. TypeOK /\ 0 \in Ends /\ 0 \in 0 .. MaxSyncs
  BY <1>1, LocationAssumption, SyncAssumption, SMT DEF IInv, Ends
<1>3. QED
  BY <1>1, <1>2 DEF SyncInit, SyncInv, SyncTypeOK, SyncIsRecent, SyncPlaces

\* A step of another call only adds to what the location has been.
LEMMA FileStepKeeps == ASSUME SyncInv, FileStep PROVE SyncInv'
<1>1. IInv'
  BY CallKeeps, StepKeeps DEF SyncInv, FileStep, Next
<1>2. TypeOK' /\ location' \in Ends
  BY <1>1 DEF IInv, TypeOK
<1>3. /\ UNCHANGED <<region, durable, local, at, syncs>>
      /\ held' = IF Syncing THEN held \cup {location'} ELSE held
  BY DEF FileStep
<1>4. SyncTypeOK'
  <2>1. held' \subseteq Ends
    BY <1>2, <1>3 DEF SyncInv, SyncTypeOK
  <2>2. Ends' = Ends
    BY DEF Ends
  <2>3. QED  BY <1>2, <1>3, <2>1, <2>2 DEF SyncInv, SyncTypeOK
<1>5. ASSUME NEW s \in Syncers PROVE SyncIsRecent(s)'
  BY <1>3 DEF SyncInv, SyncIsRecent, Syncing
<1>6. QED  BY <1>1, <1>4, <1>5 DEF SyncInv

\* The steps of a sync leave LocationRace alone.
LEMMA SyncKeepsFile == ASSUME SyncInv, UNCHANGED vars PROVE IInv' /\ TypeOK'
<1>1. IInv'
  BY StutterKeeps DEF SyncInv
<1>2. QED  BY <1>1 DEF IInv

LEMMA FileSyncKeeps == ASSUME SyncInv, NEW s \in Syncers, FileSync(s) PROVE SyncInv'
<1>1. IInv' /\ TypeOK'
  BY SyncKeepsFile DEF FileSync
<1>2. /\ at[s] = "idle"
      /\ held' = IF Syncing THEN held ELSE {location}
      /\ local' = [local EXCEPT ![s] = location]
      /\ at' = [at EXCEPT ![s] = "store"]
      /\ location' = location /\ region' = region /\ durable' = durable
  BY DEF FileSync, SyncGoto, vars
<1>3. location \in Ends /\ held' \subseteq Ends
  BY <1>2 DEF SyncInv, SyncTypeOK, TypeOK
<1>4. syncs' \in 0 .. MaxSyncs
  BY SyncAssumption, SMT DEF FileSync, SyncInv, SyncTypeOK
<1>5. SyncTypeOK'
  BY <1>1, <1>2, <1>3, <1>4 DEF SyncInv, SyncTypeOK, SyncPlaces, Ends
<1>6. location \in held'
  BY <1>2 DEF SyncInv, SyncIsRecent, Syncing
<1>7. ASSUME NEW u \in Syncers PROVE SyncIsRecent(u)'
  <2>1. CASE u = s
    BY <1>2, <1>6, <2>1 DEF SyncInv, SyncTypeOK, SyncIsRecent
  <2>2. CASE u # s
    <3>1. at'[u] = at[u] /\ local'[u] = local[u]
      BY <1>2, <2>2 DEF SyncInv, SyncTypeOK
    <3>2. at[u] # "idle" => held' = held
      BY <1>2 DEF Syncing
    <3>3. QED  BY <1>2, <3>1, <3>2 DEF SyncInv, SyncIsRecent
  <2>3. QED  BY <2>1, <2>2
<1>8. QED  BY <1>1, <1>5, <1>7 DEF SyncInv

LEMMA StoreLocationKeeps == ASSUME SyncInv, NEW s \in Syncers, StoreLocation(s) PROVE SyncInv'
<1>1. IInv' /\ TypeOK'
  BY SyncKeepsFile DEF StoreLocation
<1>2. SyncTypeOK'
  BY <1>1 DEF StoreLocation, SyncGoto, SyncInv, SyncTypeOK, SyncPlaces, Ends
<1>3. ASSUME NEW u \in Syncers PROVE SyncIsRecent(u)'
  BY DEF StoreLocation, SyncGoto, SyncInv, SyncTypeOK, SyncIsRecent, vars
<1>4. QED  BY <1>1, <1>2, <1>3 DEF SyncInv

LEMMA CopyStructKeeps == ASSUME SyncInv, NEW s \in Syncers, CopyStruct(s) PROVE SyncInv'
<1>1. IInv' /\ TypeOK'
  BY SyncKeepsFile DEF CopyStruct
<1>2. SyncTypeOK'
  BY <1>1 DEF CopyStruct, SyncGoto, SyncInv, SyncTypeOK, SyncPlaces, Ends
<1>3. ASSUME NEW u \in Syncers PROVE SyncIsRecent(u)'
  BY DEF CopyStruct, SyncGoto, SyncInv, SyncTypeOK, SyncIsRecent, vars
<1>4. QED  BY <1>1, <1>2, <1>3 DEF SyncInv

LEMMA WriteBufferKeeps == ASSUME SyncInv, NEW s \in Syncers, WriteBuffer(s) PROVE SyncInv'
<1>1. IInv' /\ TypeOK'
  BY SyncKeepsFile DEF WriteBuffer
<1>2. /\ at' = [at EXCEPT ![s] = "idle"]
      /\ local' = [local EXCEPT ![s] = 0]
      /\ held' = IF \E u \in Syncers \ {s} : at[u] # "idle" THEN held ELSE {}
      /\ durable' = local[s] /\ region' = region /\ location' = location /\ syncs' = syncs
  BY DEF WriteBuffer, SyncGoto, vars
<1>3. 0 \in Ends
  BY LocationAssumption, SMT DEF Ends
<1>4. SyncTypeOK'
  BY <1>1, <1>2, <1>3 DEF SyncInv, SyncTypeOK, SyncPlaces, Ends
<1>5. ASSUME NEW u \in Syncers PROVE SyncIsRecent(u)'
  <2>1. CASE u = s
    BY <1>2, <2>1 DEF SyncInv, SyncTypeOK, SyncIsRecent
  <2>2. CASE u # s
    <3>1. at'[u] = at[u] /\ local'[u] = local[u]
      BY <1>2, <2>2 DEF SyncInv, SyncTypeOK
    <3>2. at[u] # "idle" => held' = held
      BY <1>2, <2>2
    <3>3. QED  BY <1>2, <3>1, <3>2 DEF SyncInv, SyncIsRecent
  <2>3. QED  BY <2>1, <2>2
<1>6. QED  BY <1>1, <1>4, <1>5 DEF SyncInv

LEMMA SyncStutterKeeps == SyncInv /\ UNCHANGED allVars => SyncInv'
<1> SUFFICES ASSUME SyncInv, UNCHANGED allVars PROVE SyncInv'
  OBVIOUS
<1>1. IInv' /\ TypeOK'
  BY SyncKeepsFile DEF allVars
<1>2. QED
  BY <1>1 DEF SyncInv, SyncTypeOK, SyncIsRecent, allVars, syncVars, vars, Ends

LEMMA SyncInvariance == SyncSpec => []SyncInv
<1>1. SyncInv /\ [SyncNext]_allVars => SyncInv'
  BY FileStepKeeps, FileSyncKeeps, StoreLocationKeeps, CopyStructKeeps, WriteBufferKeeps,
     SyncStutterKeeps DEF SyncNext
<1>2. QED  BY SyncInitially, <1>1, PTL DEF SyncSpec

\* The type invariant of the location, the struct, LBA 0 and the threads.
THEOREM SyncTypeCorrect == SyncSpec => []SyncTypeOK
  BY SyncInvariance, PTL DEF SyncInv

\* Whatever the number of syncs that overlap, and of calls beside them, what a
\* FileSync leaves at LBA 0 is a location the file had since the first of them
\* began.
THEOREM SyncsSaveRecentLocations == SyncSpec => SyncedLocationIsRecent
<1> DEFINE Recent == \A s \in Syncers : at[s] = "write" /\ at'[s] = "idle" => durable' \in held
<1>1. ASSUME SyncInv, SyncNext PROVE Recent
  <2>1. CASE FileStep
    BY <2>1 DEF FileStep
  <2>2. ASSUME NEW u \in Syncers, FileSync(u) \/ StoreLocation(u) \/ CopyStruct(u),
               NEW s \in Syncers, at[s] = "write"
        PROVE  at'[s] # "idle"
    <3>1. PICK label \in {"store", "copy", "write"} : at' = [at EXCEPT ![u] = label]
      BY <2>2 DEF FileSync, StoreLocation, CopyStruct, SyncGoto
    <3>2. QED  BY <1>1, <2>2, <3>1 DEF SyncInv, SyncTypeOK
  <2>3. ASSUME NEW u \in Syncers, WriteBuffer(u),
               NEW s \in Syncers, at[s] = "write", at'[s] = "idle"
        PROVE  durable' \in held
    <3>1. at[u] = "write" /\ durable' = local[u]
      BY <2>3 DEF WriteBuffer
    <3>2. QED  BY <1>1, <3>1 DEF SyncInv, SyncIsRecent
  <2>4. QED  BY <1>1, <2>1, <2>2, <2>3 DEF SyncNext
<1>2. SyncInv /\ [SyncNext]_allVars => [Recent]_allVars
  BY <1>1
<1>3. QED  BY SyncInvariance, <1>2, PTL DEF SyncSpec, SyncedLocationIsRecent

\* The syncs leave the calls of LocationRace alone, so its theorems hold beside
\* them.
THEOREM SyncsLeaveCallsAlone == SyncSpec => Spec
<1>1. SyncInit => Init
  BY DEF SyncInit
<1>2. [SyncNext]_allVars => [Next]_vars
  BY DEF SyncNext, FileStep, FileSync, StoreLocation, CopyStruct, WriteBuffer, allVars
<1>3. QED  BY <1>1, <1>2, PTL DEF SyncSpec, Spec

\* The loops are atomic, and the location is raised only over data that is on
\* the device, beside any number of syncs.
COROLLARY LoopsAreAtomicBesideSyncs == SyncSpec => LocationIsWatermark /\ RaisedOverData
  BY SyncsLeaveCallsAlone, LoopsAreAtomic, NoLocationBeforeData, PTL
=============================================================================
