----------------------------- MODULE MetadataSync -----------------------------
(***************************************************************************)
(* FileSync beside the calls of LocationRace.  WriteMetadata loads each    *)
(* runtime location into the shared GlobalMetadata, copies that struct to  *)
(* a buffer and writes the buffer to LBA 0, all without a lock, and a sync *)
(* of any handle of any database saves the locations of all of them.       *)
(* One access or device command per step, as in LocationRace.              *)
(***************************************************************************)
EXTENDS LocationRace

CONSTANTS
    Syncers,     \* the threads that call FileSync
    MaxSyncs     \* bound: calls of FileSync altogether

ASSUME SyncAssumption == MaxSyncs \in Nat

VARIABLES
    region,      \* the location in the shared GlobalMetadata
    durable,     \* the location at LBA 0
    local,       \* what each sync has loaded, then what its buffer holds
    at,          \* where each sync is
    syncs,       \* syncs begun so far
    held         \* history: what the location has been since there is a sync
                 \* under way

syncVars == <<region, durable, local, at, syncs, held>>
allVars == <<vars, syncVars>>

SyncPlaces == {"idle", "store", "copy", "write"}

SyncInit ==
    /\ Init
    /\ region = 0
    /\ durable = 0
    /\ local = [s \in Syncers |-> 0]
    /\ at = [s \in Syncers |-> "idle"]
    /\ syncs = 0
    /\ held = {}

Syncing == \E s \in Syncers : at[s] # "idle"

SyncGoto(s, label) == at' = [at EXCEPT ![s] = label]

\* The sync begins with active_dbs[db_name]->db_location.load()
FileSync(s) ==
    /\ at[s] = "idle" /\ syncs < MaxSyncs
    /\ syncs' = syncs + 1
    /\ held' = IF Syncing THEN held ELSE {location}
    /\ local' = [local EXCEPT ![s] = location]
    /\ SyncGoto(s, "store")
    /\ UNCHANGED <<vars, region, durable>>

\* Mutant: the struct keeps the location of the last initialisation or load.
StoreNothing(s) ==
    /\ at[s] = "store"
    /\ SyncGoto(s, "copy")
    /\ UNCHANGED <<vars, region, durable, local, syncs, held>>

\* global.databases[i].db_location = ...
StoreLocation(s) ==
    /\ at[s] = "store"
    /\ region' = local[s]
    /\ SyncGoto(s, "copy")
    /\ UNCHANGED <<vars, durable, local, syncs, held>>

\* memcpy of the struct behind the magic bytes: it may hold what another sync
\* has stored in the meantime.
CopyStruct(s) ==
    /\ at[s] = "copy"
    /\ local' = [local EXCEPT ![s] = region]
    /\ SyncGoto(s, "write")
    /\ UNCHANGED <<vars, region, durable, syncs, held>>

\* device->Write of LBA 0, after which the sync returns: the buffers of two
\* syncs reach the device in any order.
WriteBuffer(s) ==
    /\ at[s] = "write"
    /\ durable' = local[s]
    /\ local' = [local EXCEPT ![s] = 0]
    /\ SyncGoto(s, "idle")
    /\ held' = IF \E u \in Syncers \ {s} : at[u] # "idle" THEN held ELSE {}
    /\ UNCHANGED <<vars, region, syncs>>

\* A step of a write, truncation or removal.
FileStep ==
    /\ Next
    /\ held' = IF Syncing THEN held \cup {location'} ELSE held
    /\ UNCHANGED <<region, durable, local, at, syncs>>

SyncNext ==
    \/ FileStep
    \/ \E s \in Syncers :
        \/ FileSync(s)
        \/ StoreLocation(s)
        \/ CopyStruct(s)
        \/ WriteBuffer(s)

SyncSpec == SyncInit /\ [][SyncNext]_allVars
FairSyncSpec == SyncSpec /\ Fairness

-----------------------------------------------------------------------------
SyncTypeOK ==
    /\ TypeOK
    /\ region \in Ends /\ durable \in Ends
    /\ local \in [Syncers -> Ends]
    /\ at \in [Syncers -> SyncPlaces]
    /\ syncs \in 0 .. MaxSyncs
    /\ held \subseteq Ends

\* What a FileSync leaves at LBA 0 is a location that the file had after the
\* sync began, or after the first of an unbroken run of overlapping syncs did.
\* So a sync that overlaps no other covers every write that returned before it;
\* of syncs that overlap, the last to reach the device may bring back an older
\* location than one that has returned (nvmefs.cpp:607-626 takes no lock).
SyncedLocationIsRecent ==
    [][\A s \in Syncers : at[s] = "write" /\ at'[s] = "idle" => durable' \in held]_allVars
=============================================================================
