--------------------------- MODULE NvmeFileSystem ---------------------------
(***************************************************************************)
(* The NvmeFileSystem of src/src/nvmefs.cpp with the database and WAL      *)
(* strategies: where the regions of a device lie, how far each file has    *)
(* been written, and what of that survives a restart.                      *)
(*                                                                         *)
(* The device is an array of LBAs.  The global metadata sits at LBA 0, one *)
(* region per database follows (its database file, then its WAL), and the  *)
(* temporary space runs from tmp_start to the end of the device.           *)
(*                                                                         *)
(* One action is one call of the file system, except InitializeMetadata,   *)
(* whose registrations are one action each.  The races of calls on one     *)
(* location are in LocationRace; the temporary space is in BlockManager    *)
(* and TempFiles; the commands to the device are in AsyncEngine and        *)
(* PrefetchEngine.  Sizes are in LBAs.                                     *)
(***************************************************************************)
EXTENDS Integers, Sequences, Functions

CONSTANTS
    Names,          \* database names, none longer than the 100 bytes of db_path
    LbaCount,       \* LBAs of the device
    MetadataLbas,   \* LBAs that the magic bytes and GlobalMetadata fill
    MaxTempLbas,    \* config.max_temp_size
    MaxWalLbas,     \* config.max_wal_size
    DefaultDbLbas,  \* config.default_db_size
    ConfigOrder,    \* the keys of config.db_configs, in the map's order
    ConfigLbas,     \* the size db_configs gives each of them
    MaxDatabases,   \* MAX_NVME_DATABASES
    Word,           \* 2^64: idx_t wraps here
    MaxIoLbas       \* bound: offset and length of one write, and new sizes

Configured == Range(ConfigOrder)

ASSUME SizesAssumption ==
    /\ LbaCount \in Nat \ {0}
    /\ MetadataLbas \in 1 .. LbaCount
    /\ MaxTempLbas \in 0 .. LbaCount      \* tmp_start does not wrap
    /\ MaxWalLbas \in Nat
    /\ DefaultDbLbas \in Nat
    /\ MaxDatabases \in Nat \ {0}
    /\ MaxIoLbas \in Nat

ASSUME ConfigAssumption ==
    /\ ConfigOrder \in Seq(Names)
    /\ \A i, j \in DOMAIN ConfigOrder : i # j => ConfigOrder[i] # ConfigOrder[j]
    /\ ConfigLbas \in [Configured -> Nat]

\* Sizes are 64-bit byte counts divided by lba_size, so the sum of three of
\* them with an LBA of the device stays far below 2^64.
ASSUME WordAssumption ==
    /\ Word \in Nat
    /\ LbaCount + DefaultDbLbas + MaxWalLbas < Word
    /\ \A n \in Configured : LbaCount + ConfigLbas[n] + MaxWalLbas < Word

-----------------------------------------------------------------------------
(* Unsigned 64-bit arithmetic. *)

Plus(a, b) == IF a + b < Word THEN a + b ELSE a + b - Word
Minus(a, b) == IF b <= a THEN a - b ELSE a - b + Word

-----------------------------------------------------------------------------
(* Files and regions. *)

FileTypes == {"DATABASE", "WAL"}

\* is_active is set and never cleared and the first inactive slot is always
\* taken, so the active slots are a sequence and active_databases its length.
Region == [db_path : Names, db_start : Nat, wal_start : Nat, wal_end : Nat,
           db_location : Nat, wal_location : Nat]

NewRegion(n, start, lbas) ==
    [db_path |-> n,
     db_start |-> start,
     wal_start |-> Plus(start, lbas),
     wal_end |-> Plus(Plus(start, lbas), MaxWalLbas),
     db_location |-> start,
     wal_location |-> Plus(start, lbas)]

FirstLba(r, type) == IF type = "DATABASE" THEN r.db_start ELSE r.wal_start
EndLba(r, type) == IF type = "DATABASE" THEN r.wal_start ELSE r.wal_end

GlobalMetadata == [tmp_start : Nat, databases : Seq(Region)]
Blank == [tmp_start |-> 0, databases |-> <<>>]

\* What an LBA of the device was last written with: BLANK is nothing, or data of a
\* database that no metadata knows any more.
Content == [type : FileTypes \cup {"BLANK", "META", "TEMP"}, db : Names \cup {"none"}]
BlankLba == [type |-> "BLANK", db |-> "none"]
MetaLba == [type |-> "META", db |-> "none"]
TempLba == [type |-> "TEMP", db |-> "none"]
FileLba(type, n) == [type |-> type, db |-> n]

Lbas == 0 .. LbaCount - 1

VARIABLES
    media,      \* what each LBA holds
    disk,       \* the GlobalMetadata last written at LBA 0
    attached,   \* metadata is not null
    metadata,   \* the GlobalMetadata in memory
    active_dbs, \* the DatabaseRuntimeState of each database, by name
    init,       \* an InitializeMetadata under way: its locals
    saved       \* history: no region was added whose metadata write failed, or a
                \* later one has reached the device

vars == <<media, disk, attached, metadata, active_dbs, init, saved>>

Locations == [db_location : Nat, wal_location : Nat]
NoInit == [running |-> FALSE]

-----------------------------------------------------------------------------
(* Helpers of the handlers. *)

\* GetRegionForPath: the slots that hold name n (at most one, UniqueNames).
SlotsOf(md, n) == {i \in DOMAIN md.databases : md.databases[i].db_path = n}

\* Mutant: active_dbs keyed by slot number instead of database name.
StatesBySlot(dbs) ==
    [i \in DOMAIN dbs |->
        [db_location |-> dbs[i].db_location, wal_location |-> dbs[i].wal_location]]

\* active_dbs as TryLoadMetadata and InitializeMetadata fill it.
StatesOf(dbs) ==
    [n \in {dbs[i].db_path : i \in DOMAIN dbs} |->
        LET i == CHOOSE j \in DOMAIN dbs : dbs[j].db_path = n
        IN  [db_location |-> dbs[i].db_location, wal_location |-> dbs[i].wal_location]]

\* WriteMetadata copies the runtime locations into the struct it writes.
WithLocation(r, states) ==
    IF r.db_path \in DOMAIN states
    THEN [r EXCEPT !.db_location = states[r.db_path].db_location,
                   !.wal_location = states[r.db_path].wal_location]
    ELSE r

WithLocations(md, states) ==
    [md EXCEPT !.databases =
        [i \in DOMAIN md.databases |-> WithLocation(md.databases[i], states)]]

Overwrite(m, lbas, content) == [l \in Lbas |-> IF l \in lbas THEN content ELSE m[l]]

\* The LBAs of a transfer.
Transfer(start, count) == start .. start + count - 1

\* WriteMetadata: memory takes the locations, then the device takes the struct...
WriteMetadata(md, states) ==
    /\ metadata' = WithLocations(md, states)
    /\ disk' = WithLocations(md, states)
    /\ media' = Overwrite(media, Transfer(0, MetadataLbas), MetaLba)

\* ... or device->Write fails, which leaves memory ahead of the device.  The call
\* throws, or returns where the engine drops the error (AsyncEngine).
WriteMetadataFails(md, states) ==
    /\ metadata' = WithLocations(md, states)
    /\ UNCHANGED <<disk, media>>

\* Mutant: new regions are left for the next FileSync to save.
SaveNewLayoutLater(md, states) ==
    /\ metadata' = WithLocations(md, states)
    /\ saved' = TRUE
    /\ UNCHANGED <<disk, media>>

\* The WriteMetadata that ends an OpenFile which has added regions.  They stay in
\* use when it fails.
SaveNewLayout(md, states) ==
    \/ WriteMetadata(md, states) /\ saved' = TRUE
    \/ WriteMetadataFails(md, states) /\ saved' = FALSE

\* Mutant: the magic bytes on the device are never looked for.
CanLoadFromMemory == attached

\* TryLoadMetadata, which most calls begin with: it succeeds when the metadata
\* is in memory or LBA 0 carries the magic bytes, and has these effects.
CanLoad == attached \/ media[0] = MetaLba
LoadedMetadata == IF attached THEN metadata ELSE disk
LoadedStates == IF attached THEN active_dbs ELSE StatesOf(disk.databases)

Idle == ~init.running

\* A call that does nothing but load.
Load ==
    /\ Idle /\ CanLoad
    /\ attached' = TRUE
    /\ metadata' = LoadedMetadata
    /\ active_dbs' = LoadedStates
    /\ UNCHANGED <<media, disk, init, saved>>

-----------------------------------------------------------------------------
Init ==
    /\ media = [l \in Lbas |-> BlankLba]
    /\ disk = Blank
    /\ attached = FALSE
    /\ metadata = Blank
    /\ active_dbs = <<>>
    /\ init = NoInit
    /\ saved = TRUE

(***************************************************************************)
(* OpenFile on a device that has, or can load, its metadata.               *)
(***************************************************************************)

\* OpenFile of a file whose region exists, or of a temporary one.
OpenExisting(n, type) ==
    /\ Load
    /\ type = "TEMPORARY" \/ SlotsOf(LoadedMetadata, n) # {}

\* No region and no right to create one: the strategy factory throws.
OpenMissing(n, type, create) ==
    /\ Load
    /\ SlotsOf(LoadedMetadata, n) = {}
    /\ type = "UNKNOWN" \/ (type \in FileTypes /\ ~create)

RequestedLbas(n) == IF n \in Configured THEN ConfigLbas[n] ELSE DefaultDbLbas

\* Mutant: the WAL of the last region is forgotten.
HighestDatabaseLba(md) ==
    {h \in {1} \cup {md.databases[i].wal_start : i \in DOMAIN md.databases} :
        h >= 1 /\ \A i \in DOMAIN md.databases : md.databases[i].wal_start <= h}

\* The end of the last active region: a singleton.
HighestLba(md) ==
    {h \in {1} \cup {md.databases[i].wal_end : i \in DOMAIN md.databases} :
        h >= 1 /\ \A i \in DOMAIN md.databases : md.databases[i].wal_end <= h}

\* AllocateNewDatabaseRegion, called by OpenFile for a database or WAL path.
AllocateNewDatabaseRegion(n, type) ==
    /\ Idle /\ CanLoad
    /\ type \in FileTypes
    /\ SlotsOf(LoadedMetadata, n) = {}
    /\ Len(LoadedMetadata.databases) < MaxDatabases
    /\ \E h \in HighestLba(LoadedMetadata) :
        LET r == NewRegion(n, h, RequestedLbas(n))
            md == [LoadedMetadata EXCEPT !.databases = Append(@, r)]
            states == [m \in DOMAIN LoadedStates \cup {n} |->
                        IF m = n THEN [db_location |-> r.db_start, wal_location |-> r.wal_start]
                        ELSE LoadedStates[m]]
        IN  /\ Plus(Plus(h, RequestedLbas(n)), MaxWalLbas) < LoadedMetadata.tmp_start
            /\ active_dbs' = states
            /\ SaveNewLayout(md, states)
    /\ attached' = TRUE
    /\ UNCHANGED init

\* AllocateNewDatabaseRegion throws: no slot, or no space.
AllocationRefused(n, type) ==
    /\ Load
    /\ type \in FileTypes
    /\ SlotsOf(LoadedMetadata, n) = {}
    /\ \/ Len(LoadedMetadata.databases) >= MaxDatabases
       \/ \E h \in HighestLba(LoadedMetadata) :
            Plus(Plus(h, RequestedLbas(n)), MaxWalLbas) >= LoadedMetadata.tmp_start

(***************************************************************************)
(* OpenFile on a device without metadata.                                  *)
(***************************************************************************)

\* It throws "No database is attached".
OpenUnattached(type) == Idle /\ ~CanLoad /\ type # "DATABASE" /\ UNCHANGED vars

\* The read of the metadata throws, and nothing is loaded.
LoadFails == Idle /\ ~attached /\ UNCHANGED vars

TmpStart == Minus(LbaCount, MaxTempLbas)

\* The RegisterDB calls of InitializeMetadata for the first database opened:
\* the configured databases, then that one if it is not among them; without
\* db_configs, that one alone with all the LBAs up to the temporary space.
NrRegistrations(first) ==
    IF ConfigOrder = <<>> \/ first \notin Configured
    THEN Len(ConfigOrder) + 1 ELSE Len(ConfigOrder)
RegisteredName(first, k) == IF k <= Len(ConfigOrder) THEN ConfigOrder[k] ELSE first
RegisteredLbas(first, k) ==
    IF k <= Len(ConfigOrder) THEN ConfigLbas[ConfigOrder[k]]
    ELSE IF ConfigOrder = <<>> THEN Minus(Minus(TmpStart, 1), MaxWalLbas)
    ELSE DefaultDbLbas

InitializeMetadata(n) ==
    /\ Idle /\ ~CanLoad
    /\ init' = [running |-> TRUE, first |-> n, current_lba |-> 1,
                global |-> [tmp_start |-> TmpStart, databases |-> <<>>]]
    /\ UNCHANGED <<media, disk, attached, metadata, active_dbs, saved>>

NextRegistration == Len(init.global.databases) + 1

RegistrationEnd ==
    Plus(Plus(init.current_lba, RegisteredLbas(init.first, NextRegistration)), MaxWalLbas)

\* RegisterDB appends a region to the metadata being built.
RegisterDB ==
    /\ init.running
    /\ NextRegistration <= NrRegistrations(init.first)
    /\ NextRegistration <= MaxDatabases
    /\ RegistrationEnd < init.global.tmp_start
    /\ init' = [init EXCEPT
            !.current_lba = RegistrationEnd,
            !.global.databases = Append(@,
                NewRegion(RegisteredName(init.first, NextRegistration), init.current_lba,
                          RegisteredLbas(init.first, NextRegistration)))]
    /\ UNCHANGED <<media, disk, attached, metadata, active_dbs, saved>>

\* RegisterDB throws: the metadata being built is dropped with its owner.
RegistrationRefused ==
    /\ init.running
    /\ NextRegistration <= NrRegistrations(init.first)
    /\ NextRegistration > MaxDatabases \/ RegistrationEnd >= init.global.tmp_start
    /\ init' = NoInit
    /\ UNCHANGED <<media, disk, attached, metadata, active_dbs, saved>>

\* The end of InitializeMetadata and of the OpenFile that called it.
PublishMetadata ==
    /\ init.running
    /\ NextRegistration > NrRegistrations(init.first)
    /\ attached' = TRUE
    /\ active_dbs' = StatesOf(init.global.databases)
    /\ SaveNewLayout(init.global, StatesOf(init.global.databases))
    /\ init' = NoInit

(***************************************************************************)
(* Calls on an open handle, whose strategy holds the region and the        *)
(* runtime state of its database: both exist, and neither ever goes away   *)
(* while the file system lives, so a handle needs no state of its own.     *)
(***************************************************************************)

HasFile(n) == Idle /\ attached /\ SlotsOf(metadata, n) # {} /\ n \in DOMAIN active_dbs

Location(n, type) ==
    IF type = "DATABASE" THEN active_dbs[n].db_location ELSE active_dbs[n].wal_location

SetLocation(n, type, lba) ==
    active_dbs' = IF type = "DATABASE" THEN [active_dbs EXCEPT ![n].db_location = lba]
                  ELSE [active_dbs EXCEPT ![n].wal_location = lba]

\* Mutant: only the first LBA of the transfer is looked at.
IsStartInRange(r, type, start, count) ==
    FirstLba(r, type) <= start /\ start <= EndLba(r, type) - 1

\* Mutant: the end is taken as inclusive.
IsLBAInClosedRange(r, type, start, count) ==
    FirstLba(r, type) <= start /\ start + count - 1 <= EndLba(r, type)

\* IsLBAInRange for a transfer of at least one LBA.
IsLBAInRange(r, type, start, count) ==
    FirstLba(r, type) <= start /\ start + count - 1 <= EndLba(r, type) - 1

\* The data goes to the device: to all LBAs of the transfer, or to some of them if
\* commands fail.
WriteData(n, type, start, count) ==
    \E lbas \in SUBSET Transfer(start, count) : media' = Overwrite(media, lbas, FileLba(type, n))

\* Write, then UpdateMetadata raises the location, also over LBAs whose commands
\* have failed without device->Write throwing.
Write(n, type, offset, count) ==
    /\ HasFile(n)
    /\ \E i \in SlotsOf(metadata, n) :
        LET r == metadata.databases[i]
            start == FirstLba(r, type) + offset
        IN  /\ IsLBAInRange(r, type, start, count)
            /\ WriteData(n, type, start, count)
            /\ IF start + count < Location(n, type) THEN UNCHANGED active_dbs
               ELSE SetLocation(n, type, start + count)
    /\ UNCHANGED <<disk, attached, metadata, init, saved>>

\* device->Write throws.
WriteFails(n, type, offset, count) ==
    /\ HasFile(n)
    /\ \E i \in SlotsOf(metadata, n) :
        LET r == metadata.databases[i]
            start == FirstLba(r, type) + offset
        IN  IsLBAInRange(r, type, start, count) /\ WriteData(n, type, start, count)
    /\ UNCHANGED <<disk, attached, metadata, active_dbs, init, saved>>

\* The write throws "Write out of range".
WriteRefused(n, type, offset, count) ==
    /\ HasFile(n)
    /\ \E i \in SlotsOf(metadata, n) :
        ~IsLBAInRange(metadata.databases[i], type,
                      FirstLba(metadata.databases[i], type) + offset, count)
    /\ UNCHANGED vars

\* A write to a temporary file, at an LBA of the temporary block manager, which
\* begins at tmp_start and whose last block is transferred up to the end of the
\* device.
WriteTemporary(lba) ==
    /\ Idle /\ attached
    /\ metadata.tmp_start <= lba
    /\ media' = Overwrite(media, {lba}, TempLba)
    /\ UNCHANGED <<disk, attached, metadata, active_dbs, init, saved>>

\* Truncate, also to a larger size; past the region it throws.
Truncate(n, type, size) ==
    /\ HasFile(n)
    /\ \E i \in SlotsOf(metadata, n) :
        LET new == FirstLba(metadata.databases[i], type) + size
        IN  /\ new <= EndLba(metadata.databases[i], type)
            /\ SetLocation(n, type, new)
    /\ UNCHANGED <<media, disk, attached, metadata, init, saved>>

\* Mutant: the locations are taken from the metadata, as of its last save.
RemoveWalFromMetadata(n) ==
    /\ Idle /\ CanLoad
    /\ \E i \in SlotsOf(LoadedMetadata, n) :
        /\ n \in DOMAIN LoadedStates
        /\ active_dbs' = [StatesOf(LoadedMetadata.databases) EXCEPT
                            ![n].wal_location = LoadedMetadata.databases[i].wal_start]
    /\ attached' = TRUE
    /\ metadata' = LoadedMetadata
    /\ UNCHANGED <<media, disk, init, saved>>

\* RemoveFile on a WAL, which loads the metadata first.  On a database file
\* it only loads (LoadMetadata).
RemoveWal(n) ==
    /\ Idle /\ CanLoad
    /\ \E i \in SlotsOf(LoadedMetadata, n) :
        /\ n \in DOMAIN LoadedStates
        /\ active_dbs' = [LoadedStates EXCEPT
                            ![n].wal_location = LoadedMetadata.databases[i].wal_start]
    /\ attached' = TRUE
    /\ metadata' = LoadedMetadata
    /\ UNCHANGED <<media, disk, init, saved>>

\* FileExists, DirectoryExists, ListFiles...: what they change is the load.
LoadMetadata == Load

FileSync ==
    /\ Idle /\ attached
    /\ \/ WriteMetadata(metadata, active_dbs) /\ saved' = TRUE
       \/ WriteMetadataFails(metadata, active_dbs) /\ UNCHANGED saved
    /\ UNCHANGED <<attached, active_dbs, init>>

Forget ==
    /\ attached' = FALSE
    /\ metadata' = Blank
    /\ active_dbs' = <<>>
    /\ init' = NoInit
    /\ saved' = TRUE

\* The destructor, then a new NvmeFileSystem on the same device.
Restart ==
    /\ Idle
    /\ IF attached
       THEN /\ disk' = WithLocations(metadata, active_dbs)
            /\ media' = Overwrite(media, Transfer(0, MetadataLbas), MetaLba)
       ELSE UNCHANGED <<disk, media>>
    /\ Forget

\* The process dies at any point, be it because the destructor cannot write the
\* metadata; only the device keeps its state.  What was written for a database
\* whose region it does not have is no one's from now on.
Crash ==
    /\ media' = [l \in Lbas |->
            IF media[l].type \in FileTypes /\ SlotsOf(disk, media[l].db) = {} THEN BlankLba
            ELSE media[l]]
    /\ Forget
    /\ UNCHANGED disk

-----------------------------------------------------------------------------
PathTypes == FileTypes \cup {"TEMPORARY", "UNKNOWN"}

OpenFile ==
    \/ \E n \in Names, type \in PathTypes : OpenExisting(n, type)
    \/ \E n \in Names, type \in PathTypes, create \in BOOLEAN : OpenMissing(n, type, create)
    \/ \E n \in Names, type \in FileTypes : AllocateNewDatabaseRegion(n, type)
    \/ \E n \in Names, type \in FileTypes : AllocationRefused(n, type)
    \/ \E type \in PathTypes : OpenUnattached(type)
    \/ LoadFails
    \/ \E n \in Names : InitializeMetadata(n)
    \/ RegisterDB
    \/ RegistrationRefused
    \/ PublishMetadata

HandleCall ==
    \/ \E n \in Names, type \in FileTypes, offset \in 0 .. MaxIoLbas, count \in 1 .. MaxIoLbas :
        \/ Write(n, type, offset, count)
        \/ WriteFails(n, type, offset, count)
        \/ WriteRefused(n, type, offset, count)
    \/ \E lba \in Lbas : WriteTemporary(lba)
    \/ \E n \in Names, type \in FileTypes, size \in 0 .. MaxIoLbas : Truncate(n, type, size)
    \/ FileSync

Next ==
    \/ OpenFile
    \/ HandleCall
    \/ \E n \in Names : RemoveWal(n)
    \/ LoadMetadata
    \/ Restart
    \/ Crash

Spec == Init /\ [][Next]_vars

-----------------------------------------------------------------------------
TypeOK ==
    /\ media \in [Lbas -> Content]
    /\ disk \in GlobalMetadata
    /\ attached \in BOOLEAN
    /\ metadata \in GlobalMetadata
    /\ DOMAIN active_dbs \subseteq Names
    /\ active_dbs \in [DOMAIN active_dbs -> Locations]
    /\ \/ init = NoInit
       \/ init \in [running : {TRUE}, first : Names, current_lba : Nat, global : GlobalMetadata]
    /\ saved \in BOOLEAN

\* The regions of md lie between LBA 1 and tmp_start, in the order of their
\* slots, none touching another, each with its location inside its file, and
\* no two have the same name.
Separate(md) ==
    /\ md.tmp_start <= LbaCount
    /\ \A i \in DOMAIN md.databases :
        LET r == md.databases[i]
        IN  /\ 1 <= r.db_start /\ r.wal_end < md.tmp_start
            /\ r.db_start <= r.db_location /\ r.db_location <= r.wal_start
            /\ r.wal_start <= r.wal_location /\ r.wal_location <= r.wal_end
    /\ \A i, j \in DOMAIN md.databases :
        i < j => /\ md.databases[i].wal_end <= md.databases[j].db_start
                 /\ md.databases[i].db_path # md.databases[j].db_path

\* The layout is sound on the device, in memory and while it is being built,
\* whatever mix of configured, later opened and refused databases led to it
\* (InitializeMetadata and AllocateNewDatabaseRegion compute it separately).
RegionsSeparate ==
    /\ Separate(disk)
    /\ Separate(metadata)
    /\ init.running => Separate(init.global)

\* Every region of md has a runtime state, with locations inside the region.
Placed(md, states) ==
    \A i \in DOMAIN md.databases :
        LET r == md.databases[i]
        IN  /\ r.db_path \in DOMAIN states
            /\ r.db_start <= states[r.db_path].db_location
            /\ states[r.db_path].db_location <= r.wal_start
            /\ r.wal_start <= states[r.db_path].wal_location
            /\ states[r.db_path].wal_location <= r.wal_end

\* The locations stay inside their region through any writes, truncations,
\* removals, crashes and reloads; so GetFileSize and GetAvailableSpace never
\* subtract below zero.
LocationsInRegion == attached => Placed(metadata, active_dbs)

SameLayout(a, b) ==
    /\ a.tmp_start = b.tmp_start
    /\ DOMAIN a.databases = DOMAIN b.databases
    /\ \A i \in DOMAIN a.databases :
        /\ a.databases[i].db_path = b.databases[i].db_path
        /\ a.databases[i].db_start = b.databases[i].db_start
        /\ a.databases[i].wal_start = b.databases[i].wal_start
        /\ a.databases[i].wal_end = b.databases[i].wal_end

\* Metadata b has every region of metadata a, in its place, and the same
\* temporary space.
Extends(a, b) ==
    /\ a = Blank \/ b.tmp_start = a.tmp_start
    /\ \A i \in DOMAIN a.databases :
        /\ i \in DOMAIN b.databases
        /\ b.databases[i].db_path = a.databases[i].db_path
        /\ b.databases[i].db_start = a.databases[i].db_start
        /\ b.databases[i].wal_start = a.databases[i].wal_start
        /\ b.databases[i].wal_end = a.databases[i].wal_end

\* A crash gives back exactly the layout that was in use, unless the write that
\* should have saved a new region has failed and nothing has saved it since;
\* then all that is lost is regions added behind those on the device.
LayoutIsDurable ==
    attached => IF saved THEN media[0] = MetaLba /\ SameLayout(metadata, disk)
                ELSE Extends(disk, metadata)

\* The media m holds what the layout of md allows: each LBA data of the file
\* whose region it is in, or of the temporary space, or the metadata.
Owned(m, md) ==
    \A l \in Lbas :
        /\ m[l].type = "META" => l < MetadataLbas
        /\ m[l].type = "TEMP" => md.tmp_start <= l
        /\ m[l].type \in FileTypes =>
            \E i \in DOMAIN md.databases :
                /\ md.databases[i].db_path = m[l].db
                /\ FirstLba(md.databases[i], m[l].type) <= l
                /\ l < EndLba(md.databases[i], m[l].type)

\* The layout in use, or the one that will be.
Layout == IF attached THEN metadata ELSE disk

\* No write of any file, temporary ones included, lands on another file or on
\* the metadata, which stays in place once it has reached the device.  So what is
\* in a region, on the device or only in memory yet, is data of its own file or
\* was lost before the region was made.
EveryLbaHasItsOwner ==
    /\ disk = Blank \/ \A l \in 0 .. MetadataLbas - 1 : media[l] = MetaLba
    /\ Owned(media, Layout)

\* Action property: a region on the device never moves, shrinks, changes its
\* owner or disappears, across crashes, restarts and failed writes too, and the
\* temporary space keeps its start.
RegionsNeverMove == [][Extends(disk, disk')]_vars

\* A database path can be opened for writing on a fresh device that has room:
\* test/gtest/test_nvmefs_proxy.cpp, OpenFileValidDBPathThrowNoExpeception.
FreshDatabaseOpens == [][~RegistrationRefused]_vars

-----------------------------------------------------------------------------
(* The sizes GetFileSize would return now, and after a crash.              *)
SizesIn(md, states) ==
    [n \in {md.databases[i].db_path : i \in DOMAIN md.databases} |->
        LET r == CHOOSE q \in Range(md.databases) : q.db_path = n
        IN  [type \in FileTypes |->
                IF type = "DATABASE" THEN states[n].db_location - r.db_start
                ELSE states[n].wal_location - r.wal_start]]

DurableSizes == SizesIn(disk, StatesOf(disk.databases))

Promise == INSTANCE DurableFiles WITH
    files <- IF attached THEN SizesIn(metadata, active_dbs) ELSE DurableSizes,
    durable <- DurableSizes,
    saved <- saved

\* Refinement: every call of the file system, with its loads and saves of the
\* metadata, does to the file sizes what DurableFiles allows, and no more.
SizesAreDurable == Promise!Spec
=============================================================================
