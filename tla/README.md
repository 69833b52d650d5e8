# nvmefs: a TLA+ verification project

nvmefs is a DuckDB extension that puts DuckDB's database, WAL and temporary
files straight on an NVMe device through xNVMe, without a kernel file system.
This directory models the parts of it that decide *which LBA belongs to whom*,
*what survives a crash* and *whether a transfer does what it says*, checks them
with TLC on small instances, and proves the most important of their properties
with TLAPS for every size.

Paths below are relative to the repository; `nvmefs.cpp` is `src/nvmefs.cpp`,
headers are in `src/include/`.

## 1. The system

```
  DuckDB ── FileSystem calls, many threads ──> NvmeFileSystem ──────────────┐
                                               │ metadata, active_dbs       │
             GetStrategy(path type)            │                            │
   ┌─────────────────┬────────────────────────┴──┐                          │
   v                 v                           v                          v
 DatabaseFile-   WALFile-               TemporaryFile-                 NvmeDevice
 Strategy        Strategy               Strategy                       Read / Write
   │ atomic db_location / wal_location      │                          │
   v                                        v                          v
 DatabaseRuntimeState           TemporaryFileMetadataManager     sync / async / prefetch
                                  │ temp_mutex, block maps        I/O engine, one queue
                                  v                               per thread index
                                NvmeTemporaryBlockManager
```

The device is an array of LBAs: the magic bytes and the `GlobalMetadata` at LBA
0, one region per database behind it (the database file, then its WAL), and the
temporary space from `tmp_start` to the end of the device.

### Inventory

| Component | State | Operations | Talks to | What is hard | What makes it correct |
|---|---|---|---|---|---|
| `NvmeFileSystem` (nvmefs.cpp) | `metadata` (a `GlobalMetadata`), `active_dbs` (runtime locations by name), `temp_meta_manager`, and LBA 0 of the device | OpenFile, Read, Write, Truncate, FileSync, RemoveFile, RemoveDirectory, the queries; TryLoadMetadata, InitializeMetadata, AllocateNewDatabaseRegion, WriteMetadata inside them | strategies, the temporary manager, the device | the layout is computed in two places; three copies of each location of different age; a crash at any point; no lock around load, initialisation and save | regions disjoint and immovable, each write inside its file, a layout in use is durable or known not to be, sizes behave as files' sizes |
| Database and WAL strategies | the atomic `db_location`, `wal_location` | GetLBA, IsLBAInRange, UpdateMetadata, Truncate, RemoveFile, GetFileSizeLBA | the runtime state they share with all handles of the file | compare-and-swap loops of several threads | each call takes effect once; the location never runs ahead of the data |
| File strategy factory | none | GetStrategy | – | – | refuses a file that does not exist and may not be created |
| Temporary file strategy | none | forwards | the temporary manager | – | – |
| `TemporaryFileMetadataManager` | `file_to_temp_meta`: a block map per file; the gauge of files | GetOrCreateFile, GetLBA, TruncateFile, DeleteFile, Clear, queries | the block manager, the device (deallocation) | look up under a shared lock, create under an exclusive one, transfer under none | a block has one place; a lookup stays valid until its transfer; no file sees what another has written, unless the device did not deallocate it |
| `NvmeTemporaryBlockManager` | blocks in a doubly linked list, free ones also in one list per size class | AllocateBlock, FreeBlock | – | pointer surgery of splitting and merging; size classes | the blocks tile the region, free lists exact, transfers disjoint |
| `NvmeDevice` | thread indexes, queues, placement handles, the opened device | Read, Write, GetThreadIndex, InitializePlacementHandles, GetReclaimUnitHandleOrDefault | an I/O engine, a buffer allocator | thread indexes wrap at `max_threads`, outlive a device and are shared by all devices; RUHs are 16 bits in one place and 8 in another | one queue per thread; files share a placement handle only if they are mapped to one RUH |
| Async I/O engine | a queue of commands per thread index | Read, Write with chunks, completions | xNVMe | queue depth, error after partial submission, error completions | every chunk completes before its buffer is freed; a failed write is reported |
| Prefetching engine | per-thread prefetched buffer and range | Read, Write, DrainPrefetch | async queue | a buffer that is stale when it is used | a read returns the last write |
| Sync engine | none | Read, Write | xNVMe | read-modify-write of a partial LBA, failed commands | a write that returns is on the device |
| Buffer allocators | per-thread buffer cache, shared by all devices | allocate, free | xNVMe buffers | size and device reuse | a buffer is handed out once, in the size asked for, and freed once |
| Path handler | none | GetFileType, ExtractDatabaseName | – | naming: the order in which suffixes are taken off | a database, its WAL and its checkpoint WAL have one name |
| Configuration | none after parsing | parse sizes, `db_configs`, `fdp_mapping` | secrets, DuckDB settings | keys of `db_configs` are lower-cased, names of files and keys of `fdp_mapping` are not; names are cut at 100 bytes | a database gets the size it is configured with |
| Extension, table functions | counters | registration, metric tables | DuckDB | – | – |

The full list of hazards, each at its line with the property that would catch
it, is in `PROJECT.json`.

## 2. The modules

| Module | Models | State ↔ code | Actions ↔ code |
|---|---|---|---|
| `NvmeFileSystem` | nvmefs.cpp with the database and WAL strategies, one action per call | `media` the LBAs; `disk` the struct last written at LBA 0; `attached` is `metadata != nullptr`; `metadata`, `active_dbs` as in the class; `init` the locals of an `InitializeMetadata` under way; `saved` is history: whether the metadata write of every region added has reached the device, or a later one has | OpenFile is split by outcome (`OpenExisting`, `OpenMissing`, `AllocateNewDatabaseRegion`, `AllocationRefused`, `OpenUnattached`, `LoadFails`); `InitializeMetadata`, `RegisterDB`, `RegistrationRefused`, `PublishMetadata`, whose save (`SaveNewLayout`, also that of an allocation) may fail; `Write`, `WriteFails`, `WriteRefused`, `WriteTemporary`, `Truncate`, `RemoveWal`, `LoadMetadata`, `FileSync` (also failing); `Restart` (destructor and a new object), `Crash` |
| `DurableFiles` | abstract: two files per database with a size now and a size after a crash | – | `Create`, whose save may fail, `Resize`, `Sync`, `Crash` |
| `LocationRace` | one location under concurrent calls, one atomic access per step | `location` the atomic; `new`, `expected`, `pc` the locals of each thread | `DeviceWrite`, `Load`, `CasSucceeds`, `CasFails` (also spuriously), `Store`, `Return` |
| `Watermark` | abstract: an atomic mark that a write raises and a truncation sets | – | – |
| `MetadataSync` | FileSync beside the calls of `LocationRace`, which it extends: WriteMetadata is a load, a store into the shared struct, a copy of the struct and a device write, in no lock | `region` the location in the `GlobalMetadata` in memory, `durable` that at LBA 0, `local` and `at` of each sync; `held` is history | `FileSync` (the load), `StoreLocation`, `CopyStruct`, `WriteBuffer`; `FileStep` is a step of `LocationRace` |
| `FileNames` | nvmefs_path_handler.hpp and the names in the configuration. A path is the sequence of the pieces the code looks for and of the names between them | – | `GetFileType`, `ExtractDatabaseName`, `Stored` (strncpy), `DbConfigs` |
| `Placement` | OpenFile by path and secret: which slot of the metadata, which runtime state and which placement handle a file gets | `slots` the databases in the metadata with their stored names and sizes; `attached`, `active_dbs`, `handles`; `units` the files written with each placement handle; `opened` is history | `OpenFile` (all outcomes, over `Registered`, `AllocateNewDatabaseRegion`, `Handles`), `Close`, `Write`, `FileSync`, `Restart` (with any secret) |
| `BlockManager` | nvmefs_temporary_block_manager.cpp, pointer by pointer | `mgr` holds every field of every `TemporaryBlock` and both kinds of list heads; `lent` what each caller asked for | `AllocateWhole`, `AllocateSplit`, `AllocateThrows`, `FreeBlock` |
| `TempSpace` | abstract: disjoint runs of LBAs handed out on request | – | – |
| `TempFiles` | temporary_file_metadata_manager.cpp and the transfers to temporary files, one action per critical section | `file_to_temp_meta`, `free`, `media`; `call` where each thread is between sections; `written` and `kept` are history: the blocks written since they were allocated, and those the device failed to deallocate and nothing has written since | `FileMissing`/`CreateFile` (GetOrCreateFile), `LookUp`/`LookUpAgain`/`AllocateBlock`/`NoFreeBlock` (GetLBA), `TransferWrite`, `TransferNothing` (a read, or a write that fails), `Truncate`, `DeleteFile`, `Clear`, all with a deallocation that may fail (`FreeBlocks`), `NullDereference` |
| `AsyncEngine` | nvme_async_io_engine.hpp and `CommandCallback`, one action per chunk, command and completion; nvme_sync_io_engine.hpp, one action per command | `engine` which of the two the device has; `queue` the commands of each thread's queue, `contexts` those left in it; `call` the locals of each call with its promises and its `dev_buffer`; `media` the device, in parts of an LBA | `Begin`, `Fill`/`FillFails` (the read before a partial write), `Submit`, `SubmitRefused`, `NoContext`, `Execute`/`ExecuteFails` (the device), `CommandCallback`, `UseAfterFree`, `Finish`; `TransferSync`/`TransferSyncFails`; `Return` |
| `PrefetchEngine` | nvme_async_prefetch_io_engine.hpp, one action per wait, command and submission | `prefetch` the `PrefetchState` of each thread; `contexts` those of each queue that no refusal has taken, of which an outstanding prefetch has one (`InUse`); the content of an LBA is a version number | `Read`, `TakePrefetch`, `DropPrefetch`, `DeviceReads`, `SubmitPrefetch`, `PrefetchRefused`; `Write`, `DrainPrefetch`, `DeviceWrites`, `FillFails`; `Refused`, `NoContext`, `Return`; `DevicePrefetches` |
| `DeviceThreads` | GetThreadIndex, the making of queues, both buffer allocators, and what of them is shared by all devices of the process | `index` and `cache` are the thread_local objects, one per thread; `queues`, `draws`, `start` are of each device (`start`: the counter is never initialised); `heap` the buffers that exist; `call` the transfer each thread is in | `OpenDevice`, `CloseDevice`, `ThreadEnds`; `TakeCached`/`Allocate`, `TakeQueue`, `InitQueue`, `TransferFails`, `Return` (both with `Free`) |
| `MCNvmeFileSystem`, `MCTempFiles`, `MCPlacement`, `MCPrefetchEngine`, `MCDeviceThreads` | configurations, paths and secrets, and symmetry for TLC | – | – |
| `NvmeFileSystemProofs`, `LocationProofs` (of `LocationRace` and `MetadataSync`), `PlacementProofs`, `BlockManagerProofs`, `TempFilesProofs`, `AsyncEngineProofs`, `PrefetchEngineProofs`, `DeviceThreadsProofs` | theorems and their proofs | – | – |

How they compose: `NvmeFileSystem` takes each call as one step, which is what
`LocationRace` justifies for the locations: it implements `Watermark`, whose
`Apply` is the effect `Write` and `Truncate` have there. `NvmeFileSystem` lets a
temporary file write any LBA of the temporary space; `TempFiles` decides which
block, and `BlockManager` which LBAs a block has. `TempFiles` takes a block to be
whole and apart from the others, which is `TransfersAreApart` of `BlockManager`.
`NvmeFileSystem` implements `DurableFiles`. It takes FileSync as one step too;
`MetadataSync` says what that leaves out when syncs overlap. Its databases are
names and its opens find the right slot; `Placement` says from which paths that
follows. A write to the device is one step of
all of these; `AsyncEngine` says when that is right: without an error completion
a write that returns has put its data, and nothing else, on the device
(`WritesAreExact`). Both engine modules give each thread a queue and a buffer of its
own, which is what `DeviceThreads` is about.

What is abstracted: sizes are in LBAs of 4 KiB (`Truncate` assumes 4096, all
other calls ask the device); the content of an LBA is the file it belongs to;
in `NvmeFileSystem` paths are pairs of a database name and a file type; the calls
that only read change nothing except that they may load the metadata, which
`LoadMetadata` is. In `Placement` a slot is its name and its size, and the struct
in memory is the one on the device (`LayoutIsDurable` of `NvmeFileSystem`, as long as no
metadata write fails).

## 3. The runs

| Run | Bounds | What it shows |
|---|---|---|
| `layout` | 7 LBAs, the last of them temporary, 3 databases: one configured, one allocated when opened, one for which there is no slot; files and WALs of one LBA, transfers of up to two | the regions never overlap and those on the device never move, every LBA holds its owner's data, whichever writes fail |
| `locations` | 7 LBAs, a file of 3 LBAs with a WAL of 1, a second database too large for the device; transfers of up to 4 | locations stay in their region; what is in use is on the device, or behind it if its save has failed; `DurableFiles` is implemented; an initialisation that is refused half-way leaves nothing behind |
| `fresh` | no `db_configs` | finding 1 |
| `metadata_sync` | 2 threads with 2 calls, 2 threads with 2 syncs, a file of 2 LBAs | beside the syncs, the loops implement `Watermark`, the location does not run ahead of the data and every call returns; a sync saves a location that the file has had since the syncs around it began |
| `placement` | 8 paths (a database with its WAL and checkpoint WAL, one with a capital letter, one longer than 100 bytes and one that is what is left of it, a temporary file, an unknown one), 3 secrets, 4 slots, RUHs cut at 4, one handle open at a time, 2 files written per process | a database keeps its region, under every order of opens and across restarts with another secret; sizes are as configured; placement handles are not mixed |
| `blocks` | 9 LBAs, 3 classes of 2 LBAs, requests of 2, 4 and 6 LBAs, 5 blocks at a time | lists exact, nothing lost, only the last block can be short, transfers disjoint |
| `temp_races` | 2 threads, 2 files of up to 2 blocks, 3 blocks | no block shared or lost, no lookup goes stale, data stays in its block, old data only where a deallocation has failed, files without holes cut right |
| `prefetch` | 2 threads, 3 LBAs written at most once, transfers of 1 or 2, a queue of 2 contexts | a read returns the LBAs it was asked for, never older than its thread's own writes; no thread waits for a prefetch that was not submitted; a null context is used only after as many refusals as the queue is deep |
| `prefetch_stale` | 2 threads, 2 LBAs | finding 2 |
| `engine` | 2 threads, 3 LBAs of 2 parts, chunks of up to 2 LBAs, a queue of 2 contexts, 2 calls, one error completion and one refused submission | with either engine and whatever the order of completions, reads and writes are exact, partial writes included; every call returns; a failed synchronous write throws; only a refused submission leaves a command behind |
| `failed_write` | 1 thread, one error completion | finding 3 |
| `devices` | 2 threads, 2 devices of 2 kinds (asynchronous with the cache, synchronous without) with 2 queues, a counter that wraps at 3 and is counted up twice, buffers of 2 sizes, a cache of 1 | a queue is one thread's as long as a device has counted no more threads than it has queues; a buffer is in one place |

Why the bounds are enough. *layout*: two regions are needed for an overlap, a
third name for the refusal; a transfer of two LBAs from any offset reaches past
a file of one LBA into the next file, the next region and the temporary space. A
metadata write fails at the first open, at the allocation and at any sync; a crash
after it lets the other name be allocated where the lost region was. The two names
that are not configured are interchangeable (`SYMMETRY`).
*locations*: every value a location can have between the ends of its file, and
past them, with every order of raising, truncating, syncing and crashing.
*metadata_sync*: either call can overtake the other between its load and its
exchange, and each sync can have the other begin and end between any two of its
steps; a third call only makes one of these happen twice, and the proofs are for
any number. *placement*: a long path is there twice, whole and cut; every path
finds the metadata without, with and with too many slots; one handle is enough,
as a second one changes nothing the others see; two written files are a pair for
the placement handles, the metadata is the third. *blocks*: five
blocks allow a free block with both neighbours free, at the head of the list, in
its middle and at its end, which are all the cases of the merge; the region is,
as the default layout is, one LBA short of a multiple of the class width. The
bound `Addresses` only refuses a split when five blocks exist; nine LBAs never
need more than five. *temp_races*: two threads at the same index of the same file
race for the lookup, two files race for the last block. No action tells threads,
files or blocks apart (`SYMMETRY`).

*prefetch*: with lengths 1 and 2 on three LBAs a prefetch fits the next read,
is too long or too short for it, or lies past the end of the device, and one
refusal leaves the queue usable, a second one not; the two threads are
interchangeable (`SYMMETRY`). *engine*: transfers of one chunk, full or not,
and of two chunks of different lengths; two threads at once, or one of them twice.
The queue is just as deep as the longest transfer (`MaxTransfer`) has chunks, so a
context that is not given back is missed at once. A longer transfer would use a null
context with no failure at all; the code has no bound against it, but 16 contexts are
twice and more what a DuckDB block of 256 KiB needs at any usual MDTS. The theorem
about this has it as its hypothesis (`TransfersFit`).

*devices*: two threads that draw an index of one device, in either order, before
and after a wrap, or bring one from the other device. With these engines a thread
holds one buffer at a time, so its cache never has more than one.

Deadlock is checked in all of them except those of `MetadataSync`, `AsyncEngine`
and `DeviceThreads`, where the bound on the calls, syncs or indexes drawn ends the
behaviour, and those of `PrefetchEngine`, where the last lost context does.

Each property of each passing run has a mutant: a plausible bug in one
definition under which TLC finds that property violated. The mutated operators
are defined beside the ones they replace and are used nowhere else.

### Fairness

Only the two `CallsReturn` need any. A thread inside a call keeps running (`WF` of its
steps; the calls wait for no lock, the engines poll), and `compare_exchange_weak` does not fail
spuriously for ever at a moment it could succeed (`SF` of `CasSucceeds`): the
C++ standard asks implementations for that. That a thread is not overtaken
again and again by new calls is the bound `MaxCalls`: the loops are lock-free,
not wait-free. The device completes every command (`WF` of `Device`): an NVMe controller that does not is reset by its driver,
and the commands complete with an error. Nothing obliges a thread to make a
call.

## 4. What is proved

All proofs are checked by tlapm for every value of the constants. Assumptions:
`SizesAssumption` (the metadata and the temporary space fit the device),
`ConfigAssumption` (`db_configs` is a map), `WordAssumption` (byte counts divided
by the LBA size do not add up to 2^64), `LocationAssumption`, `SyncAssumption`
`PrefetchAssumption`, `EngineAssumption` and `TempAssumption` (naturals),
`DeviceAssumption` and `BlockAssumption` (naturals, and null values that are
nothing else), `PlacementAssumption` (naturals, and an integer type with a value),
`SecretsAssumption` (a secret has a list of names with sizes and a map to RUHs),
`NamesAssumption` (what strncpy leaves is a name; lower case has no capital
letters) and `PathsAssumption`: the paths of databases and WALs are what DuckDB
makes of `nvmefs://<name>.db`, itself or with `.wal` or `.wal.checkpoint` behind
it, where the name, which may be empty, has none of these suffixes in it. What a theorem needs beyond these is a named hypothesis of its own,
which the constants of its run satisfy:

| Hypothesis | Why the code justifies it |
|---|---|
| `MetadataLbas = 1` of `FilesAreIsolated` | the metadata is written with one LBA, of 4 KiB |
| `TransfersFit` of `OnlyRefusalsLoseCommands`: no transfer has more chunks than a queue has contexts | nothing in the code bounds a transfer; DuckDB's are blocks of 256 KiB, two chunks at an MDTS of 128 KiB, of 16 |
| `RegionHasLbas` of three of `BlockManagerProofs` | the temporary space is 200 GiB by default; one LBA would leave the manager none |
| `RegionIsInTheLastClass`: the region does not fit in the classes before the last | the constructor puts the whole region on the last list without asking for its class (nvmefs_temporary_block_manager.cpp:41); these classes end at 56 LBAs |
| `DefaultLayout`: besides, sizes are those of the classes and the region is one LBA short of a multiple of their width | temporary blocks are 32 to 256 KiB, 8 LBAs apart; 200 GiB are a multiple of 8 LBAs, and the manager is given all of them but the last |

*NvmeFileSystemProofs*

| Theorem | Says |
|---|---|
| `TypeCorrect` | the type invariant |
| `LayoutIsSound` | `RegionsSeparate`: on the device, in memory and during initialisation |
| `LocationsAreSound` | `LocationsInRegion` |
| `LayoutSurvives` | `LayoutIsDurable` |
| `LayoutOnlyGrows` | `RegionsNeverMove` |
| `FilesAreIsolated` | `EveryLbaHasItsOwner`, if the metadata fits one LBA |
| `WithoutConfigNothingOpens` | without `db_configs` nothing is ever attached: finding 1 for every size |
| `FileSystemImplementsDurableFiles` | `SizesAreDurable`: the refinement of `DurableFiles`, for any number of databases |

`RegionsSeparate` is not inductive: a new region is computed from the metadata
in memory and lands on the device with the locations of `active_dbs`, so it also
takes that memory has at least what the device has (`LayoutIsDurable`), that runtime locations
are in their regions (`LocationsInRegion`), that the region being built starts
behind the last one while nothing is attached (`Building`), that a device without
the magic bytes has no layout (`Unwritten`), and that every layout puts the temporary
space at the same LBA (`TemporarySpace`), on which two layouts must agree when the
first could not be saved. Their conjunction with `TypeOK` is `IInv`;
each action has a lemma. The helper facts (what `WithLocations` keeps, what
appending a region behind the last does to `Separate`, that the checked sums do
not wrap) are lemmas of their own. `FilesAreIsolated` has the hypothesis
`MetadataLbas = 1`: with LBAs of 512 bytes the struct is longer than the LBA
left for it, and regions start at LBA 1 all the same.

A metadata write that fails leaves memory ahead of the device. `FilesAreIsolated`
therefore speaks of the layout in use, `metadata` if it is attached and `disk`
otherwise (`Layout`), and its strengthening (`Ownership`) says that the media is
owned in that layout. A crash or a failed save is where the two differ: `Crash`
takes data of a region the device does not have for no one's (`CrashKeepsOwnership`),
and apart from that memory has every region of the
device (`MemoryExtendsDisk`). Temporary
data needs no such care, as the temporary space does not move (`TempInPlace`).

The refinement computes sizes from a layout and the locations beside it (`SizesIn`),
with a CHOOSE of the region that has a name. Names are unique in a sound layout, so
it is one value per region (`SizesBySlot`, `SizeAt`), and it does not matter whether
the locations are read from `active_dbs` or, when nothing is attached, from the
device (`NowIsLoaded`): loading changes no size, saving makes all of them durable
(`SaveMakesDurable`), and a call that moves one location changes one size
(`MovesOneSize`). Beyond `IInv` it takes that what `InitializeMetadata` lays out
begins with empty files (`BuiltEmpty`), as `Create` asks. `AllocateNewDatabaseRegion`
writes the whole struct and so makes the sizes of all other files durable too, which
is why `Create` does, or, when the write fails, leaves what was durable and the new
file in use (`SaveNewLayoutMeans`). A sync whose write fails is a stutter
(`FileSyncSyncs`).

*LocationProofs*

| Theorem | Says |
|---|---|
| `TypeCorrect` | the type invariant |
| `NoLocationBeforeData` | `RaisedOverData` |
| `LoopsAreAtomic` | `LocationIsWatermark`: the refinement, step by step, for any number of threads |

The strengthening says of each thread what its place in the code knows: a write
beyond its device step has its last LBA on the device, a removal sets zero. Of
`MetadataSync`, which extends the module:

| Theorem | Says |
|---|---|
| `SyncTypeCorrect` | `SyncTypeOK`, the type invariant with the copies and the syncs |
| `SyncsSaveRecentLocations` | `SyncedLocationIsRecent`, for any number of overlapping syncs |
| `SyncsLeaveCallsAlone` | hidden from the syncs' variables, `MetadataSync` is `LocationRace` |
| `LoopsAreAtomicBesideSyncs` | so `LocationIsWatermark` and `RaisedOverData` hold beside the syncs |

The strengthening (`SyncInv`): what a sync has loaded or copied is among the
locations the file has had (`held`) since some sync has been under way; the
shared struct is so from the moment a sync has stored into it, which is before it
copies.

*PlacementProofs*

| Theorem | Says |
|---|---|
| `PlacementIsTyped` | the type invariant: what is laid out fits, every handle has a slot |
| `RegionsAreKept` | `DatabasesKeepTheirRegions`, for any paths, secrets and cut names |
| `SlotsFollowTheSecret` | `SlotsAreMadeAsConfigured`, for any list of entries |
| `HandlesSeparateRuhs` | `UnitsAreSeparate`, for any `fdp_mapping` |

That a path keeps its slot is not inductive, as the slot is looked up anew each
time. The strengthening says of everything opened that the lookup still finds it
(`IsFoundAgain`): lookups take the first slot of a name, and slots are only added
behind (`RegionStays`). Runtime states are looked up by name too, but of slots of
one name a restart leaves the last; they agree because a name that is not a cut
one is on one slot (`NamesAreUnique`, `StatesAreSlots`): a slot is added only if
its full name is not found, and a cut name is on a slot for which no lookup was
successful. What the secret registers has unique names because `db_configs` is a
map, and every key has a slot (`ConfiguredIsSound`, a count of the elements of a
permutation). `NameOfPath` says that taking three suffixes off the end, in the order
of the code, leaves what lies before the first suffix. For the placement handles:
the number of smaller RUHs differs for different RUHs (`HandlesDiffer`, strict
inclusion of finite sets), and the key the code looks up is the one that applies
(`MappedIsPlaced`). No induction is needed for the lookups: that a nonempty set of
indexes has a smallest element is the well-foundedness of strict inclusion on the
intervals below them (`SmallestExists`), and `EndOf` is only ever opened for a single
slot, to show that all the space is one LBA too much (`EndOfOneSlot`).

*PrefetchEngineProofs*

| Theorem | Says |
|---|---|
| `TypeCorrect` | the type invariant: no prefetch starts beyond the end of the device (proved only: the run checks what follows from it) |
| `ReadsAreWhole` | `ReadsTheirLbas`, for any lengths of transfers |
| `ThreadsSeeTheirWrites` | `OwnWritesAreSeen`, for any number of threads |
| `NoWaitIsInVain` | `WaitsAreAnswered`, the safety half of every call returning |
| `OnlyRefusalsUseContextsUp` | `UndefinedOnlyAfterRefusals`, for a queue of any depth: it needs no strengthening but `Drained`, by which a thread that submits a command has its prefetch's context back |

`OwnWritesAreSeen` speaks of a read that returns; the strengthening (`ThreadInv`)
follows the data back: a completed prefetch is no older than the thread's own
writes (`PrefetchData`), which stays true because a thread that writes, or reads
from the device, has no prefetch (`Drained`), and what a thread has written is on
the device (`OwnIsOnDevice`). `OthersKeep` is the frame: another thread's steps
touch none of this.

*DeviceThreadsProofs*

| Theorem | Says |
|---|---|
| `TypeCorrect` | the type invariant: no index is beyond the queues, no cache too deep |
| `QueuesAreSeparate` | `QueuesAreNotShared`, for any number of threads, devices and queues |
| `BuffersAreHandedOutOnce` | `BuffersHaveOnePlace`, for any number of threads, devices and buffers |

That two threads differ is not inductive: the next index could be one of theirs.
The strengthening (`IndexInv`) says that each index a device has given is that of
its n-th draw (`OwnIndex`), so that the next draw is a number less than
`max_threads` behind all of them, and such numbers differ modulo `max_threads`
(`CloseNumbersDiffer`). `Given` covers a device that is opened where one was
closed: no thread counts as having an index of a device that is not open.

The buffers (`BuffersHaveOnePlace`) need a second invariant, `BufferInv`. A place
is a call, or an entry of a thread's cache (`In`); no buffer has two (`NotTwice`),
it exists while it has one (`NoneLost`), and it has the size that is handed out
there (`SizesAgree`). That an allocation takes a buffer that does not exist is what
keeps the first true, and that all buffers in a cache have one size, the last.

*BlockManagerProofs*

| Theorem | Says |
|---|---|
| `TypeCorrect` | the type invariant |
| `BlocksMakeUpTheRegion` | `BlocksTileRegion` |
| `FreeBlocksAreListed` | `FreeListsAreExact` |
| `FreeSpaceStaysMerged` | `FreeSpaceIsMerged` |
| `ShortBlocksAreLast` | `ShortBlocksEndTheRegion`, under `DefaultLayout` |
| `BlockManagerImplementsTempSpace` | `TransfersAreApart`: the refinement of `TempSpace`, under `DefaultLayout` |

What a list holds is an induction along its pointers, which the prover cannot do.
The proof needs none. The tiling is carried along as what it means for LBAs and not
for pointers: no two blocks overlap (`Apart`), none leaves the region (`Inside`),
every LBA is in one (`Covered`); `Chained` says that neighbours in the list are
neighbours on the device, both ways. A free list is the smallest set that has the
block its head points to and is closed under `next_free_block`, so that a block is
on it if it is in every such set (`Reached`; `FreeList` in `BlockManager` is
defined so too). Pushing and removing then are statements about sets:
`PushLinks` and `RemoveLinks` say it of any two functions, whichever list a block
is on. That is a witness of the invariant and not a part of the state
(`PointersAreSound` is "there is an assignment of lists"): the head of the
region is on the last list whatever its size.

The second half of the invariant is that a call may find a block half-way, free but
on no list, with free neighbours (`Pending`): FreeBlock is first this, then the
merges with its two neighbours (`Merged` is what either leaves), then a push.
`LayoutInv` adds, for the default layout, that blocks start at multiples of the
class width. From that a block is as long as its class or, at the end of the
region, one LBA shorter, which makes `AllocateBlock`'s unchecked head long
enough; and a run of free LBAs lies in one block, as free neighbours are merged,
which makes its refusals right.

*TempFilesProofs*

| Theorem | Says |
|---|---|
| `TypeCorrect` | the type invariant |
| `BlocksAreKeptApart` | `EachBlockHasOnePlace` |
| `TransfersUseTheirBlocks` | `LookupsStayValid` |
| `FilesReadTheirOwnData` | `BlocksHoldOwnData` |
| `GaugeIsExact` | `ActiveFilesAreCounted` |
| `DenseFilesAreCut` | `TruncateCutsDenseFiles` |

A block that is taken for an index may hold anything unless the free ones are known:
a free block is not among those written, and holds nothing of this process unless the
device has kept what was there (`FreeBlocksAreClean`). A transfer that writes must still have its block, which is what a call knows of the files
between its sections (`CallsAreSound`). A call that is about to take the exclusive
lock knows only that its file exists: nothing about the index, which is why it
looks again.

*AsyncEngineProofs*

| Theorem | Says |
|---|---|
| `TypeCorrect` | the type invariant: no queue holds more commands than it has contexts |
| `ChunksMakeUpTheRead` | `ReadsAreExact` |
| `PartialWritesPreserveData` | `WritesAreExact` |
| `SyncErrorsAreThrown` | `SyncWritesReachTheDevice` |
| `OnlyRefusalsLoseCommands` | `UndefinedOnlyAfterRefusal`, if transfers fit (`TransfersFit`) |

The first four speak of a call that returns; the strengthening says what is so on
the way. Buffer and device agree on every LBA of a call that is not `Pending`, that
is neither unsubmitted nor with a command the device has not executed
(`DataIsSound`); the commands that belong to the call have promises of their own,
none of which is set (`CommandsAreSound`), so that when all are set there is no
such command. Other threads keep it (`OthersKeep`), because no two calls that are
under way share an LBA unless both read (`CallsAreApart`). What a refused submission leaves
behind has the number of an earlier call and is not among a call's commands (`Own`).
`OnlyRefusalsLoseCommands` has an invariant of its own: as long as none was
refused, every command in a queue is its thread's call's, each takes one context,
and what is left of a transfer has contexts (`AllAccountedFor`).

### Only model-checked

The two `CallsReturn`: liveness under fairness, which the prover cannot reason
about. `WaitsAreAnswered` of `PrefetchEngine` and `UndefinedOnlyAfterRefusal` of
`AsyncEngine`, the safety halves of them, are proved. The three findings are
counterexamples, which only a run can show; of the first the proof gives the
general form.

## 5. Findings

1. `fresh`: without `db_configs` a fresh device never opens a database. The
   region is made to end at `tmp_start` (nvmefs.cpp:546) and is refused unless it
   ends below it (nvmefs.cpp:530). test/gtest/test_nvmefs_proxy.cpp:345-348
   expects the open to succeed.
2. `prefetch_stale`: a read is answered from the thread's prefetched buffer
   whenever it was filled (nvme_async_prefetch_io_engine.hpp:72), so a write that
   another thread has finished before the read began may be missing from it.
   nvme_device.hpp:40 says that `Read` reads data from the device.
3. `failed_write`: `CommandCallback` prints the status of a command that failed
   and sets its promise like any other (nvme_device.cpp:156-163); the write
   returns. nvme_device.hpp:37 says that `Write` writes the data. The synchronous
   engine throws.

Besides these, where the code departs from what one would expect, a property says
how far it goes, and its comment names the exception:

- `AllocateBlock` never checks that the block it takes is large enough
  (nvmefs_temporary_block_manager.cpp:81-83). At the default layout only the last
  block is affected (`ShortBlocksEndTheRegion`), and the transfer runs into the
  one LBA that the manager leaves out, so nothing overlaps
  (`TransfersAreApart`); with LBAs of 512 bytes all blocks are in the last class
  and two files can overlap.
- A metadata write that fails at the end of an open leaves the new region in use
  in memory (nvmefs.cpp:129, 572): until a later save a crash takes the database
  and its data (`LayoutIsDurable`, `SizesAreDurable`).
- The result of the deallocation of a freed temporary block is not looked at, and
  for the last block it ends one LBA early (temporary_file_metadata_manager.cpp:264-273):
  a read of a block that was never written returns what is there
  (`BlocksHoldOwnData`).
- `TruncateFile` counts down from the number of blocks
  (temporary_file_metadata_manager.cpp:163): `TruncateCutsDenseFiles` is about
  files without a hole.
- Overlapping syncs may save an older location than one that has returned
  (`SyncedLocationIsRecent`; nvmefs.cpp:607-626).
- A name longer than 100 bytes is never found again (nvmefs.cpp:125), and a
  configured name with a capital letter never matches (nvmefs_config.cpp:183):
  `DatabasesKeepTheirRegions`, `SlotsAreMadeAsConfigured`.
- A RUH from 256 on is cut (nvme_device.cpp:78): `UnitsAreSeparate`.
- Threads beyond `max_threads`, counted over the life of a device, and threads
  with an index of another device share queues (nvme_device.cpp:236):
  `QueuesAreNotShared`.

## 6. Not modelled

First opens of several threads at once: `TryLoadMetadata`, `InitializeMetadata`
and `AllocateNewDatabaseRegion` take no lock, and two of them at once race on
unsynchronised containers, after which nothing is defined. The metrics, the
cursor of a handle, `GetAvailableDiskSpace`, `ListFiles` and the other queries
decide nothing in the code that is modelled. Of the configuration, the parsing of
sizes and Booleans; of `NvmeDevice`, its options, its geometry and the query for
FDP, which are pure I/O. What a closed device's buffers in a thread's cache are
good for depends on xNVMe. `DeviceThreads` has the asynchronous and the
synchronous engine; a thread of the prefetching one holds a second buffer between
its calls, which `PrefetchEngine` follows. A queue that cannot be
created makes the call throw before it has done anything, in both engines that have
queues; a buffer that cannot be allocated does so in the asynchronous one
(nvme_async_io_engine.hpp:21, 101), while the synchronous and the prefetching one
use the null pointer, after which nothing is defined. Neither is modelled.
The extension's registration, secrets and table functions only read counters.

Of failing commands, `NvmeFileSystem` and `TempFiles` take the following. A failed
write may have reached some of its LBAs, and the call may throw or return, as
`AsyncEngine` says of the two engines; the metadata is one LBA and a temporary
block one unit, which are written or left as they were. A destructor that cannot
write the metadata ends the process, which is `Crash`. A failed read of the metadata
throws (`LoadFails`), as the synchronous engine does; with the asynchronous ones it
returns (finding 3 is the same of a write), the magic bytes are not found, and the next
database opened lays the device out anew (nvmefs.cpp:588). That is not modelled, and
`RegionsNeverMove` does not hold there. `LocationRace`, `MetadataSync` and
`Placement` take the writes of data and metadata to succeed.

`Quiet` in `TempFiles` is a promise of DuckDB, not of this repository: the
owner of a temporary file does not free a block while it is being transferred;
without it `LookupsStayValid` fails, because the manager returns an LBA and
releases its locks. `Apart` in `AsyncEngine` is another: no two threads transfer
one LBA at once unless both read; without it a partial write loses another's. It is
also what lets `DeviceWrites` of `PrefetchEngine` read and write the LBAs of a partial
write in one step (nvme_async_prefetch_io_engine.hpp:154-181).
Both engines take the threads to be at most `max_threads` (and 256, the number of
prefetch slots), so that a thread index is one thread's; above that the code
shares queues without a lock. `PrefetchEngine` leaves error completions to
`AsyncEngine`, but for a prefetch past the end of the device.

## 7. State of the plan

All components that decide anything are modelled, and every safety, action and
refinement property of the passing runs is a theorem as well. What remains open, in the
order in which it would be worth doing:

1. First opens of several threads (nvmefs.cpp:495), once the code says which lock
   orders them; before that there is nothing to refine.
2. One module that composes `TempFiles` with `BlockManager` instead of relying on
   `TransfersAreApart` across modules.
3. LBAs of 512 bytes: the properties that name the default layout
   (`ShortBlocksEndTheRegion`, `TransfersAreApart`, `FilesAreIsolated`) fail there,
   which is a matter for the code first.
