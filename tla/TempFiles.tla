------------------------------- MODULE TempFiles -------------------------------
(***************************************************************************)
(* TemporaryFileMetadataManager, src/src/temporary_file_metadata_manager.cpp, *)
(* and the transfers of NvmeFileSystem to temporary files.                 *)
(*                                                                         *)
(* Each critical section under temp_mutex, shared or exclusive, is one     *)
(* action.  Looking a file or a block up and creating it are two sections  *)
(* of one call, and the transfer to the LBA that GetLBA returned follows   *)
(* after both locks are released.  Blocks are whole: how the block manager *)
(* finds their LBAs is in BlockManager.  Temporary files live in memory    *)
(* only, so a crash takes them all away.                                   *)
(***************************************************************************)
EXTENDS Integers, FiniteSets

CONSTANTS
    Threads,
    Files,       \* names of temporary files
    Blocks,      \* what the temporary space has room for
    MaxBlocks    \* bound: the length of a file, in blocks

ASSUME TempAssumption == MaxBlocks \in Nat

Indexes == 0 .. MaxBlocks - 1
Directions == {"read", "write"}

VARIABLES
    file_to_temp_meta,   \* the block_map of each file that exists
    free,                \* the blocks of the block manager that are free
    media,               \* the file and index whose data a block holds
    call,                \* the call each thread is in
    active_temp_files,   \* nvmefs_active_temp_files
    written,             \* history: the blocks written since they were allocated
    kept                 \* history: the blocks not written since the device failed
                         \* to deallocate them

vars == <<file_to_temp_meta, free, media, call, active_temp_files, written, kept>>

Existing == DOMAIN file_to_temp_meta
BlockMap(f) == file_to_temp_meta[f]
HasBlock(f, i) == i \in DOMAIN BlockMap(f)

\* Deallocated, or written by an earlier process.
Unowned == [file |-> "none", index |-> 0]
Content == [file : Files, index : Indexes] \cup {Unowned}

Idle == [at |-> "idle"]
Creating(f) == [at |-> "create", file |-> f]
Allocating(dir, f, i) == [at |-> "allocate", dir |-> dir, file |-> f, index |-> i]
Transferring(dir, f, i, b) ==
    [at |-> "transfer", dir |-> dir, file |-> f, index |-> i, block |-> b]

Calls ==
    {Idle}
    \cup [at : {"create"}, file : Files]
    \cup [at : {"allocate"}, dir : Directions, file : Files, index : Indexes]
    \cup [at : {"transfer"}, dir : Directions, file : Files, index : Indexes, block : Blocks]

Become(t, c) == call' = [call EXCEPT ![t] = c]

Init ==
    /\ file_to_temp_meta = <<>>
    /\ free = Blocks
    /\ media = [b \in Blocks |-> Unowned]
    /\ call = [t \in Threads |-> Idle]
    /\ active_temp_files = 0
    /\ written = {}
    /\ kept = {}

-----------------------------------------------------------------------------
(* GetOrCreateFile, called when a temporary file is opened.                *)

\* The section under the shared lock: no such file.
FileMissing(t, f) ==
    /\ call[t] = Idle
    /\ f \notin Existing
    /\ Become(t, Creating(f))
    /\ UNCHANGED <<file_to_temp_meta, free, media, active_temp_files, written, kept>>

\* Mutant: the file is counted whether it is new or not.
CreateFileCountedTwice(t) ==
    /\ call[t].at = "create"
    /\ LET f == call[t].file
       IN  IF f \in Existing THEN UNCHANGED file_to_temp_meta
           ELSE file_to_temp_meta' =
                    [g \in Existing \cup {f} |-> IF g = f THEN <<>> ELSE file_to_temp_meta[g]]
    /\ active_temp_files' = active_temp_files + 1
    /\ Become(t, Idle)
    /\ UNCHANGED <<free, media, written, kept>>

\* The section under the exclusive lock: emplace does nothing if another
\* thread has created the file since, and only a new file is counted.
CreateFile(t) ==
    /\ call[t].at = "create"
    /\ LET f == call[t].file
       IN  IF f \in Existing THEN UNCHANGED <<file_to_temp_meta, active_temp_files>>
           ELSE /\ file_to_temp_meta' =
                    [g \in Existing \cup {f} |-> IF g = f THEN <<>> ELSE file_to_temp_meta[g]]
                /\ active_temp_files' = active_temp_files + 1
    /\ Become(t, Idle)
    /\ UNCHANGED <<free, media, written, kept>>

-----------------------------------------------------------------------------
(* Read and Write, at a block boundary and of a whole block: GetLBA refuses *)
(* any other size.                                                         *)

\* GetLBA under the shared lock.
LookUp(t, dir, f, i) ==
    /\ call[t] = Idle
    /\ f \in Existing
    /\ Become(t, IF HasBlock(f, i) THEN Transferring(dir, f, i, BlockMap(f)[i])
                 ELSE Allocating(dir, f, i))
    /\ UNCHANGED <<file_to_temp_meta, free, media, active_temp_files, written, kept>>

\* GetLBA under the exclusive locks: another thread has allocated the block...
LookUpAgain(t) ==
    /\ call[t].at = "allocate"
    /\ HasBlock(call[t].file, call[t].index)
    /\ Become(t, Transferring(call[t].dir, call[t].file, call[t].index,
                              BlockMap(call[t].file)[call[t].index]))
    /\ UNCHANGED <<file_to_temp_meta, free, media, active_temp_files, written, kept>>

\* Mutants: the lookup is not repeated under the exclusive lock; the block is
\* entered under the index after it.
AllocateBlockUnchecked(t) ==
    /\ call[t].at = "allocate"
    /\ LET f == call[t].file
           i == call[t].index
       IN  \E b \in free :
                /\ file_to_temp_meta' = [file_to_temp_meta EXCEPT
                    ![f] = [j \in DOMAIN @ \cup {i} |-> IF j = i THEN b ELSE @[j]]]
                /\ free' = free \ {b}
                /\ Become(t, Transferring(call[t].dir, f, i, b))
    /\ UNCHANGED <<media, active_temp_files, written, kept>>
AllocateBlockAfter(t) ==
    /\ call[t].at = "allocate"
    /\ LET f == call[t].file
           i == call[t].index + 1
       IN  /\ ~HasBlock(f, i)
           /\ \E b \in free :
                /\ file_to_temp_meta' = [file_to_temp_meta EXCEPT
                    ![f] = [j \in DOMAIN @ \cup {i} |-> IF j = i THEN b ELSE @[j]]]
                /\ free' = free \ {b}
                /\ Become(t, Transferring(call[t].dir, f, i, b))
    /\ UNCHANGED <<media, active_temp_files, written, kept>>

\* ... or this one does, for a read as well...
AllocateBlock(t) ==
    /\ call[t].at = "allocate"
    /\ LET f == call[t].file
           i == call[t].index
       IN  /\ ~HasBlock(f, i)
           /\ \E b \in free :
                /\ file_to_temp_meta' = [file_to_temp_meta EXCEPT
                    ![f] = [j \in DOMAIN @ \cup {i} |-> IF j = i THEN b ELSE @[j]]]
                /\ free' = free \ {b}
                /\ Become(t, Transferring(call[t].dir, f, i, b))
    /\ UNCHANGED <<media, active_temp_files, written, kept>>

\* ... or there is no free block, and AllocateBlock throws.
NoFreeBlock(t) ==
    /\ call[t].at = "allocate"
    /\ ~HasBlock(call[t].file, call[t].index)
    /\ free = {}
    /\ Become(t, Idle)
    /\ UNCHANGED <<file_to_temp_meta, free, media, active_temp_files, written, kept>>

\* device->Read at the block's LBA, no lock held; or device->Write, if the command
\* fails, whether the engine throws or not.
TransferNothing(t) ==
    /\ call[t].at = "transfer"
    /\ Become(t, Idle)
    /\ UNCHANGED <<file_to_temp_meta, free, media, active_temp_files, written, kept>>

\* device->Write.
TransferWrite(t) ==
    /\ call[t].at = "transfer" /\ call[t].dir = "write"
    /\ media' = [media EXCEPT ![call[t].block] = [file |-> call[t].file, index |-> call[t].index]]
    /\ written' = written \cup {call[t].block}
    /\ kept' = kept \ {call[t].block}
    /\ Become(t, Idle)
    /\ UNCHANGED <<file_to_temp_meta, free, active_temp_files>>

-----------------------------------------------------------------------------
(* Truncate, RemoveFile and RemoveDirectory, each in one exclusive section. *)

\* The owner of a temporary file frees a block of it only when no transfer of
\* that block is under way; the manager itself does not see to it.
Quiet(f, from) ==
    \A t \in Threads :
        call[t].at \in {"allocate", "transfer"} /\ call[t].file = f => call[t].index < from

\* Mutant: the LBAs are not deallocated on the device.
FreeBlocksOnly(S) ==
    /\ free' = free \cup S
    /\ written' = written \ S
    /\ UNCHANGED <<media, kept>>

\* DSMBlock and FreeBlock, which frees the block whatever the device has done with
\* the deallocation: it is a hint, its result is not looked at, and for the last
\* block of the region it ends one LBA before the transfer did.
FreeBlocks(S) ==
    /\ free' = free \cup S
    /\ written' = written \ S
    /\ \E failed \in SUBSET S :
        /\ media' = [b \in Blocks |-> IF b \in S \ failed THEN Unowned ELSE media[b]]
        /\ kept' = (kept \ S) \cup failed

\* Mutant: the last block is kept.
CutIndexesShort(f, new) == new .. Cardinality(DOMAIN BlockMap(f)) - 2

\* The indexes that TruncateFile frees: it counts down from the number of
\* blocks, not from the last index.
CutIndexes(f, new) == new .. Cardinality(DOMAIN BlockMap(f)) - 1

\* Mutant: the entries of the block map are not erased.
TruncateKeepsEntries(f, new) ==
    /\ f \in Existing
    /\ Quiet(f, new)
    /\ CutIndexes(f, new) \subseteq DOMAIN BlockMap(f)
    /\ FreeBlocks({BlockMap(f)[i] : i \in CutIndexes(f, new)})
    /\ UNCHANGED <<file_to_temp_meta, call, active_temp_files>>

Truncate(f, new) ==
    /\ f \in Existing
    /\ Quiet(f, new)
    /\ CutIndexes(f, new) \subseteq DOMAIN BlockMap(f)
    /\ FreeBlocks({BlockMap(f)[i] : i \in CutIndexes(f, new)})
    /\ file_to_temp_meta' = [file_to_temp_meta EXCEPT
            ![f] = [i \in DOMAIN @ \ CutIndexes(f, new) |-> @[i]]]
    /\ UNCHANGED <<call, active_temp_files>>

DeleteFile(f) ==
    /\ f \in Existing
    /\ Quiet(f, 0)
    /\ FreeBlocks({BlockMap(f)[i] : i \in DOMAIN BlockMap(f)})
    /\ file_to_temp_meta' = [g \in Existing \ {f} |-> file_to_temp_meta[g]]
    /\ active_temp_files' = active_temp_files - 1
    /\ UNCHANGED call

\* RemoveDirectory of the temporary directory.
Clear ==
    /\ \A f \in Existing : Quiet(f, 0)
    /\ FreeBlocks(UNION {{BlockMap(f)[i] : i \in DOMAIN BlockMap(f)} : f \in Existing})
    /\ file_to_temp_meta' = <<>>
    /\ active_temp_files' = 0
    /\ UNCHANGED call

\* A new process finds an empty temporary space; what the blocks hold belongs
\* to none of its files.
Restart ==
    /\ file_to_temp_meta' = <<>>
    /\ free' = Blocks
    /\ media' = [b \in Blocks |-> Unowned]
    /\ call' = [t \in Threads |-> Idle]
    /\ active_temp_files' = 0
    /\ written' = {}
    /\ kept' = {}

\* operator[] of a map makes a null entry for a key it has not got, which is
\* then dereferenced: TruncateFile of a file with a missing block, and
\* DeleteFile of a file that does not exist.
NullDereference ==
    /\ \/ \E f \in Existing, new \in 0 .. MaxBlocks :
            /\ Quiet(f, new)
            /\ ~(CutIndexes(f, new) \subseteq DOMAIN BlockMap(f))
       \/ \E f \in Files : f \notin Existing
    /\ Restart

Next ==
    \/ \E t \in Threads :
        \/ \E f \in Files : FileMissing(t, f)
        \/ CreateFile(t)
        \/ \E dir \in Directions, f \in Files, i \in Indexes : LookUp(t, dir, f, i)
        \/ LookUpAgain(t)
        \/ AllocateBlock(t)
        \/ NoFreeBlock(t)
        \/ TransferNothing(t)
        \/ TransferWrite(t)
    \/ \E f \in Files, new \in 0 .. MaxBlocks : Truncate(f, new)
    \/ \E f \in Files : DeleteFile(f)
    \/ Clear
    \/ Restart
    \/ NullDereference

Spec == Init /\ [][Next]_vars

-----------------------------------------------------------------------------
TypeOK ==
    /\ Existing \subseteq Files
    /\ \A f \in Existing :
        /\ DOMAIN BlockMap(f) \subseteq Indexes
        /\ BlockMap(f) \in [DOMAIN BlockMap(f) -> Blocks]
    /\ free \subseteq Blocks
    /\ media \in [Blocks -> Content]
    /\ call \in [Threads -> Calls]
    /\ active_temp_files \in Int
    /\ written \subseteq Blocks
    /\ kept \subseteq Blocks

\* No block is in two places and none is lost: each is free or the block of one
\* index of one file, however the sections of concurrent calls interleave.
\* GetAvailableSpace, which subtracts the blocks of the files, relies on it.
EachBlockHasOnePlace ==
    /\ \A b \in Blocks \ free : \E f \in Existing : \E i \in DOMAIN BlockMap(f) : BlockMap(f)[i] = b
    /\ \A f \in Existing : \A i \in DOMAIN BlockMap(f) :
        /\ BlockMap(f)[i] \notin free
        /\ \A g \in Existing : \A j \in DOMAIN BlockMap(g) :
            BlockMap(f)[i] = BlockMap(g)[j] => f = g /\ i = j

\* The LBA that GetLBA returned is still that of the call's block when the
\* device transfer uses it, after the locks were released.
LookupsStayValid ==
    \A t \in Threads : call[t].at = "transfer" =>
        /\ call[t].file \in Existing
        /\ HasBlock(call[t].file, call[t].index)
        /\ BlockMap(call[t].file)[call[t].index] = call[t].block

\* What was written into a file stays in its block until the file gives the block
\* up, whoever has had it before.  A block that is read before it is written holds
\* nothing of this process, unless the device did not deallocate it.
BlocksHoldOwnData ==
    \A f \in Existing : \A i \in DOMAIN BlockMap(f) :
        LET b == BlockMap(f)[i]
        IN  IF b \in written THEN media[b] = [file |-> f, index |-> i]
            ELSE media[b] = Unowned \/ b \in kept

\* The gauge of temporary files counts each file once, also when two threads
\* create it at the same time.
ActiveFilesAreCounted == active_temp_files = Cardinality(Existing)

\* A file whose blocks are numbered from 0 without a gap is cut to exactly its new
\* size, and its blocks below it stay where they are.  TruncateFile counts down
\* from the number of blocks: of a file with a gap it leaves blocks behind the
\* new size, or it dereferences a null pointer.
TruncateCutsDenseFiles ==
    [][\A f \in Files, new \in 0 .. MaxBlocks :
        Truncate(f, new) /\ DOMAIN BlockMap(f) = 0 .. Cardinality(DOMAIN BlockMap(f)) - 1 =>
            /\ DOMAIN file_to_temp_meta'[f] = DOMAIN BlockMap(f) \cap 0 .. new - 1
            /\ \A i \in DOMAIN file_to_temp_meta'[f] : file_to_temp_meta'[f][i] = BlockMap(f)[i]]_vars
=============================================================================
