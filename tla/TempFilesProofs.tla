---------------------------- MODULE TempFilesProofs ----------------------------
(***************************************************************************)
(* Proof that the blocks of temporary files are kept apart, for any number *)
(* of threads, files and blocks.                                           *)
(***************************************************************************)
EXTENDS TempFiles, FiniteSetTheorems, TLAPS

\* Block b is that of index i of file f.
Holds(f, i, b) == f \in Existing /\ HasBlock(f, i) /\ BlockMap(f)[i] = b

\* What a call in progress knows of the files.
CallIsSound(c) ==
    /\ c.at = "allocate" => c.file \in Existing
    /\ c.at = "transfer" => Holds(c.file, c.index, c.block)

CallsAreSound == \A t \in Threads : CallIsSound(call[t])

FreeBlocksAreClean == \A b \in free : b \notin written /\ (media[b] = Unowned \/ b \in kept)

FilesAreCounted == IsFiniteSet(Existing) /\ ActiveFilesAreCounted

IInv ==
    /\ TypeOK
    /\ EachBlockHasOnePlace
    /\ CallsAreSound
    /\ FreeBlocksAreClean
    /\ BlocksHoldOwnData
    /\ FilesAreCounted

-----------------------------------------------------------------------------
(* The invariants in terms of Holds.                                       *)

EveryBlockIsHeld == \A b \in Blocks \ free : \E f, i : Holds(f, i, b)
NoneIsFree == \A f, i, b : Holds(f, i, b) => b \notin free
NoneIsHeldTwice == \A f, i, g, j, b : Holds(f, i, b) /\ Holds(g, j, b) => f = g /\ i = j
DataIsOwn ==
    \A f, i, b : Holds(f, i, b) =>
        IF b \in written THEN media[b] = [file |-> f, index |-> i]
        ELSE media[b] = Unowned \/ b \in kept

LEMMA OnePlace == EachBlockHasOnePlace <=> EveryBlockIsHeld /\ NoneIsFree /\ NoneIsHeldTwice
<1>1. EachBlockHasOnePlace => EveryBlockIsHeld /\ NoneIsFree /\ NoneIsHeldTwice
  <2> SUFFICES ASSUME EachBlockHasOnePlace PROVE EveryBlockIsHeld /\ NoneIsFree /\ NoneIsHeldTwice
    OBVIOUS
  <2>1. EveryBlockIsHeld
    BY DEF EachBlockHasOnePlace, EveryBlockIsHeld, Holds, HasBlock
  <2>2. NoneIsFree
    BY DEF EachBlockHasOnePlace, NoneIsFree, Holds, HasBlock
  <2>3. NoneIsHeldTwice
    BY DEF EachBlockHasOnePlace, NoneIsHeldTwice, Holds, HasBlock
  <2>4. QED
    BY <2>1, <2>2, <2>3
<1>2. EveryBlockIsHeld /\ NoneIsFree /\ NoneIsHeldTwice => EachBlockHasOnePlace
  <2> SUFFICES ASSUME EveryBlockIsHeld, NoneIsFree, NoneIsHeldTwice PROVE EachBlockHasOnePlace
    OBVIOUS
  <2>1. \A f \in Existing : \A i \in DOMAIN BlockMap(f) : Holds(f, i, BlockMap(f)[i])
    BY DEF Holds, HasBlock
  <2>2. \A b \in Blocks \ free :
            \E f \in Existing : \E i \in DOMAIN BlockMap(f) : BlockMap(f)[i] = b
    BY DEF EveryBlockIsHeld, Holds, HasBlock
  <2>3. QED
    BY <2>1, <2>2 DEF EachBlockHasOnePlace, NoneIsFree, NoneIsHeldTwice
<1>3. QED
  BY <1>1, <1>2

LEMMA OwnData == BlocksHoldOwnData <=> DataIsOwn
BY DEF BlocksHoldOwnData, DataIsOwn, Holds, HasBlock

MapsTyped ==
    \A f \in Existing :
        DOMAIN BlockMap(f) \subseteq Indexes /\ BlockMap(f) \in [DOMAIN BlockMap(f) -> Blocks]

LEMMA HeldTypes ==
    ASSUME TypeOK, NEW f, NEW i, NEW b, Holds(f, i, b)
    PROVE  f \in Files /\ i \in Indexes /\ b \in Blocks
BY DEF TypeOK, Holds, HasBlock

\* What kind of call a thread is in tells which fields it has.
LEMMA CallFields ==
    ASSUME NEW c \in Calls
    PROVE  /\ c.at \in {"idle", "create", "allocate", "transfer"}
           /\ c.at = "create" => c.file \in Files
           /\ c.at \in {"allocate", "transfer"} =>
                c.dir \in Directions /\ c.file \in Files /\ c.index \in Indexes
           /\ c.at = "transfer" => c.block \in Blocks
BY DEF Calls, Idle

LEMMA CallKinds ==
    /\ Idle \in Calls /\ Idle.at = "idle"
    /\ \A f \in Files : Creating(f) \in Calls /\ Creating(f).at = "create"
    /\ \A dir \in Directions, f \in Files, i \in Indexes :
        /\ Allocating(dir, f, i) \in Calls
        /\ Allocating(dir, f, i).at = "allocate" /\ Allocating(dir, f, i).file = f
    /\ \A dir \in Directions, f \in Files, i \in Indexes, b \in Blocks :
        LET c == Transferring(dir, f, i, b)
        IN  c \in Calls /\ c.at = "transfer" /\ c.file = f /\ c.index = i /\ c.block = b
BY DEF Calls, Idle, Creating, Allocating, Transferring, Directions

\* IInv with the parts named that the proofs use.
Parts ==
    /\ TypeOK
    /\ EveryBlockIsHeld /\ NoneIsFree /\ NoneIsHeldTwice
    /\ CallsAreSound /\ FreeBlocksAreClean /\ DataIsOwn /\ FilesAreCounted

LEMMA IInvParts == IInv <=> Parts
BY OnePlace, OwnData DEF IInv, Parts

LEMMA PartsSuffice == Parts' => IInv'
BY IInvParts, PTL

-----------------------------------------------------------------------------
(* Initially, and when a process starts.                                   *)

Empty == Existing = {} /\ free = Blocks /\ media = [b \in Blocks |-> Unowned]
         /\ call = [t \in Threads |-> Idle] /\ active_temp_files = 0
         /\ written = {} /\ kept = {}

LEMMA NothingIsMapped == DOMAIN <<>> = {}
OBVIOUS

LEMMA EmptyIsSound == Empty => IInv
<1> SUFFICES ASSUME Empty PROVE Parts
  BY IInvParts
<1>1. TypeOK
  <2>1. Existing \subseteq Files /\ free \subseteq Blocks /\ active_temp_files \in Int
    BY DEF Empty
  <2>2. media \in [Blocks -> Content]
    BY DEF Empty, Content
  <2>3. call \in [Threads -> Calls]
    BY CallKinds DEF Empty
  <2>4. QED
    BY <2>1, <2>2, <2>3 DEF TypeOK, Empty
<1>2. \A f, i, b : ~Holds(f, i, b)
  BY DEF Empty, Holds
<1>3. EveryBlockIsHeld /\ NoneIsFree /\ NoneIsHeldTwice /\ DataIsOwn
  BY <1>2 DEF Empty, EveryBlockIsHeld, NoneIsFree, NoneIsHeldTwice, DataIsOwn
<1>4. CallsAreSound
  BY CallKinds DEF Empty, CallsAreSound, CallIsSound
<1>5. FreeBlocksAreClean
  BY DEF Empty, FreeBlocksAreClean
<1>6. FilesAreCounted
  BY FS_EmptySet DEF Empty, FilesAreCounted, ActiveFilesAreCounted
<1>7. QED
  BY <1>1, <1>3, <1>4, <1>5, <1>6 DEF Parts

LEMMA Initially == Init => IInv
<1>1. Init => Empty
  BY NothingIsMapped DEF Init, Empty, Existing
<1>2. QED
  BY <1>1, EmptyIsSound

LEMMA RestartKeeps == Restart => IInv'
<1>1. Restart => Empty'
  BY NothingIsMapped DEF Restart, Empty, Existing
<1>2. Empty' => IInv'
  BY EmptyIsSound, PTL
<1>3. QED
  BY <1>1, <1>2

-----------------------------------------------------------------------------
(* The calls of the threads.                                               *)

LEMMA CallsKeep ==
    ASSUME TypeOK, CallsAreSound, NEW t \in Threads, NEW c \in Calls, Become(t, c),
           CallIsSound(c)', Existing \subseteq Existing',
           \A f, i, b : Holds(f, i, b) => Holds(f, i, b)'
    PROVE  call' \in [Threads -> Calls] /\ CallsAreSound'
<1>1. /\ call' \in [Threads -> Calls]
      /\ call'[t] = c
      /\ \A u \in Threads \ {t} : call'[u] = call[u]
  BY DEF TypeOK, Become
<1>2. CallIsSound(call[t])'
  BY <1>1 DEF CallIsSound
<1>3. ASSUME NEW u \in Threads \ {t} PROVE CallIsSound(call[u])'
  <2>1. CallIsSound(call[u])
    BY DEF CallsAreSound
  <2>2. call'[u] = call[u]
    BY <1>1
  <2>3. call[u].at = "allocate" => call[u].file \in Existing'
    BY <2>1 DEF CallIsSound
  <2>4. ASSUME call[u].at = "transfer", NEW f, NEW i, NEW b,
               call[u].file = f, call[u].index = i, call[u].block = b
        PROVE  Holds(f, i, b)'
    BY <2>1, <2>4 DEF CallIsSound
  <2>5. QED
    BY <2>2, <2>3, <2>4 DEF CallIsSound, Holds
<1>4. QED
  BY <1>1, <1>2, <1>3 DEF CallsAreSound

\* A step that changes nothing but the thread's own call.
LEMMA OnlyCallKeeps ==
    ASSUME IInv, NEW t \in Threads, NEW c \in Calls, CallIsSound(c), Become(t, c),
           UNCHANGED <<file_to_temp_meta, free, media, active_temp_files, written, kept>>
    PROVE  IInv'
<1> USE DEF Existing, HasBlock, BlockMap
<1>1. Parts
  BY IInvParts
<1>2. call' \in [Threads -> Calls] /\ CallsAreSound'
  <2>1. CallIsSound(c)' /\ \A f, i, b : Holds(f, i, b) => Holds(f, i, b)'
    BY DEF CallIsSound, Holds
  <2>2. QED
    BY <1>1, <2>1, CallsKeep DEF Parts
<1>3. TypeOK'
  BY <1>1, <1>2 DEF Parts, TypeOK
<1>4. EachBlockHasOnePlace' /\ FreeBlocksAreClean' /\ BlocksHoldOwnData' /\ FilesAreCounted'
  BY DEF IInv, EachBlockHasOnePlace, FreeBlocksAreClean, BlocksHoldOwnData, FilesAreCounted,
         ActiveFilesAreCounted
<1>5. QED
  BY <1>2, <1>3, <1>4 DEF IInv

LEMMA FileMissingKeeps ==
    ASSUME IInv, NEW t \in Threads, NEW f \in Files, FileMissing(t, f)
    PROVE  IInv'
<1>1. Creating(f) \in Calls /\ CallIsSound(Creating(f))
  BY CallKinds DEF CallIsSound
<1>2. QED
  BY <1>1, OnlyCallKeeps DEF FileMissing

LEMMA LookUpKeeps ==
    ASSUME IInv, NEW t \in Threads, NEW dir \in Directions, NEW f \in Files, NEW i \in Indexes,
           LookUp(t, dir, f, i)
    PROVE  IInv'
<1>1. CASE HasBlock(f, i)
  <2>1. Holds(f, i, BlockMap(f)[i])
    BY <1>1 DEF LookUp, Holds
  <2>2. PICK b \in Blocks : b = BlockMap(f)[i] /\ Holds(f, i, b)
    BY <2>1, HeldTypes DEF IInv
  <2>3. LET c == Transferring(dir, f, i, b) IN c \in Calls /\ CallIsSound(c) /\ Become(t, c)
    BY <1>1, <2>2, CallKinds DEF CallIsSound, LookUp
  <2>4. QED
    BY <2>3, OnlyCallKeeps DEF LookUp
<1>2. CASE ~HasBlock(f, i)
  <2>1. LET c == Allocating(dir, f, i) IN c \in Calls /\ CallIsSound(c) /\ Become(t, c)
    BY <1>2, CallKinds DEF CallIsSound, LookUp
  <2>2. QED
    BY <2>1, OnlyCallKeeps DEF LookUp
<1>3. QED
  BY <1>1, <1>2

LEMMA AllocatingFields ==
    ASSUME IInv, NEW t \in Threads, call[t].at = "allocate"
    PROVE  /\ call[t].dir \in Directions /\ call[t].file \in Files /\ call[t].index \in Indexes
           /\ call[t].file \in Existing
<1>1. call[t] \in Calls
  BY DEF IInv, TypeOK
<1>2. QED
  BY <1>1, CallFields DEF IInv, CallsAreSound, CallIsSound

LEMMA LookUpAgainKeeps ==
    ASSUME IInv, NEW t \in Threads, LookUpAgain(t)
    PROVE  IInv'
<1>1. PICK dir \in Directions, f \in Files, i \in Indexes :
        /\ call[t].dir = dir /\ call[t].file = f /\ call[t].index = i
        /\ f \in Existing
  BY AllocatingFields DEF LookUpAgain
<1>2. Holds(f, i, BlockMap(f)[i])
  BY <1>1 DEF LookUpAgain, Holds
<1>3. PICK b \in Blocks : b = BlockMap(f)[i] /\ Holds(f, i, b)
  BY <1>2, HeldTypes DEF IInv
<1>4. LET c == Transferring(dir, f, i, b) IN c \in Calls /\ CallIsSound(c) /\ Become(t, c)
  BY <1>1, <1>3, CallKinds DEF CallIsSound, LookUpAgain
<1>5. QED
  BY <1>4, OnlyCallKeeps DEF LookUpAgain

LEMMA NoFreeBlockKeeps ==
    ASSUME IInv, NEW t \in Threads, NoFreeBlock(t)
    PROVE  IInv'
<1>1. Idle \in Calls /\ CallIsSound(Idle)
  BY CallKinds DEF CallIsSound
<1>2. QED
  BY <1>1, OnlyCallKeeps DEF NoFreeBlock

LEMMA CreateFileKeeps ==
    ASSUME IInv, NEW t \in Threads, CreateFile(t)
    PROVE  IInv'
<1>1. Idle \in Calls /\ Idle.at = "idle"
  BY CallKinds
<1>2. call[t].file \in Files
  BY CallFields DEF IInv, TypeOK, CreateFile
<1>3. CASE call[t].file \in Existing
  BY <1>1, <1>3, OnlyCallKeeps DEF CreateFile, CallIsSound
<1>4. CASE call[t].file \notin Existing
  <2>1. PICK f \in Files : f = call[t].file /\ f \notin Existing
    BY <1>2, <1>4
  <2>2. /\ Existing' = Existing \cup {f}
        /\ BlockMap(f)' = <<>>
        /\ \A g \in Existing : BlockMap(g)' = BlockMap(g)
    BY <2>1 DEF CreateFile, Existing, BlockMap
  <2>3. \A g, i, b : Holds(g, i, b)' <=> Holds(g, i, b)
    BY <2>1, <2>2, NothingIsMapped DEF Holds, HasBlock
  <2>4. /\ UNCHANGED <<free, media, written, kept>>
        /\ active_temp_files' = active_temp_files + 1
        /\ Become(t, Idle)
    BY <1>4 DEF CreateFile
  <2>5. Parts
    BY IInvParts
  <2>6. call' \in [Threads -> Calls] /\ CallsAreSound'
    BY <1>1, <2>2, <2>3, <2>4, <2>5, CallsKeep DEF Parts, CallIsSound
  <2>7. TypeOK'
    <3>1. DOMAIN BlockMap(f)' \subseteq Indexes /\ BlockMap(f)' \in [DOMAIN BlockMap(f)' -> Blocks]
      BY <2>2, NothingIsMapped
    <3>2. \A g \in Existing : /\ DOMAIN BlockMap(g)' \subseteq Indexes
                              /\ BlockMap(g)' \in [DOMAIN BlockMap(g)' -> Blocks]
      BY <2>2, <2>5 DEF Parts, TypeOK
    <3>3. MapsTyped'
      BY <2>2, <3>1, <3>2 DEF MapsTyped
    <3>4. Existing' \subseteq Files /\ active_temp_files' \in Int
      BY <2>1, <2>2, <2>4, <2>5 DEF Parts, TypeOK
    <3>5. QED
      BY <2>4, <2>5, <2>6, <3>3, <3>4 DEF Parts, TypeOK, MapsTyped
  <2>8. EveryBlockIsHeld' /\ NoneIsFree' /\ NoneIsHeldTwice' /\ DataIsOwn'
    BY <2>3, <2>4, <2>5 DEF Parts, EveryBlockIsHeld, NoneIsFree, NoneIsHeldTwice, DataIsOwn
  <2>9. FreeBlocksAreClean'
    BY <2>4, <2>5 DEF Parts, FreeBlocksAreClean
  <2>10. FilesAreCounted'
    BY <2>1, <2>2, <2>4, <2>5, FS_AddElement DEF Parts, FilesAreCounted, ActiveFilesAreCounted
  <2>11. Parts'
    BY <2>6, <2>7, <2>8, <2>9, <2>10 DEF Parts
  <2>12. QED
    BY <2>11, PartsSuffice
<1>5. QED
  BY <1>3, <1>4

LEMMA AllocateBlockKeeps ==
    ASSUME IInv, NEW t \in Threads, AllocateBlock(t)
    PROVE  IInv'
<1>1. PICK dir \in Directions, f \in Files, i \in Indexes :
        /\ call[t].dir = dir /\ call[t].file = f /\ call[t].index = i
        /\ f \in Existing
  BY AllocatingFields DEF AllocateBlock
<1>2. PICK b \in free :
        /\ file_to_temp_meta' = [file_to_temp_meta EXCEPT
                ![f] = [j \in DOMAIN @ \cup {i} |-> IF j = i THEN b ELSE @[j]]]
        /\ free' = free \ {b}
        /\ Become(t, Transferring(dir, f, i, b))
  BY <1>1 DEF AllocateBlock
<1>3. ~HasBlock(f, i) /\ UNCHANGED <<media, active_temp_files, written, kept>>
  BY <1>1 DEF AllocateBlock
<1>4. Parts
  BY IInvParts
<1>5. b \in Blocks
  BY <1>4 DEF Parts, TypeOK
<1>6. /\ Existing' = Existing
      /\ DOMAIN BlockMap(f)' = DOMAIN BlockMap(f) \cup {i}
      /\ BlockMap(f)'[i] = b
      /\ \A j \in DOMAIN BlockMap(f) : BlockMap(f)'[j] = BlockMap(f)[j]
      /\ \A g \in Existing \ {f} : BlockMap(g)' = BlockMap(g)
      /\ BlockMap(f)' = [j \in DOMAIN BlockMap(f) \cup {i} |->
                            IF j = i THEN b ELSE BlockMap(f)[j]]
  BY <1>1, <1>2, <1>3 DEF Existing, BlockMap, HasBlock
<1>7. \A g, j, c : Holds(g, j, c)' <=> Holds(g, j, c) \/ (g = f /\ j = i /\ c = b)
  BY <1>1, <1>3, <1>6 DEF Holds, HasBlock
<1>8. call' \in [Threads -> Calls] /\ CallsAreSound'
  <2>1. PICK c : c = Transferring(dir, f, i, b)
    OBVIOUS
  <2>2. c \in Calls /\ c.at = "transfer" /\ c.file = f /\ c.index = i /\ c.block = b
    BY <1>5, <2>1, CallKinds
  <2>3. CallIsSound(c)'
    BY <1>7, <2>2 DEF CallIsSound
  <2>4. QED
    BY <1>2, <1>4, <1>6, <1>7, <2>1, <2>2, <2>3, CallsKeep DEF Parts
<1>9. TypeOK'
  <2>1. ASSUME NEW g \in Existing'
        PROVE  DOMAIN BlockMap(g)' \subseteq Indexes
               /\ BlockMap(g)' \in [DOMAIN BlockMap(g)' -> Blocks]
    BY <1>4, <1>5, <1>6 DEF Parts, TypeOK
  <2>2. MapsTyped'
    BY <2>1 DEF MapsTyped
  <2>3. QED
    BY <1>2, <1>3, <1>4, <1>6, <1>8, <2>2 DEF Parts, TypeOK, MapsTyped
<1>10. EveryBlockIsHeld' /\ NoneIsFree' /\ NoneIsHeldTwice'
  <2>1. \A c : ~Holds(f, i, c)
    BY <1>3 DEF Holds
  <2>2. EveryBlockIsHeld'
    BY <1>2, <1>4, <1>7 DEF Parts, EveryBlockIsHeld
  <2>3. NoneIsFree'
    BY <1>2, <1>4, <1>7 DEF Parts, NoneIsFree
  <2>4. NoneIsHeldTwice'
    BY <1>4, <1>7, <2>1 DEF Parts, NoneIsFree, NoneIsHeldTwice
  <2>5. QED
    BY <2>2, <2>3, <2>4
<1>11. FreeBlocksAreClean' /\ DataIsOwn'
  BY <1>2, <1>3, <1>4, <1>7 DEF Parts, FreeBlocksAreClean, DataIsOwn
<1>12. FilesAreCounted'
  BY <1>3, <1>4, <1>6 DEF Parts, FilesAreCounted, ActiveFilesAreCounted
<1>13. Parts'
  BY <1>8, <1>9, <1>10, <1>11, <1>12 DEF Parts
<1>14. QED
  BY <1>13, PartsSuffice

LEMMA TransferNothingKeeps ==
    ASSUME IInv, NEW t \in Threads, TransferNothing(t)
    PROVE  IInv'
<1>1. Idle \in Calls /\ CallIsSound(Idle)
  BY CallKinds DEF CallIsSound
<1>2. QED
  BY <1>1, OnlyCallKeeps DEF TransferNothing

LEMMA TransferWriteKeeps ==
    ASSUME IInv, NEW t \in Threads, TransferWrite(t)
    PROVE  IInv'
<1>1. Parts
  BY IInvParts
<1>2. PICK f \in Files, i \in Indexes, b \in Blocks :
        /\ call[t].file = f /\ call[t].index = i /\ call[t].block = b
        /\ Holds(f, i, b)
  BY <1>1, CallFields DEF Parts, TypeOK, CallsAreSound, CallIsSound, TransferWrite
<1>3. /\ UNCHANGED <<file_to_temp_meta, free, active_temp_files>> /\ Become(t, Idle)
      /\ written' = written \cup {b} /\ kept' = kept \ {b}
  BY <1>2 DEF TransferWrite
<1>4. Existing' = Existing /\ \A g, j, c : Holds(g, j, c)' <=> Holds(g, j, c)
  BY <1>3 DEF Existing, Holds, HasBlock, BlockMap
<1>5. /\ media' \in [Blocks -> Content]
      /\ media'[b] = [file |-> f, index |-> i]
      /\ \A c \in Blocks \ {b} : media'[c] = media[c]
  BY <1>1, <1>2 DEF TransferWrite, Parts, TypeOK, Content
<1>6. call' \in [Threads -> Calls] /\ CallsAreSound'
  BY <1>1, <1>3, <1>4, CallsKeep, CallKinds DEF Parts, CallIsSound
<1>7. TypeOK'
  BY <1>1, <1>3, <1>5, <1>6 DEF Parts, TypeOK, Existing, BlockMap
<1>8. EveryBlockIsHeld' /\ NoneIsFree' /\ NoneIsHeldTwice'
  BY <1>1, <1>3, <1>4 DEF Parts, EveryBlockIsHeld, NoneIsFree, NoneIsHeldTwice
<1>9. DataIsOwn'
  <2>1. ASSUME NEW g, NEW j, NEW c, Holds(g, j, c)'
        PROVE  IF c \in written' THEN media'[c] = [file |-> g, index |-> j]
               ELSE media'[c] = Unowned \/ c \in kept'
    <3>1. Holds(g, j, c) /\ c \in Blocks
      BY <1>1, <1>4, <2>1, HeldTypes DEF Parts
    <3>2. CASE c = b
      BY <1>1, <1>2, <1>3, <1>5, <3>1, <3>2 DEF Parts, NoneIsHeldTwice
    <3>3. CASE c # b
      BY <1>1, <1>3, <1>5, <3>1, <3>3 DEF Parts, DataIsOwn
    <3>4. QED
      BY <3>2, <3>3
  <2>2. QED
    BY <2>1 DEF DataIsOwn
<1>10. FreeBlocksAreClean'
  <2>1. b \notin free /\ free \subseteq Blocks
    BY <1>1, <1>2 DEF Parts, NoneIsFree, TypeOK
  <2>2. QED
    BY <1>1, <1>3, <1>5, <2>1 DEF Parts, FreeBlocksAreClean
<1>11. FilesAreCounted'
  BY <1>1, <1>3, <1>4 DEF Parts, FilesAreCounted, ActiveFilesAreCounted
<1>12. Parts'
  BY <1>6, <1>7, <1>8, <1>9, <1>10, <1>11 DEF Parts
<1>13. QED
  BY <1>12, PartsSuffice

-----------------------------------------------------------------------------
(* Blocks are given back.                                                  *)

LEMMA UnmapKeeps ==
    ASSUME IInv, NEW S \in SUBSET Blocks, FreeBlocks(S), UNCHANGED call,
           \A f, i, b : Holds(f, i, b)' <=> Holds(f, i, b) /\ b \notin S,
           \A t \in Threads : call[t].at = "allocate" => call[t].file \in Existing',
           \A t \in Threads : call[t].at = "transfer" => call[t].block \notin S,
           Existing' \subseteq Files, MapsTyped', active_temp_files' \in Int, FilesAreCounted'
    PROVE  IInv'
<1>1. Parts
  BY IInvParts
<1>2. PICK failed \in SUBSET S :
        /\ media' = [b \in Blocks |-> IF b \in S \ failed THEN Unowned ELSE media[b]]
        /\ kept' = (kept \ S) \cup failed
        /\ free' = free \cup S /\ written' = written \ S
  BY DEF FreeBlocks
<1>3. media' \in [Blocks -> Content]
  BY <1>1, <1>2 DEF Parts, TypeOK, Content
<1>4. TypeOK'
  BY <1>1, <1>2, <1>3 DEF Parts, TypeOK, MapsTyped
<1>5. EveryBlockIsHeld' /\ NoneIsFree' /\ NoneIsHeldTwice'
  BY <1>1, <1>2 DEF Parts, EveryBlockIsHeld, NoneIsFree, NoneIsHeldTwice
<1>6. CallsAreSound'
  <2>1. ASSUME NEW t \in Threads, call[t].at = "transfer"
        PROVE  Holds(call[t].file, call[t].index, call[t].block)'
    <3>1. PICK f, i, b : call[t].file = f /\ call[t].index = i /\ call[t].block = b
      OBVIOUS
    <3>2. Holds(f, i, b) /\ b \notin S
      BY <1>1, <2>1, <3>1 DEF Parts, CallsAreSound, CallIsSound
    <3>3. Holds(f, i, b)'
      BY <3>2
    <3>4. QED
      BY <3>1, <3>3 DEF Holds
  <2>2. QED
    BY <2>1 DEF CallsAreSound, CallIsSound
<1>7. FreeBlocksAreClean' /\ DataIsOwn'
  <2>1. free \subseteq Blocks /\ \A f, i, b : Holds(f, i, b) => b \in Blocks
    BY <1>1, HeldTypes DEF Parts, TypeOK
  <2>2. QED
    BY <1>1, <1>2, <2>1 DEF Parts, FreeBlocksAreClean, DataIsOwn
<1>8. Parts'
  BY <1>4, <1>5, <1>6, <1>7 DEF Parts
<1>9. QED
  BY <1>8, PartsSuffice

LEMMA TruncateKeeps ==
    ASSUME IInv, NEW f \in Files, NEW new \in 0 .. MaxBlocks, Truncate(f, new)
    PROVE  IInv'
<1> DEFINE cut == CutIndexes(f, new)
           S == {BlockMap(f)[i] : i \in cut}
<1>1. Parts
  BY IInvParts
<1>2. f \in Existing /\ cut \subseteq DOMAIN BlockMap(f) /\ UNCHANGED <<call, active_temp_files>>
  BY DEF Truncate
<1>3. cut \subseteq {i \in Indexes : i >= new}
  <2>1. DOMAIN BlockMap(f) \subseteq Indexes
    BY <1>1, <1>2 DEF Parts, TypeOK
  <2>2. \A i \in cut : i >= new
    BY DEF CutIndexes
  <2>3. QED
    BY <1>2, <2>1, <2>2
<1>4. /\ Existing' = Existing
      /\ BlockMap(f)' = [i \in DOMAIN BlockMap(f) \ cut |-> BlockMap(f)[i]]
      /\ \A g \in Existing \ {f} : BlockMap(g)' = BlockMap(g)
  BY <1>2 DEF Truncate, Existing, BlockMap
<1>5. \A g, i, b : Holds(g, i, b) => (b \in S <=> g = f /\ i \in cut)
  <2>1. \A i \in cut : Holds(f, i, BlockMap(f)[i])
    BY <1>2 DEF Holds, HasBlock
  <2>2. QED
    BY <1>1, <2>1 DEF Parts, NoneIsHeldTwice, Holds
<1> HIDE DEF cut
<1>6. \A g, i, b : Holds(g, i, b)' <=> Holds(g, i, b) /\ b \notin S
  <2>1. \A g, i, b : Holds(g, i, b)' <=> Holds(g, i, b) /\ ~(g = f /\ i \in cut)
    BY <1>2, <1>4 DEF Holds, HasBlock
  <2>2. QED
    BY <1>5, <2>1
<1>7. S \in SUBSET Blocks /\ FreeBlocks(S)
  BY <1>1, <1>2 DEF Truncate, Parts, TypeOK, cut
<1> HIDE DEF S
<1>8. \A t \in Threads : call[t].at = "allocate" => call[t].file \in Existing'
  BY <1>1, <1>4 DEF Parts, CallsAreSound, CallIsSound
<1>9. ASSUME NEW t \in Threads, call[t].at = "transfer", call[t].block \in S
      PROVE  FALSE
  <2>1. Holds(call[t].file, call[t].index, call[t].block)
    BY <1>1, <1>9 DEF Parts, CallsAreSound, CallIsSound
  <2>2. call[t].file = f /\ call[t].index \in cut
    BY <1>5, <1>9, <2>1
  <2>3. call[t].index < new
    BY <1>9, <2>2 DEF Truncate, Quiet
  <2>4. MaxBlocks \in Nat /\ call[t].index \in Indexes /\ call[t].index >= new
    BY <1>3, <2>2, TempAssumption
  <2>5. QED
    BY <2>3, <2>4 DEF Indexes
<1>10. MapsTyped'
  <2>1. MapsTyped
    BY <1>1 DEF Parts, TypeOK, MapsTyped
  <2>2. ASSUME NEW g \in Existing
        PROVE  DOMAIN BlockMap(g)' \subseteq Indexes
               /\ BlockMap(g)' \in [DOMAIN BlockMap(g)' -> Blocks]
    BY <1>2, <1>4, <2>1 DEF MapsTyped
  <2>3. QED
    BY <1>4, <2>2 DEF MapsTyped
<1>11. Existing' \subseteq Files /\ active_temp_files' \in Int /\ FilesAreCounted'
  BY <1>1, <1>2, <1>4 DEF Parts, TypeOK, FilesAreCounted, ActiveFilesAreCounted
<1>12. QED
  BY <1>2, <1>6, <1>7, <1>8, <1>9, <1>10, <1>11, UnmapKeeps

\* No call that depends on the blocks of a file is under way when all are freed.
LEMMA QuietFile ==
    ASSUME IInv, NEW f, Quiet(f, 0), NEW t \in Threads, call[t].at \in {"allocate", "transfer"}
    PROVE  call[t].file # f
<1>1. call[t].index \in Indexes
  BY CallFields DEF IInv, TypeOK
<1>2. QED
  BY <1>1, TempAssumption DEF Quiet, Indexes

LEMMA DeleteFileKeeps ==
    ASSUME IInv, NEW f \in Files, DeleteFile(f)
    PROVE  IInv'
<1> DEFINE S == {BlockMap(f)[i] : i \in DOMAIN BlockMap(f)}
<1>1. Parts
  BY IInvParts
<1>2. f \in Existing /\ Quiet(f, 0) /\ FreeBlocks(S) /\ UNCHANGED call
      /\ active_temp_files' = active_temp_files - 1
  BY DEF DeleteFile
<1>3. Existing' = Existing \ {f} /\ \A g \in Existing \ {f} : BlockMap(g)' = BlockMap(g)
  BY DEF DeleteFile, Existing, BlockMap
<1>4. \A g, i, b : Holds(g, i, b) => (b \in S <=> g = f)
  <2>1. \A i \in DOMAIN BlockMap(f) : Holds(f, i, BlockMap(f)[i])
    BY <1>2 DEF Holds, HasBlock
  <2>2. QED
    BY <1>1, <2>1 DEF Parts, NoneIsHeldTwice, Holds, HasBlock
<1>5. \A g, i, b : Holds(g, i, b)' <=> Holds(g, i, b) /\ b \notin S
  <2>1. \A g, i, b : Holds(g, i, b)' <=> Holds(g, i, b) /\ g # f
    BY <1>3 DEF Holds, HasBlock
  <2>2. QED
    BY <1>4, <2>1
<1>6. S \in SUBSET Blocks
  BY <1>1, <1>2 DEF Parts, TypeOK
<1> HIDE DEF S
<1>7. \A t \in Threads : call[t].at = "allocate" => call[t].file \in Existing'
  BY <1>1, <1>2, <1>3, QuietFile DEF Parts, CallsAreSound, CallIsSound
<1>8. \A t \in Threads : call[t].at = "transfer" => call[t].block \notin S
  BY <1>1, <1>2, <1>4, QuietFile DEF Parts, CallsAreSound, CallIsSound
<1>9. MapsTyped' /\ Existing' \subseteq Files
  BY <1>1, <1>3 DEF Parts, TypeOK, MapsTyped
<1>10. active_temp_files' \in Int /\ FilesAreCounted'
  BY <1>1, <1>2, <1>3, FS_RemoveElement DEF Parts, TypeOK, FilesAreCounted, ActiveFilesAreCounted
<1>11. QED
  BY <1>2, <1>5, <1>6, <1>7, <1>8, <1>9, <1>10, UnmapKeeps

LEMMA ClearKeeps ==
    ASSUME IInv, Clear
    PROVE  IInv'
<1> DEFINE S == UNION {{BlockMap(f)[i] : i \in DOMAIN BlockMap(f)} : f \in Existing}
<1>1. Parts
  BY IInvParts
<1>2. (\A f \in Existing : Quiet(f, 0)) /\ FreeBlocks(S) /\ UNCHANGED call
      /\ active_temp_files' = 0
  BY DEF Clear
<1>3. Existing' = {}
  BY NothingIsMapped DEF Clear, Existing
<1>4. \A g, i, b : Holds(g, i, b) => b \in S
  BY DEF Holds, HasBlock
<1>5. \A g, i, b : ~Holds(g, i, b)'
  BY <1>3 DEF Holds
<1>6. S \in SUBSET Blocks
  BY <1>1 DEF Parts, TypeOK
<1> HIDE DEF S
<1>7. \A t \in Threads : call[t].at \notin {"allocate", "transfer"}
  <2>1. \A t \in Threads : call[t].at \in {"allocate", "transfer"} => call[t].file \in Existing
    BY <1>1 DEF Parts, CallsAreSound, CallIsSound, Holds
  <2>2. QED
    BY <1>2, <2>1, QuietFile
<1>8. MapsTyped' /\ Existing' \subseteq Files
  BY <1>3 DEF MapsTyped
<1>9. active_temp_files' \in Int /\ FilesAreCounted'
  BY <1>2, <1>3, FS_EmptySet DEF FilesAreCounted, ActiveFilesAreCounted
<1>10. QED
  BY <1>2, <1>4, <1>5, <1>6, <1>7, <1>8, <1>9, UnmapKeeps

-----------------------------------------------------------------------------
LEMMA StepKeeps == IInv /\ [Next]_vars => IInv'
<1> SUFFICES ASSUME IInv, [Next]_vars PROVE IInv'
  OBVIOUS
<1>1. CASE UNCHANGED vars
  <2>1. TypeOK' /\ FilesAreCounted' /\ FreeBlocksAreClean'
    BY <1>1 DEF vars, IInv, TypeOK, FilesAreCounted, FreeBlocksAreClean, ActiveFilesAreCounted,
                Existing, BlockMap
  <2>2. EachBlockHasOnePlace' /\ BlocksHoldOwnData'
    BY <1>1 DEF vars, IInv, EachBlockHasOnePlace, BlocksHoldOwnData, Existing, BlockMap
  <2>3. CallsAreSound'
    BY <1>1 DEF vars, IInv, CallsAreSound, CallIsSound, Holds, HasBlock, Existing, BlockMap
  <2>4. QED
    BY <2>1, <2>2, <2>3 DEF IInv
<1>2. CASE \E t \in Threads :
        \/ \E f \in Files : FileMissing(t, f)
        \/ CreateFile(t)
        \/ \E dir \in Directions, f \in Files, i \in Indexes : LookUp(t, dir, f, i)
        \/ LookUpAgain(t) \/ AllocateBlock(t) \/ NoFreeBlock(t)
        \/ TransferNothing(t) \/ TransferWrite(t)
  BY <1>2, FileMissingKeeps, CreateFileKeeps, LookUpKeeps, LookUpAgainKeeps, AllocateBlockKeeps,
     NoFreeBlockKeeps, TransferNothingKeeps, TransferWriteKeeps
<1>3. CASE \E f \in Files, new \in 0 .. MaxBlocks : Truncate(f, new)
  BY <1>3, TruncateKeeps
<1>4. CASE \E f \in Files : DeleteFile(f)
  BY <1>4, DeleteFileKeeps
<1>5. CASE Clear
  BY <1>5, ClearKeeps
<1>6. CASE Restart \/ NullDereference
  BY <1>6, RestartKeeps DEF NullDereference
<1>7. QED
  BY <1>1, <1>2, <1>3, <1>4, <1>5, <1>6 DEF Next

LEMMA Invariance == Spec => []IInv
BY Initially, StepKeeps, PTL DEF Spec

-----------------------------------------------------------------------------
\* The type invariant, for any number of threads, files and blocks.
THEOREM TypeCorrect == Spec => []TypeOK
<1>1. IInv => TypeOK
  BY DEF IInv
<1>2. QED
  BY Invariance, <1>1, PTL

\* No block is in two places and none is lost: a lookup that finds no block takes
\* its lock again before it allocates one, so two threads never give one index two
\* blocks (temporary_file_metadata_manager.cpp:117).
THEOREM BlocksAreKeptApart == Spec => []EachBlockHasOnePlace
<1>1. IInv => EachBlockHasOnePlace
  BY DEF IInv
<1>2. QED
  BY Invariance, <1>1, PTL

\* The LBA of a lookup is still the block's when the transfer uses it, without a
\* lock, provided that the owner frees no block under a transfer
\* (nvmefs.cpp:213).
THEOREM TransfersUseTheirBlocks == Spec => []LookupsStayValid
<1>1. IInv => LookupsStayValid
  BY DEF IInv, CallsAreSound, CallIsSound, LookupsStayValid, Holds
<1>2. QED
  BY Invariance, <1>1, PTL

\* What a file has written stays in its block, which no other file or index writes,
\* until the file gives it up.  A block read before it is written holds no data of
\* another file, except where the device has not carried out the deallocation that
\* FreeBlock goes on from whatever becomes of it
\* (temporary_file_metadata_manager.cpp:264).
THEOREM FilesReadTheirOwnData == Spec => []BlocksHoldOwnData
<1>1. IInv => BlocksHoldOwnData
  BY DEF IInv
<1>2. QED
  BY Invariance, <1>1, PTL

\* The gauge of temporary files is their number: two threads that create one file
\* count it once (temporary_file_metadata_manager.cpp:81).
THEOREM GaugeIsExact == Spec => []ActiveFilesAreCounted
<1>1. IInv => ActiveFilesAreCounted
  BY DEF IInv, FilesAreCounted
<1>2. QED
  BY Invariance, <1>1, PTL

\* A file without gaps is cut to its new size, and keeps the blocks below it
\* (temporary_file_metadata_manager.cpp:163).
THEOREM DenseFilesAreCut == Spec => TruncateCutsDenseFiles
<1>1. ASSUME IInv, NEW f \in Files, NEW new \in 0 .. MaxBlocks, Truncate(f, new),
             DOMAIN BlockMap(f) = 0 .. Cardinality(DOMAIN BlockMap(f)) - 1
      PROVE  /\ DOMAIN file_to_temp_meta'[f] = DOMAIN BlockMap(f) \cap 0 .. new - 1
             /\ \A i \in DOMAIN file_to_temp_meta'[f] : file_to_temp_meta'[f][i] = BlockMap(f)[i]
  <2>1. PICK n \in Nat : n = Cardinality(DOMAIN BlockMap(f))
    <3>1. f \in Existing /\ DOMAIN BlockMap(f) \subseteq Indexes
      BY <1>1 DEF Truncate, IInv, TypeOK
    <3>2. IsFiniteSet(Indexes)
      BY FS_Interval, TempAssumption DEF Indexes
    <3>3. QED
      BY <3>1, <3>2, FS_Subset, FS_CardinalityType
  <2>2. f \in Existing /\ DOMAIN BlockMap(f) = 0 .. n - 1 /\ CutIndexes(f, new) = new .. n - 1
    BY <1>1, <2>1 DEF Truncate, CutIndexes
  <2>3. file_to_temp_meta'[f] =
            [i \in DOMAIN BlockMap(f) \ CutIndexes(f, new) |-> BlockMap(f)[i]]
    BY <1>1, <2>2 DEF Truncate, Existing, BlockMap
  <2>4. DOMAIN BlockMap(f) \ CutIndexes(f, new) = DOMAIN BlockMap(f) \cap 0 .. new - 1
    BY <2>1, <2>2
  <2>5. QED
    BY <2>3, <2>4
<1>2. IInv /\ [Next]_vars =>
        [\A f \in Files, new \in 0 .. MaxBlocks :
            Truncate(f, new) /\ DOMAIN BlockMap(f) = 0 .. Cardinality(DOMAIN BlockMap(f)) - 1 =>
                /\ DOMAIN file_to_temp_meta'[f] = DOMAIN BlockMap(f) \cap 0 .. new - 1
                /\ \A i \in DOMAIN file_to_temp_meta'[f] :
                        file_to_temp_meta'[f][i] = BlockMap(f)[i]]_vars
  BY <1>1
<1>3. QED
  BY Invariance, <1>2, PTL DEF Spec, TruncateCutsDenseFiles
=============================================================================
