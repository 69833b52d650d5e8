----------------------------- MODULE BlockManager -----------------------------
(***************************************************************************)
(* NvmeTemporaryBlockManager, src/src/nvmefs_temporary_block_manager.cpp:  *)
(* the LBAs of the temporary space as a doubly linked list of blocks, the  *)
(* free ones also in one doubly linked list per size class.  Every call is *)
(* made under the exclusive lock of TemporaryFileMetadataManager, so an    *)
(* action is a whole call; the pointers are modelled one by one.  The       *)
(* counters nvmefs_active_temp_bytes and nvmefs_peak_temp_bytes, which      *)
(* nothing in the manager reads, are left out.                             *)
(***************************************************************************)
EXTENDS Integers, FiniteSets

CONSTANTS
    RegionStart,  \* allocated_start_lba
    RegionLbas,   \* allocated_end_lba - allocated_start_lba
    ClassLbas,    \* width of a size class: 8
    Classes,      \* number of free lists: 8
    Sizes,        \* the block sizes of the temporary files, in LBAs
    Addresses,    \* bound: the TemporaryBlocks that exist at a time
    Null

ASSUME BlockAssumption ==
    /\ RegionStart \in Nat
    /\ RegionLbas \in Nat
    /\ ClassLbas \in Nat \ {0}
    /\ Classes \in Nat \ {0}
    /\ Sizes \subseteq Nat \ {0}
    /\ Addresses # {}
    /\ Null \notin Addresses

Lists == 0 .. Classes - 1
RegionEnd == RegionStart + RegionLbas     \* allocated_end_lba

VARIABLES
    mgr,      \* the manager: its blocks, their fields, and the list heads
    lent,     \* what the caller of AllocateBlock asked for, by block
    answer    \* of the last AllocateBlock

vars == <<mgr, lent, answer>>

Pointer == Addresses \cup {Null}

Manager == [
    live : SUBSET Addresses,                 \* the TemporaryBlocks that exist
    start_lba : [Addresses -> Nat],
    lba_count : [Addresses -> Nat],
    is_free : [Addresses -> BOOLEAN],
    next_block : [Addresses -> Pointer],
    previous_block : [Addresses -> Pointer],
    next_free_block : [Addresses -> Pointer],
    previous_free_block : [Addresses -> Pointer],
    blocks : Pointer,                        \* the head of the list of blocks
    blocks_free : [Lists -> Pointer]]        \* the heads of the free lists

\* A constructor leaves every pointer null; so is the memory of no block.
All(value) == [b \in Addresses |-> value]

SmallestOf(S) == CHOOSE k \in S : \A l \in S : k <= l

\* Mutant: a size is put in the class below the one it needs.
GetFreeListIndexBelow(lba_count) ==
    SmallestOf({Classes - 1} \cup {k \in Lists : lba_count < (k + 2) * ClassLbas})

GetFreeListIndex(lba_count) ==
    SmallestOf({Classes - 1} \cup {k \in Lists : lba_count <= (k + 1) * ClassLbas})

\* "if (p != nullptr) p->field = value"
Assign(field, p, value) == IF p = Null THEN field ELSE [field EXCEPT ![p] = value]

PushFreeBlock(m, b) ==
    LET k == GetFreeListIndex(m.lba_count[b])
    IN  [m EXCEPT !.previous_free_block = Assign(@, m.blocks_free[k], b),
                  !.next_free_block[b] = m.blocks_free[k],
                  !.blocks_free[k] = b]

PopFreeBlock(m, k) ==
    LET b == m.blocks_free[k]
        head == m.next_free_block[b]
    IN  [m EXCEPT !.blocks_free[k] = head,
                  !.is_free[b] = FALSE,
                  !.next_free_block[b] = Null,
                  !.previous_free_block = Assign([@ EXCEPT ![b] = Null], head, Null)]

\* Mutant: the head of the list is never replaced.
RemoveFromInside(m, b) ==
    LET after == m.next_free_block[b]
        before == m.previous_free_block[b]
    IN  [m EXCEPT !.previous_free_block = [Assign(@, after, before) EXCEPT ![b] = Null],
                  !.next_free_block = [Assign(@, before, after) EXCEPT ![b] = Null]]

RemoveFreeBlock(m, b) ==
    LET after == m.next_free_block[b]
        before == m.previous_free_block[b]
        k == GetFreeListIndex(m.lba_count[b])
    IN  [m EXCEPT !.previous_free_block = [Assign(@, after, before) EXCEPT ![b] = Null],
                  !.next_free_block = [Assign(@, before, after) EXCEPT ![b] = Null],
                  !.blocks_free[k] = IF before = Null THEN after ELSE @]

\* The first lba_count LBAs of b become the new block, before b in the list of
\* blocks; the rest goes to its free list.
SplitBlock(m, b, lba_count, new) ==
    LET first == m.start_lba[b] = RegionStart
        left == m.previous_block[b]
    IN  PushFreeBlock(
          [m EXCEPT
            !.live = @ \cup {new},
            !.start_lba = [@ EXCEPT ![new] = m.start_lba[b], ![b] = m.start_lba[b] + lba_count],
            !.lba_count = [@ EXCEPT ![new] = lba_count, ![b] = m.lba_count[b] - lba_count],
            !.is_free[b] = TRUE,
            !.next_block = IF first THEN [@ EXCEPT ![new] = m.blocks]
                           ELSE [@ EXCEPT ![new] = m.next_block[left], ![left] = new],
            !.previous_block = [@ EXCEPT ![new] = IF first THEN Null ELSE left, ![b] = new],
            !.blocks = IF first THEN new ELSE @],
          b)

\* The unique_ptr that owned b goes out of scope.
Delete(m, b) ==
    [m EXCEPT !.live = @ \ {b}, !.start_lba[b] = 0, !.lba_count[b] = 0, !.is_free[b] = FALSE,
              !.next_block[b] = Null, !.previous_block[b] = Null]

\* Mutant: a neighbour is merged whether it is free or lent.
AnyNeighbour(m, b) == b # Null

FreeNeighbour(m, b) == b # Null /\ m.is_free[b]

MergeLeft(m, b) ==
    LET left == m.previous_block[b]
        outer == m.previous_block[left]
        merged == [m EXCEPT
            !.start_lba[b] = m.start_lba[left],
            !.lba_count[b] = @ + m.lba_count[left],
            !.next_block = Assign(@, outer, m.next_block[left]),
            !.previous_block[b] = outer,
            !.blocks = IF outer = Null THEN m.next_block[left] ELSE @]
    IN  Delete(RemoveFreeBlock(merged, left), left)

\* Mutant: the block after the merged ones keeps its back pointer.
MergeRightOneWay(m, b) ==
    LET right == m.next_block[b]
        merged == [m EXCEPT
            !.lba_count[b] = @ + m.lba_count[right],
            !.next_block[b] = m.next_block[right]]
    IN  Delete(RemoveFreeBlock(merged, right), right)

MergeRight(m, b) ==
    LET right == m.next_block[b]
        outer == m.next_block[right]
        merged == [m EXCEPT
            !.lba_count[b] = @ + m.lba_count[right],
            !.next_block[b] = outer,
            !.previous_block = Assign(@, outer, b)]
    IN  Delete(RemoveFreeBlock(merged, right), right)

\* Mutant: the case of two free neighbours is missing.
CoalesceOneSide(m, b) ==
    IF FreeNeighbour(m, m.previous_block[b]) THEN MergeLeft(m, b)
    ELSE IF FreeNeighbour(m, m.next_block[b]) THEN MergeRight(m, b)
    ELSE m

CoalesceFreeBlocks(m, b) ==
    LET left == IF FreeNeighbour(m, m.previous_block[b]) THEN MergeLeft(m, b) ELSE m
    IN  IF FreeNeighbour(m, m.next_block[b]) THEN MergeRight(left, b) ELSE left

-----------------------------------------------------------------------------
\* The constructor puts the whole region in the last free list, whatever its
\* size.
Init ==
    /\ \E b \in {CHOOSE a \in Addresses : TRUE} :
        mgr = [live |-> {b},
               start_lba |-> [All(0) EXCEPT ![b] = RegionStart],
               lba_count |-> [All(0) EXCEPT ![b] = RegionLbas],
               is_free |-> [All(FALSE) EXCEPT ![b] = TRUE],
               next_block |-> All(Null), previous_block |-> All(Null),
               next_free_block |-> All(Null), previous_free_block |-> All(Null),
               blocks |-> b,
               blocks_free |-> [k \in Lists |-> IF k = Classes - 1 THEN b ELSE Null]]
    /\ lent = <<>>
    /\ answer = "none"

\* The lists AllocateBlock looks into that have a block.
Candidates(lba_count) ==
    {k \in GetFreeListIndex(lba_count) .. Classes - 1 : mgr.blocks_free[k] # Null}

\* AllocateBlock returns block b.
Lend(b, lba_count) ==
    /\ lent' = [x \in DOMAIN lent \cup {b} |-> IF x = b THEN lba_count ELSE lent[x]]
    /\ answer' = "block"

\* AllocateBlock takes the head of the first list that has one.
AllocateWhole(lba_count) ==
    /\ Candidates(lba_count) # {}
    /\ LET k == SmallestOf(Candidates(lba_count))
           b == mgr.blocks_free[k]
       IN  /\ mgr.lba_count[b] <= lba_count
           /\ mgr' = PopFreeBlock(mgr, k)
           /\ Lend(b, lba_count)

AllocateSplit(lba_count) ==
    /\ Candidates(lba_count) # {}
    /\ mgr.live # Addresses
    /\ LET k == SmallestOf(Candidates(lba_count))
           b == mgr.blocks_free[k]
           new == CHOOSE a \in Addresses : a \notin mgr.live
       IN  /\ mgr.lba_count[b] > lba_count
           /\ mgr' = SplitBlock(PopFreeBlock(mgr, k), b, lba_count, new)
           /\ Lend(new, lba_count)

AllocateThrows(lba_count) ==
    /\ Candidates(lba_count) = {}
    /\ answer' = "No free block available"
    /\ UNCHANGED <<mgr, lent>>

FreeBlock(b) ==
    /\ mgr' = PushFreeBlock(CoalesceFreeBlocks([mgr EXCEPT !.is_free[b] = TRUE], b), b)
    /\ lent' = [x \in DOMAIN lent \ {b} |-> lent[x]]
    /\ answer' = "none"

Next ==
    \/ \E lba_count \in Sizes :
        AllocateWhole(lba_count) \/ AllocateSplit(lba_count) \/ AllocateThrows(lba_count)
    \/ \E b \in DOMAIN lent : FreeBlock(b)

Spec == Init /\ [][Next]_vars

-----------------------------------------------------------------------------
TypeOK ==
    /\ mgr \in Manager
    /\ DOMAIN lent \subseteq mgr.live
    /\ lent \in [DOMAIN lent -> Sizes]
    /\ answer \in {"none", "block", "No free block available"}

\* The list of blocks is doubly linked, in both directions the same, and tiles
\* the region: no LBA is in two blocks and none is lost, through any splitting
\* and merging.
BlocksTileRegion ==
    /\ mgr.start_lba[mgr.blocks] = RegionStart
    /\ mgr.previous_block[mgr.blocks] = Null
    /\ \A b \in mgr.live :
        LET right == mgr.next_block[b]
            end == mgr.start_lba[b] + mgr.lba_count[b]
        IN  IF right = Null THEN end = RegionEnd
            ELSE /\ right \in mgr.live
                 /\ mgr.previous_block[right] = b
                 /\ mgr.start_lba[right] = end
    /\ \A b \in mgr.live \ {mgr.blocks} : \E left \in mgr.live : mgr.next_block[left] = b
    /\ \A l \in RegionStart .. RegionEnd - 1 :
        Cardinality({b \in mgr.live :
            mgr.start_lba[b] <= l /\ l < mgr.start_lba[b] + mgr.lba_count[b]}) = 1

\* The blocks of a free list: those in every set that has its head and that
\* following the pointers does not leave.
FollowsPointers(S) ==
    \A b \in S : mgr.next_free_block[b] # Null => mgr.next_free_block[b] \in S

FreeList(k) ==
    {b \in Addresses : \A S \in SUBSET Addresses :
        FollowsPointers(S) /\ mgr.blocks_free[k] \in S \cup {Null} => b \in S}

\* A block is on the free list of its size, and on no other, exactly when it is
\* free and not lent, and the back pointers agree: so a block can neither be
\* handed out twice nor be lost, and no list leads to a block that was merged
\* away.  A region not larger than the last class starts in the wrong list.
FreeListsAreExact ==
    \A k \in Lists :
        /\ FreeList(k) = {b \in mgr.live :
                mgr.is_free[b] /\ GetFreeListIndex(mgr.lba_count[b]) = k}
        /\ mgr.blocks_free[k] # Null => mgr.previous_free_block[mgr.blocks_free[k]] = Null
        /\ \A b \in FreeList(k) :
            /\ b \notin DOMAIN lent
            /\ mgr.next_free_block[b] # Null =>
                mgr.previous_free_block[mgr.next_free_block[b]] = b

\* Merging leaves no two free neighbours, and what is not free is lent.
FreeSpaceIsMerged ==
    \A b \in mgr.live :
        /\ mgr.is_free[b] \/ b \in DOMAIN lent
        /\ mgr.next_block[b] # Null => ~(mgr.is_free[b] /\ mgr.is_free[mgr.next_block[b]])

\* AllocateBlock takes the head of a list without comparing sizes, so a block can
\* be shorter than what was asked for; where the sizes are those of the classes,
\* it is by one LBA and only the block at the end of the region, which the LBA
\* that the manager leaves out makes up for.
ShortBlocksEndTheRegion ==
    \A b \in DOMAIN lent : mgr.lba_count[b] < lent[b] =>
        mgr.next_block[b] = Null /\ mgr.lba_count[b] = lent[b] - 1

\* Refinement: the transfers of the files, each over the LBAs it asked for
\* from the start of its block, never overlap and stay on the device.  The
\* manager leaves the last LBA of the device out of its region, so the space
\* is one LBA larger than what it manages.
Space == INSTANCE TempSpace WITH
    SpaceLbas <- RegionStart .. RegionEnd,
    used <- {mgr.start_lba[b] .. mgr.start_lba[b] + lent[b] - 1 : b \in DOMAIN lent}

TransfersAreApart == Space!Spec
=============================================================================
