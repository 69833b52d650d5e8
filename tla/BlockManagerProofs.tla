-------------------------- MODULE BlockManagerProofs --------------------------
(***************************************************************************)
(* Proofs about BlockManager, for every region, every width and number of  *)
(* size classes and every number of blocks: the pointers of the list of    *)
(* blocks and of the free lists stay right through any splitting and       *)
(* merging.                                                                *)
(***************************************************************************)
EXTENDS BlockManager, FiniteSetTheorems, WellFoundedInduction, TLAPS

(***************************************************************************)
(* The smallest of a set of naturals.  The intervals below its members are *)
(* finite sets, and strict inclusion of finite sets is well founded.       *)
(***************************************************************************)
LEMMA SmallestExists ==
    ASSUME NEW T, T \subseteq Nat, T # {}
    PROVE  /\ SmallestOf(T) \in T
           /\ \A l \in T : SmallestOf(T) <= l
<1> DEFINE D == {0 .. n : n \in T}
<1>1. D \subseteq FiniteSubsetsOf(Nat)
    <2> SUFFICES ASSUME NEW n \in T PROVE 0 .. n \in FiniteSubsetsOf(Nat)
        OBVIOUS
    <2>1. IsFiniteSet(0 .. n)
        BY FS_Interval
    <2> QED
        BY <2>1 DEF FiniteSubsetsOf
<1>2. D # {}
    OBVIOUS
<1>3. PICK d \in D : \A e \in D : <<e, d>> \notin StrictSubsetOrdering(Nat)
    <2> HIDE DEF D
    <2> QED
        BY <1>1, <1>2, FS_StrictSubsetOrderingWellFounded, WFMin
<1>4. PICK x \in T : d = 0 .. x
    OBVIOUS
<1>5. ASSUME NEW y \in T PROVE x <= y
    <2> SUFFICES ASSUME y < x PROVE FALSE
        OBVIOUS
    <2>1. /\ 0 .. y \subseteq 0 .. x
          /\ 0 .. y # 0 .. x
        OBVIOUS
    <2>2. 0 .. y \in SUBSET Nat /\ 0 .. x \in SUBSET Nat
        OBVIOUS
    <2>3. <<0 .. y, 0 .. x>> \in StrictSubsetOrdering(Nat)
        BY <2>1, <2>2 DEF StrictSubsetOrdering
    <2> QED
        BY <2>3, <1>3, <1>4
<1> QED
    BY <1>5 DEF SmallestOf

LEMMA IndexIsAList ==
    ASSUME NEW n \in Nat
    PROVE  GetFreeListIndex(n) \in Lists
<1> DEFINE T == {Classes - 1} \cup {k \in Lists : n <= (k + 1) * ClassLbas}
<1>1. T \subseteq Lists /\ T # {} /\ Lists \subseteq Nat
    BY BlockAssumption DEF Lists
<1>2. SmallestOf(T) \in T
    <2> HIDE DEF T
    <2> QED
        BY <1>1, SmallestExists
<1> QED
    BY <1>1, <1>2 DEF GetFreeListIndex

\* A region that does not fit in the classes before the last is in the last.
LEMMA LastClass ==
    ASSUME NEW n \in Nat, n > (Classes - 1) * ClassLbas
    PROVE  GetFreeListIndex(n) = Classes - 1
<1> DEFINE T == {Classes - 1} \cup {k \in Lists : n <= (k + 1) * ClassLbas}
<1>1. ASSUME NEW k \in Lists, n <= (k + 1) * ClassLbas PROVE k = Classes - 1
    <2> SUFFICES ASSUME k + 1 <= Classes - 1 PROVE FALSE
        BY BlockAssumption DEF Lists
    <2>1. (k + 1) * ClassLbas <= (Classes - 1) * ClassLbas
        <3>1. \A i, j, w \in Nat : i <= j => i * w <= j * w
            OBVIOUS
        <3> QED
            BY <3>1, BlockAssumption DEF Lists
    <2> QED
        BY <2>1, <1>1, BlockAssumption DEF Lists
<1>2. T = {Classes - 1}
    BY <1>1
<1> QED
    BY <1>2, BlockAssumption DEF GetFreeListIndex, SmallestOf

-----------------------------------------------------------------------------
(***************************************************************************)
(* The free lists.  F is the set of the blocks that are on one, and list   *)
(* says on which: in both directions each block points to a block of its   *)
(* list or to none, what is on no list points nowhere, and a block is      *)
(* reached from the head of its list.                                      *)
(***************************************************************************)
Linked(next, previous, heads, list, F) ==
    /\ \A k \in Lists : heads[k] # Null =>
        heads[k] \in F /\ list[heads[k]] = k /\ previous[heads[k]] = Null
    /\ \A b \in F : next[b] # Null =>
        next[b] \in F /\ list[next[b]] = list[b] /\ previous[next[b]] = b
    /\ \A b \in F : previous[b] # Null => previous[b] \in F /\ next[previous[b]] = b
    /\ \A b \in F : previous[b] = Null => heads[list[b]] = b
    /\ \A b \in Addresses \ F : next[b] = Null /\ previous[b] = Null

Closed(next, S) == \A x \in S : next[x] # Null => next[x] \in S

Reached(next, heads, list, F) ==
    \A S \in SUBSET Addresses, k \in Lists :
        Closed(next, S) /\ heads[k] \in S \cup {Null} => \A b \in F : list[b] = k => b \in S

\* Pushing a block that is on no list.
LEMMA PushLinks ==
    ASSUME NEW next \in [Addresses -> Pointer], NEW previous \in [Addresses -> Pointer],
           NEW heads \in [Lists -> Pointer], NEW list \in [Addresses -> Lists],
           NEW F \in SUBSET Addresses, NEW b \in Addresses \ F, NEW k \in Lists,
           Linked(next, previous, heads, list, F), Reached(next, heads, list, F)
    PROVE  LET next2 == [next EXCEPT ![b] = heads[k]]
               previous2 == Assign(previous, heads[k], b)
               heads2 == [heads EXCEPT ![k] = b]
               list2 == [list EXCEPT ![b] = k]
           IN  /\ Linked(next2, previous2, heads2, list2, F \cup {b})
               /\ Reached(next2, heads2, list2, F \cup {b})
<1> DEFINE next2 == [next EXCEPT ![b] = heads[k]]
           previous2 == Assign(previous, heads[k], b)
           heads2 == [heads EXCEPT ![k] = b]
           list2 == [list EXCEPT ![b] = k]
<1>1. \A x \in Addresses :
        /\ next2[x] = IF x = b THEN heads[k] ELSE next[x]
        /\ previous2[x] = IF heads[k] # Null /\ x = heads[k] THEN b ELSE previous[x]
        /\ list2[x] = IF x = b THEN k ELSE list[x]
    BY DEF Assign
<1>2. \A l \in Lists : heads2[l] = IF l = k THEN b ELSE heads[l]
    OBVIOUS
<1>3. Null \notin Addresses
    BY BlockAssumption
<1> HIDE DEF next2, previous2, heads2, list2
<1>4. Linked(next2, previous2, heads2, list2, F \cup {b})
    <2>1. \A l \in Lists : heads2[l] # Null =>
            /\ heads2[l] \in F \cup {b}
            /\ list2[heads2[l]] = l
            /\ previous2[heads2[l]] = Null
        BY <1>1, <1>2, <1>3 DEF Linked, Pointer
    <2>2. \A x \in F \cup {b} : next2[x] # Null =>
            next2[x] \in F \cup {b} /\ list2[next2[x]] = list2[x] /\ previous2[next2[x]] = x
        BY <1>1, <1>2, <1>3 DEF Linked, Pointer
    <2>3. \A x \in F \cup {b} : previous2[x] # Null =>
            previous2[x] \in F \cup {b} /\ next2[previous2[x]] = x
        BY <1>1, <1>2, <1>3 DEF Linked, Pointer
    <2>4. \A x \in F \cup {b} : previous2[x] = Null => heads2[list2[x]] = x
        BY <1>1, <1>2, <1>3 DEF Linked, Pointer
    <2>5. \A x \in Addresses \ (F \cup {b}) : next2[x] = Null /\ previous2[x] = Null
        BY <1>1, <1>2, <1>3 DEF Linked, Pointer
    <2> QED
        BY <2>1, <2>2, <2>3, <2>4, <2>5 DEF Linked
<1>5. Reached(next2, heads2, list2, F \cup {b})
    <2> SUFFICES ASSUME NEW S \in SUBSET Addresses, NEW l \in Lists,
                        Closed(next2, S), heads2[l] \in S \cup {Null},
                        NEW x \in F \cup {b}, list2[x] = l
                 PROVE  x \in S
        BY DEF Reached
    <2>1. CASE x = b
        BY <2>1, <1>1, <1>2, <1>3
    <2>2. CASE x # b
        <3>1. Closed(next, S \ {b})
            BY <1>1, <1>3 DEF Closed, Linked
        <3>2. heads[l] \in (S \ {b}) \cup {Null}
            BY <1>1, <1>2, <1>3 DEF Closed, Linked, Pointer
        <3> QED
            BY <3>1, <3>2, <2>2, <1>1 DEF Reached
    <2> QED
        BY <2>1, <2>2
<1> QED
    BY <1>4, <1>5 DEF next2, previous2, heads2, list2

\* What is reached from a head is not on a loop.
LEMMA NoLoops ==
    ASSUME NEW next \in [Addresses -> Pointer], NEW previous \in [Addresses -> Pointer],
           NEW heads \in [Lists -> Pointer], NEW list \in [Addresses -> Lists],
           NEW F \in SUBSET Addresses, NEW b \in F,
           Linked(next, previous, heads, list, F), Reached(next, heads, list, F)
    PROVE  /\ next[b] # b /\ previous[b] # b
           /\ next[b] # Null => next[b] # previous[b]
<1>1. Null \notin Addresses
    BY BlockAssumption
<1>2. next[b] # b
    <2> SUFFICES ASSUME next[b] = b PROVE FALSE
        OBVIOUS
    <2>1. Closed(next, Addresses \ {b})
        BY <1>1 DEF Closed, Linked, Pointer
    <2>2. heads[list[b]] \in (Addresses \ {b}) \cup {Null}
        BY <1>1 DEF Linked, Pointer
    <2> QED
        BY <2>1, <2>2 DEF Reached
<1>3. previous[b] # b
    BY <1>1, <1>2 DEF Linked
<1>4. ASSUME next[b] # Null PROVE next[b] # previous[b]
    <2> SUFFICES ASSUME next[b] = previous[b] PROVE FALSE
        OBVIOUS
    <2> DEFINE S == Addresses \ {b, next[b]}
    <2>1. Closed(next, S)
        BY <1>1, <1>4 DEF Closed, Linked, Pointer
    <2>2. heads[list[b]] \in S \cup {Null}
        BY <1>1, <1>4 DEF Linked, Pointer
    <2>3. b \notin S
        OBVIOUS
    <2> QED
        BY <2>1, <2>2, <2>3 DEF Reached
<1> QED
    BY <1>2, <1>3, <1>4

\* Taking a block out of its list, wherever it is.
LEMMA RemoveLinks ==
    ASSUME NEW next \in [Addresses -> Pointer], NEW previous \in [Addresses -> Pointer],
           NEW heads \in [Lists -> Pointer], NEW list \in [Addresses -> Lists],
           NEW F \in SUBSET Addresses, NEW b \in F, NEW k \in Lists, k = list[b],
           Linked(next, previous, heads, list, F), Reached(next, heads, list, F)
    PROVE  LET next2 == [Assign(next, previous[b], next[b]) EXCEPT ![b] = Null]
               previous2 == [Assign(previous, next[b], previous[b]) EXCEPT ![b] = Null]
               heads2 == [heads EXCEPT ![k] = IF previous[b] = Null THEN next[b] ELSE @]
           IN  /\ Linked(next2, previous2, heads2, list, F \ {b})
               /\ Reached(next2, heads2, list, F \ {b})
<1> DEFINE next2 == [Assign(next, previous[b], next[b]) EXCEPT ![b] = Null]
           previous2 == [Assign(previous, next[b], previous[b]) EXCEPT ![b] = Null]
           heads2 == [heads EXCEPT ![k] = IF previous[b] = Null THEN next[b] ELSE @]
           after == next[b]
           before == previous[b]
<1>1. \A x \in Addresses :
        /\ next2[x] = IF x = b THEN Null
                      ELSE IF before # Null /\ x = before THEN after ELSE next[x]
        /\ previous2[x] = IF x = b THEN Null
                          ELSE IF after # Null /\ x = after THEN before ELSE previous[x]
    BY DEF Assign
<1>2. \A l \in Lists :
        heads2[l] = IF l = k /\ before = Null THEN after ELSE heads[l]
    OBVIOUS
<1>3. Null \notin Addresses
    BY BlockAssumption
<1>4. /\ after # b /\ before # b
      /\ after # Null => after # before
    BY NoLoops
<1>5. \A x \in Addresses : list[x] \in Lists
    OBVIOUS
<1> HIDE DEF next2, previous2, heads2
<1>6. Linked(next2, previous2, heads2, list, F \ {b})
    <2>1. \A l \in Lists : heads2[l] # Null =>
            heads2[l] \in F \ {b} /\ list[heads2[l]] = l /\ previous2[heads2[l]] = Null
        BY <1>1, <1>2, <1>3, <1>4 DEF Linked, Pointer
    <2>2. \A x \in F \ {b} : next2[x] # Null =>
            next2[x] \in F \ {b} /\ list[next2[x]] = list[x] /\ previous2[next2[x]] = x
        BY <1>1, <1>3, <1>4 DEF Linked, Pointer
    <2>3. \A x \in F \ {b} : previous2[x] # Null =>
            previous2[x] \in F \ {b} /\ next2[previous2[x]] = x
        BY <1>1, <1>3, <1>4 DEF Linked, Pointer
    <2>4. \A x \in F \ {b} : previous2[x] = Null => heads2[list[x]] = x
        BY <1>1, <1>2, <1>3, <1>4, <1>5 DEF Linked, Pointer
    <2>5. \A x \in Addresses \ (F \ {b}) : next2[x] = Null /\ previous2[x] = Null
        BY <1>1, <1>3, <1>4 DEF Linked, Pointer
    <2> QED
        BY <2>1, <2>2, <2>3, <2>4, <2>5 DEF Linked
<1>7. Reached(next2, heads2, list, F \ {b})
    <2> SUFFICES ASSUME NEW S \in SUBSET Addresses, NEW l \in Lists,
                        Closed(next2, S), heads2[l] \in S \cup {Null},
                        NEW x \in F \ {b}, list[x] = l
                 PROVE  x \in S
        BY DEF Reached
    <2>1. CASE l # k
        <3>1. Closed(next, S \ {y \in F : list[y] = k})
            BY <2>1, <1>1, <1>3, <1>4 DEF Closed, Linked, Pointer
        <3>2. heads[l] \in (S \ {y \in F : list[y] = k}) \cup {Null}
            BY <2>1, <1>2, <1>3 DEF Linked, Pointer
        <3> QED
            BY <3>1, <3>2, <2>1 DEF Reached
    <2>2. CASE l = k /\ before \in S \cup {Null}
        <3>1. Closed(next, S \cup {b})
            BY <2>2, <1>1, <1>2, <1>3, <1>4 DEF Closed, Linked, Pointer
        <3>2. heads[l] \in (S \cup {b}) \cup {Null}
            BY <2>2, <1>2, <1>3 DEF Linked, Pointer
        <3> QED
            BY <3>1, <3>2, <2>2 DEF Reached
    <2>3. CASE l = k /\ before \notin S \cup {Null}
        <3>1. Closed(next, S \ {b})
            BY <2>3, <1>1, <1>3, <1>4 DEF Closed, Linked, Pointer
        <3>2. heads[l] \in (S \ {b}) \cup {Null}
            BY <2>3, <1>2, <1>3 DEF Linked, Pointer
        <3> QED
            BY <3>1, <3>2, <2>3 DEF Reached
    <2> QED
        BY <2>1, <2>2, <2>3
<1> QED
    BY <1>6, <1>7 DEF next2, previous2, heads2

-----------------------------------------------------------------------------
(***************************************************************************)
(* The list of blocks.  That no two blocks overlap and that every LBA is   *)
(* in one does not follow from the pointers step by step: they are carried *)
(* along, and so is that no block leaves the region.                       *)
(***************************************************************************)
Chained(live, start, count, next, previous, head) ==
    /\ head \in live
    /\ start[head] = RegionStart
    /\ previous[head] = Null
    /\ \A b \in live : count[b] > 0
    /\ \A b \in live : next[b] = Null => start[b] + count[b] = RegionEnd
    /\ \A b \in live : next[b] # Null =>
        /\ next[b] \in live
        /\ previous[next[b]] = b
        /\ start[next[b]] = start[b] + count[b]
    /\ \A b \in live : previous[b] = Null => b = head
    /\ \A b \in live : previous[b] # Null =>
        previous[b] \in live /\ next[previous[b]] = b

Apart(live, start, count) ==
    \A b, c \in live : b # c =>
        start[b] + count[b] <= start[c] \/ start[c] + count[c] <= start[b]

Covered(live, start, count) ==
    \A l \in RegionStart .. RegionEnd - 1 :
        \E b \in live : start[b] <= l /\ l < start[b] + count[b]

Inside(live, start, count) ==
    \A b \in live : RegionStart <= start[b] /\ start[b] + count[b] <= RegionEnd

Tiles(live, start, count, next, previous, head) ==
    /\ Chained(live, start, count, next, previous, head)
    /\ Apart(live, start, count)
    /\ Inside(live, start, count)
    /\ Covered(live, start, count)

-----------------------------------------------------------------------------
(***************************************************************************)
(* The manager.  F is the set of the blocks on free lists: all free blocks *)
(* between two calls, and without the block that is being freed within     *)
(* one.  The constructor puts the whole region in the last list, whatever  *)
(* its size: only that block may be on another list than that of its size. *)
(***************************************************************************)
SmallRegion == RegionLbas <= (Classes - 1) * ClassLbas

Placed(live, count, list, F) ==
    \A b \in F : list[b] = GetFreeListIndex(count[b]) \/ (live = {b} /\ SmallRegion)

OnLists(m, list, F) ==
    /\ list \in [Addresses -> Lists]
    /\ F \in SUBSET Addresses
    /\ Linked(m.next_free_block, m.previous_free_block, m.blocks_free, list, F)
    /\ Reached(m.next_free_block, m.blocks_free, list, F)

Tiled(m) ==
    Tiles(m.live, m.start_lba, m.lba_count, m.next_block, m.previous_block, m.blocks)

Sound(m, list, F) ==
    /\ m \in Manager
    /\ OnLists(m, list, F)
    /\ F \subseteq m.live
    /\ \A b \in Addresses \ m.live : ~m.is_free[b]
    /\ Tiled(m)
    /\ Placed(m.live, m.lba_count, list, F)

\* Two managers with the same blocks, which may be on different free lists.
SameBlocks(m, n) ==
    /\ n.live = m.live
    /\ n.start_lba = m.start_lba
    /\ n.lba_count = m.lba_count
    /\ n.next_block = m.next_block
    /\ n.previous_block = m.previous_block
    /\ n.blocks = m.blocks

LEMMA PushOnLists ==
    ASSUME NEW m \in Manager, NEW list, NEW F, OnLists(m, list, F),
           NEW b \in Addresses \ F
    PROVE  LET n == PushFreeBlock(m, b)
               k == GetFreeListIndex(m.lba_count[b])
           IN  /\ n \in Manager
               /\ k \in Lists
               /\ OnLists(n, [list EXCEPT ![b] = k], F \cup {b})
               /\ SameBlocks(m, n)
               /\ n.is_free = m.is_free
<1> DEFINE n == PushFreeBlock(m, b)
           k == GetFreeListIndex(m.lba_count[b])
           next2 == [m.next_free_block EXCEPT ![b] = m.blocks_free[k]]
           previous2 == Assign(m.previous_free_block, m.blocks_free[k], b)
           heads2 == [m.blocks_free EXCEPT ![k] = b]
           list2 == [list EXCEPT ![b] = k]
<1>1. k \in Lists
    <2>1. m.lba_count[b] \in Nat
        BY DEF Manager
    <2> QED
        BY <2>1, IndexIsAList
<1> HIDE DEF k
<1>2. n = [m EXCEPT !.previous_free_block = previous2,
                    !.next_free_block = next2,
                    !.blocks_free = heads2]
    BY DEF PushFreeBlock, k
<1>3. /\ m.next_free_block \in [Addresses -> Pointer]
      /\ m.previous_free_block \in [Addresses -> Pointer]
      /\ m.blocks_free \in [Lists -> Pointer]
    BY DEF Manager
<1>4. /\ next2 \in [Addresses -> Pointer]
      /\ previous2 \in [Addresses -> Pointer]
      /\ heads2 \in [Lists -> Pointer]
    BY <1>1, <1>3 DEF Assign, Pointer
<1>5. /\ Linked(next2, previous2, heads2, list2, F \cup {b})
      /\ Reached(next2, heads2, list2, F \cup {b})
    BY <1>1, <1>3, PushLinks DEF OnLists
<1> HIDE DEF n, next2, previous2, heads2
<1>6. /\ n \in Manager
      /\ n.next_free_block = next2
      /\ n.previous_free_block = previous2
      /\ n.blocks_free = heads2
      /\ SameBlocks(m, n)
      /\ n.is_free = m.is_free
    BY <1>2, <1>4 DEF Manager, SameBlocks
<1>7. OnLists(n, list2, F \cup {b})
    BY <1>1, <1>5, <1>6 DEF OnLists
<1> QED
    BY <1>1, <1>6, <1>7 DEF n, k

LEMMA RemoveOnLists ==
    ASSUME NEW m \in Manager, NEW list, NEW F, OnLists(m, list, F),
           NEW b \in F, list[b] = GetFreeListIndex(m.lba_count[b])
    PROVE  LET n == RemoveFreeBlock(m, b)
           IN  /\ n \in Manager
               /\ OnLists(n, list, F \ {b})
               /\ SameBlocks(m, n)
               /\ n.is_free = m.is_free
<1> DEFINE n == RemoveFreeBlock(m, b)
           k == GetFreeListIndex(m.lba_count[b])
           after == m.next_free_block[b]
           before == m.previous_free_block[b]
           next2 == [Assign(m.next_free_block, before, after) EXCEPT ![b] = Null]
           previous2 == [Assign(m.previous_free_block, after, before) EXCEPT ![b] = Null]
           heads2 == [m.blocks_free EXCEPT ![k] = IF before = Null THEN after ELSE @]
<1>1. k \in Lists /\ b \in Addresses
    BY DEF OnLists
<1> HIDE DEF k
<1>2. n = [m EXCEPT !.previous_free_block = previous2,
                    !.next_free_block = next2,
                    !.blocks_free = heads2]
    BY DEF RemoveFreeBlock, k
<1>3. /\ m.next_free_block \in [Addresses -> Pointer]
      /\ m.previous_free_block \in [Addresses -> Pointer]
      /\ m.blocks_free \in [Lists -> Pointer]
    BY DEF Manager
<1>4. /\ next2 \in [Addresses -> Pointer]
      /\ previous2 \in [Addresses -> Pointer]
      /\ heads2 \in [Lists -> Pointer]
    BY <1>1, <1>3 DEF Assign, Pointer
<1>5. /\ Linked(next2, previous2, heads2, list, F \ {b})
      /\ Reached(next2, heads2, list, F \ {b})
    BY <1>1, <1>3, RemoveLinks DEF OnLists, k
<1> HIDE DEF n, next2, previous2, heads2
<1>6. /\ n \in Manager
      /\ n.next_free_block = next2
      /\ n.previous_free_block = previous2
      /\ n.blocks_free = heads2
      /\ SameBlocks(m, n)
      /\ n.is_free = m.is_free
    BY <1>2, <1>4 DEF Manager, SameBlocks
<1>7. OnLists(n, list, F \ {b})
    BY <1>5, <1>6 DEF OnLists
<1> QED
    BY <1>6, <1>7 DEF n

\* The head of a list is taken out as any other block of it is.
LEMMA PopOnLists ==
    ASSUME NEW m \in Manager, NEW list, NEW F, OnLists(m, list, F),
           NEW k \in Lists, m.blocks_free[k] # Null
    PROVE  LET b == m.blocks_free[k]
               n == PopFreeBlock(m, k)
           IN  /\ b \in F
               /\ list[b] = k
               /\ n \in Manager
               /\ OnLists(n, list, F \ {b})
               /\ SameBlocks(m, n)
               /\ n.is_free = [m.is_free EXCEPT ![b] = FALSE]
<1> DEFINE b == m.blocks_free[k]
           n == PopFreeBlock(m, k)
           after == m.next_free_block[b]
           next2 == [m.next_free_block EXCEPT ![b] = Null]
           previous2 == Assign([m.previous_free_block EXCEPT ![b] = Null], after, Null)
           heads2 == [m.blocks_free EXCEPT ![k] = after]
           free2 == [m.is_free EXCEPT ![b] = FALSE]
<1>1. b \in F /\ b \in Addresses /\ list[b] = k /\ m.previous_free_block[b] = Null
    BY DEF OnLists, Linked
<1>2. /\ m.next_free_block \in [Addresses -> Pointer]
      /\ m.previous_free_block \in [Addresses -> Pointer]
      /\ m.blocks_free \in [Lists -> Pointer]
      /\ m.is_free \in [Addresses -> BOOLEAN]
    BY DEF Manager
<1>3. after # b
    BY <1>1, <1>2, NoLoops DEF OnLists
<1>4. /\ next2 = [Assign(m.next_free_block, m.previous_free_block[b], after) EXCEPT ![b] = Null]
      /\ previous2 = [Assign(m.previous_free_block, after, m.previous_free_block[b])
                        EXCEPT ![b] = Null]
      /\ heads2 = [m.blocks_free EXCEPT
                        ![k] = IF m.previous_free_block[b] = Null THEN after ELSE @]
    BY <1>1, <1>2, <1>3 DEF Assign
<1>5. /\ next2 \in [Addresses -> Pointer]
      /\ previous2 \in [Addresses -> Pointer]
      /\ heads2 \in [Lists -> Pointer]
      /\ free2 \in [Addresses -> BOOLEAN]
    BY <1>1, <1>2 DEF Assign, Pointer
<1>6. /\ Linked(next2, previous2, heads2, list, F \ {b})
      /\ Reached(next2, heads2, list, F \ {b})
    <2> HIDE DEF next2, previous2, heads2, b
    <2> QED
        BY <1>1, <1>2, <1>4, RemoveLinks DEF OnLists
<1>7. n = [m EXCEPT !.blocks_free = heads2,
                    !.is_free = free2,
                    !.next_free_block = next2,
                    !.previous_free_block = previous2]
    BY DEF PopFreeBlock
<1> HIDE DEF n, next2, previous2, heads2, free2
<1>8. /\ n \in Manager
      /\ n.next_free_block = next2
      /\ n.previous_free_block = previous2
      /\ n.blocks_free = heads2
      /\ SameBlocks(m, n)
      /\ n.is_free = free2
    BY <1>5, <1>7 DEF Manager, SameBlocks
<1>9. OnLists(n, list, F \ {b})
    BY <1>6, <1>8 DEF OnLists
<1> QED
    BY <1>1, <1>8, <1>9 DEF n, free2

-----------------------------------------------------------------------------
(***************************************************************************)
(* Splitting and merging, field by field.                                  *)
(***************************************************************************)
\* SplitBlock before it pushes what is left of b.
Divided(m, b, n, new) ==
    LET first == m.start_lba[b] = RegionStart
        left == m.previous_block[b]
    IN  [m EXCEPT
            !.live = @ \cup {new},
            !.start_lba = [@ EXCEPT ![new] = m.start_lba[b], ![b] = m.start_lba[b] + n],
            !.lba_count = [@ EXCEPT ![new] = n, ![b] = m.lba_count[b] - n],
            !.is_free[b] = TRUE,
            !.next_block = IF first THEN [@ EXCEPT ![new] = m.blocks]
                           ELSE [@ EXCEPT ![new] = m.next_block[left], ![left] = new],
            !.previous_block = [@ EXCEPT ![new] = IF first THEN Null ELSE left, ![b] = new],
            !.blocks = IF first THEN new ELSE @]

DividedFields(m, b, n, new, d) ==
    /\ d.live = m.live \cup {new}
    /\ d.blocks = IF m.previous_block[b] = Null THEN new ELSE m.blocks
    /\ d.is_free = [m.is_free EXCEPT ![b] = TRUE]
    /\ \A x \in Addresses :
        /\ d.start_lba[x] = IF x = new THEN m.start_lba[b]
                            ELSE IF x = b THEN m.start_lba[b] + n ELSE m.start_lba[x]
        /\ d.lba_count[x] = IF x = new THEN n
                            ELSE IF x = b THEN m.lba_count[b] - n ELSE m.lba_count[x]
        /\ d.next_block[x] = IF x = new THEN b
                             ELSE IF x = m.previous_block[b] THEN new ELSE m.next_block[x]
        /\ d.previous_block[x] = IF x = new THEN m.previous_block[b]
                                 ELSE IF x = b THEN new ELSE m.previous_block[x]

\* MergeLeft and MergeRight, on the blocks that are left.
LeftFields(m, b, n) ==
    LET left == m.previous_block[b]
    IN  /\ n.live = m.live \ {left}
        /\ n.blocks = IF m.previous_block[left] = Null THEN b ELSE m.blocks
        /\ n.is_free = [m.is_free EXCEPT ![left] = FALSE]
        /\ \A x \in m.live \ {left} :
            /\ n.start_lba[x] = IF x = b THEN m.start_lba[left] ELSE m.start_lba[x]
            /\ n.lba_count[x] = IF x = b THEN m.lba_count[b] + m.lba_count[left]
                                ELSE m.lba_count[x]
            /\ n.next_block[x] = IF x = m.previous_block[left] THEN b ELSE m.next_block[x]
            /\ n.previous_block[x] = IF x = b THEN m.previous_block[left]
                                     ELSE m.previous_block[x]

RightFields(m, b, n) ==
    LET right == m.next_block[b]
    IN  /\ n.live = m.live \ {right}
        /\ n.blocks = m.blocks
        /\ n.is_free = [m.is_free EXCEPT ![right] = FALSE]
        /\ \A x \in m.live \ {right} :
            /\ n.start_lba[x] = m.start_lba[x]
            /\ n.lba_count[x] = IF x = b THEN m.lba_count[b] + m.lba_count[right]
                                ELSE m.lba_count[x]
            /\ n.next_block[x] = IF x = b THEN m.next_block[right] ELSE m.next_block[x]
            /\ n.previous_block[x] = IF x = m.next_block[right] THEN b
                                     ELSE m.previous_block[x]

\* A block becomes two: new in front, b behind it.
LEMMA SplitTiles ==
    ASSUME NEW m \in Manager, Tiled(m), NEW b \in m.live, NEW new \in Addresses \ m.live,
           NEW n \in Nat \ {0}, n < m.lba_count[b], NEW s, DividedFields(m, b, n, new, s)
    PROVE  Tiled(s)
<1> DEFINE live == m.live
           start == m.start_lba
           count == m.lba_count
           next == m.next_block
           previous == m.previous_block
           head == m.blocks
           start2 == s.start_lba
           count2 == s.lba_count
           next2 == s.next_block
           previous2 == s.previous_block
           head2 == s.blocks
<1>0. /\ b \in live /\ new \in Addresses \ live /\ n < count[b]
      /\ live \in SUBSET Addresses
      /\ start \in [Addresses -> Nat] /\ count \in [Addresses -> Nat]
      /\ next \in [Addresses -> Pointer] /\ previous \in [Addresses -> Pointer]
      /\ head \in Pointer
      /\ Tiles(live, start, count, next, previous, head)
      /\ \A x \in Addresses :
            /\ start2[x] = IF x = new THEN start[b]
                           ELSE IF x = b THEN start[b] + n ELSE start[x]
            /\ count2[x] = IF x = new THEN n ELSE IF x = b THEN count[b] - n ELSE count[x]
            /\ next2[x] = IF x = new THEN b ELSE IF x = previous[b] THEN new ELSE next[x]
            /\ previous2[x] = IF x = new THEN previous[b]
                              ELSE IF x = b THEN new ELSE previous[x]
      /\ head2 = IF previous[b] = Null THEN new ELSE head
      /\ s.live = live \cup {new}
    BY DEF Manager, Tiled, DividedFields
<1> HIDE DEF live, start, count, next, previous, head, start2, count2, next2, previous2, head2
<1>1. Null \notin Addresses /\ RegionStart \in Nat
    BY <1>0, BlockAssumption
<1>2. \A x \in Addresses : start[x] \in Nat /\ count[x] \in Nat
    BY <1>0
<1>3. previous[b] # b
    <2> SUFFICES ASSUME previous[b] = b PROVE FALSE
        BY <1>0
    <2>1. start[b] = start[b] + count[b] /\ count[b] > 0
        BY <1>0, <1>1 DEF Tiles, Chained
    <2> QED
        BY <1>0, <2>1, <1>2
<1>4. Chained(live \cup {new}, start2, count2, next2, previous2, head2)
    <2>1. /\ head2 \in live \cup {new}
          /\ start2[head2] = RegionStart
          /\ previous2[head2] = Null
        BY <1>0, <1>1, <1>2, <1>3 DEF Tiles, Chained
    <2>2. \A x \in live \cup {new} : count2[x] > 0
        BY <1>0, <1>2 DEF Tiles, Chained
    <2>3. \A x \in live \cup {new} : next2[x] = Null => start2[x] + count2[x] = RegionEnd
        BY <1>0, <1>1, <1>2, <1>3 DEF Tiles, Chained
    <2>4. \A x \in live \cup {new} : next2[x] # Null =>
            /\ next2[x] \in live \cup {new}
            /\ previous2[next2[x]] = x
            /\ start2[next2[x]] = start2[x] + count2[x]
        BY <1>0, <1>1, <1>2, <1>3 DEF Tiles, Chained
    <2>5. \A x \in live \cup {new} : previous2[x] = Null => x = head2
        BY <1>0, <1>1, <1>3 DEF Tiles, Chained
    <2>6. \A x \in live \cup {new} : previous2[x] # Null =>
            previous2[x] \in live \cup {new} /\ next2[previous2[x]] = x
        BY <1>0, <1>1, <1>3 DEF Tiles, Chained
    <2> QED
        BY <1>0, <2>1, <2>2, <2>3, <2>4, <2>5, <2>6 DEF Chained
<1>5. Apart(live \cup {new}, start2, count2)
    BY <1>0, <1>2 DEF Tiles, Chained, Apart
<1>6. Covered(live \cup {new}, start2, count2)
    <2> SUFFICES ASSUME NEW l \in RegionStart .. RegionEnd - 1
                 PROVE  \E x \in live \cup {new} : start2[x] <= l /\ l < start2[x] + count2[x]
        BY <1>0 DEF Covered
    <2>1. PICK x \in live : start[x] <= l /\ l < start[x] + count[x]
        BY <1>0 DEF Tiles, Covered
    <2>2. l \in Int
        BY <1>0, BlockAssumption DEF RegionEnd
    <2>3. CASE x = b /\ l < start[b] + n
        BY <1>0, <2>1, <2>2, <2>3, <1>2
    <2>4. CASE x = b /\ ~(l < start[b] + n)
        BY <1>0, <2>1, <2>2, <2>4, <1>2
    <2>5. CASE x # b
        BY <1>0, <2>1, <2>2, <2>5, <1>2
    <2> QED
        BY <1>0, <2>3, <2>4, <2>5
<1>7. Inside(live \cup {new}, start2, count2)
    <2> SUFFICES ASSUME NEW x \in live \cup {new}
                 PROVE  RegionStart <= start2[x] /\ start2[x] + count2[x] <= RegionEnd
        BY DEF Inside
    <2>1. /\ RegionEnd \in Int /\ start[b] \in Nat /\ count[b] \in Nat
          /\ RegionStart <= start[b] /\ start[b] + count[b] <= RegionEnd
        BY <1>0, <1>2, BlockAssumption DEF Tiles, Inside, RegionEnd
    <2>2. CASE x \in {b, new}
        BY <1>0, <1>1, <2>1, <2>2
    <2>3. CASE x \notin {b, new}
        BY <1>0, <2>3 DEF Tiles, Inside
    <2> QED
        BY <2>2, <2>3
<1> QED
    BY <1>0, <1>4, <1>5, <1>6, <1>7 DEF Tiles, Tiled, live, start, count, next, previous, head, start2, count2, next2, previous2, head2

\* A block takes in the one before it.
LEMMA MergeLeftTiles ==
    ASSUME NEW m \in Manager, Tiled(m), NEW b \in m.live, m.previous_block[b] \in m.live,
           NEW s, LeftFields(m, b, s)
    PROVE  Tiled(s)
<1> DEFINE live == m.live
           start == m.start_lba
           count == m.lba_count
           next == m.next_block
           previous == m.previous_block
           head == m.blocks
           start2 == s.start_lba
           count2 == s.lba_count
           next2 == s.next_block
           previous2 == s.previous_block
           head2 == s.blocks
           left == m.previous_block[b]
<1>0. /\ b \in live /\ left \in live /\ left = previous[b]
      /\ live \in SUBSET Addresses
      /\ start \in [Addresses -> Nat] /\ count \in [Addresses -> Nat]
      /\ next \in [Addresses -> Pointer] /\ previous \in [Addresses -> Pointer]
      /\ head \in Pointer
      /\ Tiles(live, start, count, next, previous, head)
      /\ \A x \in live \ {left} :
            /\ start2[x] = IF x = b THEN start[left] ELSE start[x]
            /\ count2[x] = IF x = b THEN count[b] + count[left] ELSE count[x]
            /\ next2[x] = IF x = previous[left] THEN b ELSE next[x]
            /\ previous2[x] = IF x = b THEN previous[left] ELSE previous[x]
      /\ head2 = IF previous[left] = Null THEN b ELSE head
      /\ s.live = live \ {left}
    BY DEF Manager, Tiled, LeftFields
<1> HIDE DEF live, start, count, next, previous, head, start2, count2, next2, previous2, head2, left
<1> DEFINE outer == previous[left]
<1>1. Null \notin Addresses /\ RegionStart \in Nat
    BY <1>0, BlockAssumption
<1>2. \A x \in live : start[x] \in Nat /\ count[x] \in Nat /\ count[x] > 0
    BY <1>0 DEF Tiles, Chained
<1>3. /\ next[left] = b /\ start[b] = start[left] + count[left] /\ left # b
      /\ outer # Null =>
            /\ outer \in live /\ next[outer] = left
            /\ start[left] = start[outer] + count[outer]
    <2>1. next[left] = b /\ start[b] = start[left] + count[left]
        BY <1>0, <1>1 DEF Tiles, Chained
    <2>2. outer # Null =>
            /\ outer \in live /\ next[outer] = left
            /\ start[left] = start[outer] + count[outer]
        BY <1>0, <1>1 DEF Tiles, Chained
    <2> QED
        BY <1>0, <2>1, <2>2, <1>2
<1>4. outer # b /\ outer # left
    BY <1>0, <1>1, <1>2, <1>3
<1>5. Chained(live \ {left}, start2, count2, next2, previous2, head2)
    <2>1. /\ head2 \in live \ {left}
          /\ start2[head2] = RegionStart
          /\ previous2[head2] = Null
        BY <1>0, <1>1, <1>2, <1>3, <1>4 DEF Tiles, Chained
    <2>2. \A x \in live \ {left} : count2[x] > 0
        BY <1>0, <1>2
    <2>3. \A x \in live \ {left} : next2[x] = Null => start2[x] + count2[x] = RegionEnd
        BY <1>0, <1>1, <1>2, <1>3, <1>4 DEF Tiles, Chained
    <2>4. \A x \in live \ {left} : next2[x] # Null =>
            /\ next2[x] \in live \ {left}
            /\ previous2[next2[x]] = x
            /\ start2[next2[x]] = start2[x] + count2[x]
        BY <1>0, <1>1, <1>2, <1>3, <1>4 DEF Tiles, Chained
    <2>5. \A x \in live \ {left} : previous2[x] = Null => x = head2
        BY <1>0, <1>1, <1>3, <1>4 DEF Tiles, Chained
    <2>6. \A x \in live \ {left} : previous2[x] # Null =>
            previous2[x] \in live \ {left} /\ next2[previous2[x]] = x
        BY <1>0, <1>1, <1>3, <1>4 DEF Tiles, Chained
    <2> QED
        BY <1>0, <2>1, <2>2, <2>3, <2>4, <2>5, <2>6 DEF Chained
<1>6. Apart(live \ {left}, start2, count2)
    BY <1>0, <1>2, <1>3 DEF Tiles, Apart
<1>7. Covered(live \ {left}, start2, count2)
    <2> SUFFICES ASSUME NEW l \in RegionStart .. RegionEnd - 1
                 PROVE  \E x \in live \ {left} : start2[x] <= l /\ l < start2[x] + count2[x]
        BY <1>0 DEF Covered
    <2>1. PICK x \in live : start[x] <= l /\ l < start[x] + count[x]
        BY <1>0 DEF Tiles, Covered
    <2>2. l \in Int
        BY <1>0, BlockAssumption DEF RegionEnd
    <2>3. CASE x \in {b, left}
        BY <1>0, <2>1, <2>2, <2>3, <1>2, <1>3
    <2>4. CASE x \notin {b, left}
        BY <1>0, <2>1, <2>2, <2>4, <1>2
    <2> QED
        BY <1>0, <2>3, <2>4
<1>8. Inside(live \ {left}, start2, count2)
    BY <1>0, <1>1, <1>2, <1>3 DEF Tiles, Inside, RegionEnd
<1> QED
    BY <1>0, <1>5, <1>6, <1>7, <1>8 DEF Tiles, Tiled, live, start, count, next, previous, head, start2, count2, next2, previous2, head2, left

\* A block takes in the one after it.
LEMMA MergeRightTiles ==
    ASSUME NEW m \in Manager, Tiled(m), NEW b \in m.live, m.next_block[b] \in m.live,
           NEW s, RightFields(m, b, s)
    PROVE  Tiled(s)
<1> DEFINE live == m.live
           start == m.start_lba
           count == m.lba_count
           next == m.next_block
           previous == m.previous_block
           head == m.blocks
           start2 == s.start_lba
           count2 == s.lba_count
           next2 == s.next_block
           previous2 == s.previous_block
           head2 == s.blocks
           right == m.next_block[b]
<1>0. /\ b \in live /\ right \in live /\ right = next[b]
      /\ live \in SUBSET Addresses
      /\ start \in [Addresses -> Nat] /\ count \in [Addresses -> Nat]
      /\ next \in [Addresses -> Pointer] /\ previous \in [Addresses -> Pointer]
      /\ head \in Pointer
      /\ Tiles(live, start, count, next, previous, head)
      /\ \A x \in live \ {right} :
            /\ start2[x] = start[x]
            /\ count2[x] = IF x = b THEN count[b] + count[right] ELSE count[x]
            /\ next2[x] = IF x = b THEN next[right] ELSE next[x]
            /\ previous2[x] = IF x = next[right] THEN b ELSE previous[x]
      /\ head2 = head
      /\ s.live = live \ {right}
    BY DEF Manager, Tiled, RightFields
<1> HIDE DEF live, start, count, next, previous, head, start2, count2, next2, previous2, head2, right
<1> DEFINE outer == next[right]
<1>1. Null \notin Addresses /\ RegionStart \in Nat
    BY <1>0, BlockAssumption
<1>2. \A x \in live : start[x] \in Nat /\ count[x] \in Nat /\ count[x] > 0
    BY <1>0 DEF Tiles, Chained
<1>3. /\ previous[right] = b /\ start[right] = start[b] + count[b] /\ right # b
      /\ outer # Null =>
            /\ outer \in live /\ previous[outer] = right
            /\ start[outer] = start[right] + count[right]
    <2>1. previous[right] = b /\ start[right] = start[b] + count[b]
        BY <1>0, <1>1 DEF Tiles, Chained
    <2>2. outer # Null =>
            /\ outer \in live /\ previous[outer] = right
            /\ start[outer] = start[right] + count[right]
        BY <1>0, <1>1 DEF Tiles, Chained
    <2> QED
        BY <1>0, <2>1, <2>2, <1>2
<1>4. outer # b /\ outer # right
    BY <1>0, <1>1, <1>2, <1>3
<1>5. Chained(live \ {right}, start2, count2, next2, previous2, head2)
    <2>1. /\ head \in live \ {right}
          /\ start2[head] = RegionStart
          /\ previous2[head] = Null
        BY <1>0, <1>1, <1>2, <1>3, <1>4 DEF Tiles, Chained
    <2>2. \A x \in live \ {right} : count2[x] > 0
        BY <1>0, <1>2
    <2>3. \A x \in live \ {right} : next2[x] = Null => start2[x] + count2[x] = RegionEnd
        BY <1>0, <1>1, <1>2, <1>3, <1>4 DEF Tiles, Chained
    <2>4. \A x \in live \ {right} : next2[x] # Null =>
            /\ next2[x] \in live \ {right}
            /\ previous2[next2[x]] = x
            /\ start2[next2[x]] = start2[x] + count2[x]
        BY <1>0, <1>1, <1>2, <1>3, <1>4 DEF Tiles, Chained
    <2>5. \A x \in live \ {right} : previous2[x] = Null => x = head
        BY <1>0, <1>1, <1>3, <1>4 DEF Tiles, Chained
    <2>6. \A x \in live \ {right} : previous2[x] # Null =>
            previous2[x] \in live \ {right} /\ next2[previous2[x]] = x
        BY <1>0, <1>1, <1>3, <1>4 DEF Tiles, Chained
    <2> QED
        BY <1>0, <2>1, <2>2, <2>3, <2>4, <2>5, <2>6 DEF Chained
<1>6. Apart(live \ {right}, start2, count2)
    BY <1>0, <1>2, <1>3 DEF Tiles, Apart
<1>7. Covered(live \ {right}, start2, count2)
    <2> SUFFICES ASSUME NEW l \in RegionStart .. RegionEnd - 1
                 PROVE  \E x \in live \ {right} : start2[x] <= l /\ l < start2[x] + count2[x]
        BY <1>0 DEF Covered
    <2>1. PICK x \in live : start[x] <= l /\ l < start[x] + count[x]
        BY <1>0 DEF Tiles, Covered
    <2>2. l \in Int
        BY <1>0, BlockAssumption DEF RegionEnd
    <2>3. CASE x \in {b, right}
        BY <1>0, <2>1, <2>2, <2>3, <1>2, <1>3
    <2>4. CASE x \notin {b, right}
        BY <1>0, <2>1, <2>2, <2>4, <1>2
    <2> QED
        BY <1>0, <2>3, <2>4
<1>8. Inside(live \ {right}, start2, count2)
    BY <1>0, <1>1, <1>2, <1>3 DEF Tiles, Inside, RegionEnd
<1> QED
    BY <1>0, <1>5, <1>6, <1>7, <1>8 DEF Tiles, Tiled, live, start, count, next, previous, head, start2, count2, next2, previous2, head2, right

\* Two managers with the same free lists.
SameLists(m, n) ==
    /\ n.next_free_block = m.next_free_block
    /\ n.previous_free_block = m.previous_free_block
    /\ n.blocks_free = m.blocks_free

\* The test on the start of the region recognises the first block.
LEMMA FirstBlockStartsRegion ==
    ASSUME NEW m \in Manager, Tiled(m), NEW b \in m.live
    PROVE  /\ (m.start_lba[b] = RegionStart) <=> (m.previous_block[b] = Null)
           /\ m.previous_block[b] = Null => b = m.blocks
<1>1. m.previous_block[b] = Null => b = m.blocks /\ m.start_lba[b] = RegionStart
    BY DEF Tiled, Tiles, Chained
<1>2. ASSUME m.start_lba[b] = RegionStart PROVE b = m.blocks
    <2>1. /\ m.blocks \in m.live
          /\ m.start_lba[m.blocks] = RegionStart
          /\ m.lba_count[b] > 0 /\ m.lba_count[m.blocks] > 0
        BY DEF Tiled, Tiles, Chained
    <2>2. b # m.blocks => \/ m.start_lba[b] + m.lba_count[b] <= m.start_lba[m.blocks]
                          \/ m.start_lba[m.blocks] + m.lba_count[m.blocks] <= m.start_lba[b]
        BY <2>1 DEF Tiled, Tiles, Apart
    <2>3. m.lba_count[b] \in Nat /\ m.lba_count[m.blocks] \in Nat
        BY <2>1 DEF Manager
    <2> QED
        BY <1>2, <2>1, <2>2, <2>3, BlockAssumption
<1>3. m.previous_block[m.blocks] = Null
    BY DEF Tiled, Tiles, Chained
<1> QED
    BY <1>1, <1>2, <1>3

LEMMA DividedHasFields ==
    ASSUME NEW m \in Manager, Tiled(m), NEW b \in m.live,
           NEW n \in Nat, n < m.lba_count[b], NEW new \in Addresses \ m.live
    PROVE  LET d == Divided(m, b, n, new)
           IN  /\ d \in Manager
               /\ DividedFields(m, b, n, new, d)
               /\ SameLists(m, d)
<1> DEFINE d == Divided(m, b, n, new)
           first == m.start_lba[b] = RegionStart
           left == m.previous_block[b]
           live2 == m.live \cup {new}
           start2 == [m.start_lba EXCEPT ![new] = m.start_lba[b], ![b] = m.start_lba[b] + n]
           count2 == [m.lba_count EXCEPT ![new] = n, ![b] = m.lba_count[b] - n]
           free2 == [m.is_free EXCEPT ![b] = TRUE]
           next2 == IF first THEN [m.next_block EXCEPT ![new] = m.blocks]
                    ELSE [m.next_block EXCEPT ![new] = m.next_block[left], ![left] = new]
           previous2 == [m.previous_block EXCEPT ![new] = IF first THEN Null ELSE left, ![b] = new]
           blocks2 == IF first THEN new ELSE m.blocks
<1>1. /\ m.live \in SUBSET Addresses
      /\ m.start_lba \in [Addresses -> Nat]
      /\ m.lba_count \in [Addresses -> Nat]
      /\ m.is_free \in [Addresses -> BOOLEAN]
      /\ m.next_block \in [Addresses -> Pointer]
      /\ m.previous_block \in [Addresses -> Pointer]
      /\ m.blocks \in Pointer
    BY DEF Manager
<1>2. b \in Addresses /\ b # new /\ Null \notin Addresses
    BY <1>1, BlockAssumption
<1>3. /\ first <=> left = Null
      /\ left = Null => b = m.blocks
    BY FirstBlockStartsRegion
<1>4. left # Null => left \in m.live /\ left \in Addresses /\ m.next_block[left] = b
    BY <1>1 DEF Tiled, Tiles, Chained
<1>5. /\ live2 \in SUBSET Addresses
      /\ start2 \in [Addresses -> Nat]
      /\ free2 \in [Addresses -> BOOLEAN]
      /\ previous2 \in [Addresses -> Pointer]
      /\ blocks2 \in Pointer
    BY <1>1, <1>2, <1>4 DEF Pointer
<1>6. count2 \in [Addresses -> Nat]
    BY <1>1, <1>2
<1>7. next2 \in [Addresses -> Pointer]
    BY <1>1, <1>2, <1>3, <1>4 DEF Pointer
<1>8. \A x \in Addresses :
        /\ start2[x] = IF x = new THEN m.start_lba[b]
                       ELSE IF x = b THEN m.start_lba[b] + n ELSE m.start_lba[x]
        /\ count2[x] = IF x = new THEN n
                       ELSE IF x = b THEN m.lba_count[b] - n ELSE m.lba_count[x]
        /\ previous2[x] = IF x = new THEN left ELSE IF x = b THEN new ELSE m.previous_block[x]
    BY <1>1, <1>2, <1>3
<1>9. \A x \in Addresses :
        next2[x] = IF x = new THEN b ELSE IF x = left THEN new ELSE m.next_block[x]
    BY <1>1, <1>2, <1>3, <1>4
<1>10. blocks2 = IF left = Null THEN new ELSE m.blocks
    BY <1>3
<1>11. d = [m EXCEPT !.live = live2, !.start_lba = start2, !.lba_count = count2,
                     !.is_free = free2, !.next_block = next2,
                     !.previous_block = previous2, !.blocks = blocks2]
    BY DEF Divided
<1> HIDE DEF d, live2, start2, count2, free2, next2, previous2, blocks2
<1>12. /\ d \in Manager
       /\ d.live = live2 /\ d.start_lba = start2 /\ d.lba_count = count2
       /\ d.is_free = free2 /\ d.next_block = next2
       /\ d.previous_block = previous2 /\ d.blocks = blocks2
       /\ SameLists(m, d)
    BY <1>5, <1>6, <1>7, <1>11 DEF Manager, SameLists
<1>13. DividedFields(m, b, n, new, d)
    BY <1>8, <1>9, <1>10, <1>12 DEF DividedFields, live2, free2
<1> QED
    BY <1>12, <1>13 DEF d

LEMMA SplitIsSound ==
    ASSUME NEW m, NEW list, NEW F, Sound(m, list, F), NEW b \in m.live \ F,
           NEW n \in Nat \ {0}, n < m.lba_count[b], NEW new \in Addresses \ m.live
    PROVE  LET s == SplitBlock(m, b, n, new)
           IN  /\ \E list2 : Sound(s, list2, F \cup {b})
               /\ DividedFields(m, b, n, new, s)
<1> DEFINE d == Divided(m, b, n, new)
           s == SplitBlock(m, b, n, new)
           k == GetFreeListIndex(d.lba_count[b])
           list2 == [list EXCEPT ![b] = k]
<1>1. m \in Manager /\ Tiled(m) /\ OnLists(m, list, F)
    BY DEF Sound
<1>2. b \in Addresses /\ b \notin F /\ m.live \in SUBSET Addresses
    BY <1>1 DEF Manager
<1>3. s = PushFreeBlock(d, b)
    BY DEF SplitBlock, Divided
<1>4. d \in Manager /\ DividedFields(m, b, n, new, d) /\ SameLists(m, d)
    BY <1>1, DividedHasFields
<1> HIDE DEF d
<1>5. OnLists(d, list, F)
    BY <1>1, <1>4 DEF OnLists, SameLists
<1>6. /\ s \in Manager
      /\ OnLists(s, list2, F \cup {b})
      /\ SameBlocks(d, s)
      /\ s.is_free = d.is_free
    <2> HIDE DEF s
    <2> QED
        BY <1>2, <1>3, <1>4, <1>5, PushOnLists
<1> HIDE DEF s
<1>7. DividedFields(m, b, n, new, s)
    BY <1>4, <1>6 DEF DividedFields, SameBlocks
<1>8. Tiled(s)
    BY <1>1, <1>7, SplitTiles
<1>9. Placed(s.live, s.lba_count, list2, F \cup {b})
    <2> SUFFICES ASSUME NEW x \in F \cup {b}
                 PROVE  list2[x] = GetFreeListIndex(s.lba_count[x])
        BY DEF Placed
    <2>1. CASE x = b
        BY <2>1, <1>1, <1>2, <1>6 DEF OnLists, SameBlocks
    <2>2. CASE x # b
        <3>1. x \in F /\ x # new /\ x \in Addresses
            BY <2>2, <1>2 DEF Sound
        <3>2. list[x] = GetFreeListIndex(m.lba_count[x])
            BY <3>1, <2>2 DEF Sound, Placed
        <3> QED
            BY <2>2, <3>1, <3>2, <1>1, <1>7 DEF DividedFields, OnLists
    <2> QED
        BY <2>1, <2>2
<1>10. /\ F \cup {b} \subseteq s.live
       /\ \A x \in Addresses \ s.live : ~s.is_free[x]
    BY <1>7 DEF Sound, DividedFields
<1>11. Sound(s, list2, F \cup {b})
    BY <1>6, <1>8, <1>9, <1>10 DEF Sound
<1> QED
    BY <1>7, <1>11 DEF s

LEMMA DeleteHasFields ==
    ASSUME NEW m \in Manager, NEW b \in Addresses
    PROVE  LET n == Delete(m, b)
           IN  /\ n \in Manager
               /\ SameLists(m, n)
               /\ n.live = m.live \ {b}
               /\ n.start_lba = [m.start_lba EXCEPT ![b] = 0]
               /\ n.lba_count = [m.lba_count EXCEPT ![b] = 0]
               /\ n.is_free = [m.is_free EXCEPT ![b] = FALSE]
               /\ n.next_block = [m.next_block EXCEPT ![b] = Null]
               /\ n.previous_block = [m.previous_block EXCEPT ![b] = Null]
               /\ n.blocks = m.blocks
<1> DEFINE n == Delete(m, b)
           live2 == m.live \ {b}
           start2 == [m.start_lba EXCEPT ![b] = 0]
           count2 == [m.lba_count EXCEPT ![b] = 0]
           free2 == [m.is_free EXCEPT ![b] = FALSE]
           next2 == [m.next_block EXCEPT ![b] = Null]
           previous2 == [m.previous_block EXCEPT ![b] = Null]
<1>1. n = [m EXCEPT !.live = live2, !.start_lba = start2, !.lba_count = count2,
                    !.is_free = free2, !.next_block = next2, !.previous_block = previous2]
    BY DEF Delete
<1>2. /\ live2 \in SUBSET Addresses
      /\ start2 \in [Addresses -> Nat]
      /\ count2 \in [Addresses -> Nat]
      /\ free2 \in [Addresses -> BOOLEAN]
      /\ next2 \in [Addresses -> Pointer]
      /\ previous2 \in [Addresses -> Pointer]
    BY DEF Manager, Pointer
<1> HIDE DEF n, live2, start2, count2, free2, next2, previous2
<1>3. /\ n \in Manager
      /\ SameLists(m, n)
      /\ n.live = live2 /\ n.start_lba = start2 /\ n.lba_count = count2 /\ n.is_free = free2
      /\ n.next_block = next2 /\ n.previous_block = previous2 /\ n.blocks = m.blocks
    BY <1>1, <1>2 DEF Manager, SameLists
<1> QED
    BY <1>3 DEF n, live2, start2, count2, free2, next2, previous2

LEMMA MergeLeftIsSound ==
    ASSUME NEW m, NEW list, NEW F, Sound(m, list, F), NEW b \in m.live \ F,
           m.previous_block[b] \in F
    PROVE  LET n == MergeLeft(m, b)
           IN  /\ Sound(n, list, F \ {m.previous_block[b]})
               /\ LeftFields(m, b, n)
<1> DEFINE left == m.previous_block[b]
           outer == m.previous_block[left]
           start2 == [m.start_lba EXCEPT ![b] = m.start_lba[left]]
           count2 == [m.lba_count EXCEPT ![b] = m.lba_count[b] + m.lba_count[left]]
           next2 == Assign(m.next_block, outer, m.next_block[left])
           previous2 == [m.previous_block EXCEPT ![b] = outer]
           blocks2 == IF outer = Null THEN m.next_block[left] ELSE m.blocks
           d == [m EXCEPT !.start_lba = start2, !.lba_count = count2, !.next_block = next2,
                          !.previous_block = previous2, !.blocks = blocks2]
           r == RemoveFreeBlock(d, left)
           n == MergeLeft(m, b)
<1>1. /\ m \in Manager /\ Tiled(m) /\ OnLists(m, list, F)
      /\ left \in F /\ left \in m.live
    BY DEF Sound
<1>2. /\ m.live \in SUBSET Addresses
      /\ m.start_lba \in [Addresses -> Nat]
      /\ m.lba_count \in [Addresses -> Nat]
      /\ m.is_free \in [Addresses -> BOOLEAN]
      /\ m.next_block \in [Addresses -> Pointer]
      /\ m.previous_block \in [Addresses -> Pointer]
      /\ m.blocks \in Pointer
      /\ b \in Addresses /\ left \in Addresses
      /\ Null \notin Addresses
    BY <1>1, BlockAssumption DEF Manager
<1>3. left # b /\ m.next_block[left] = b
    BY <1>1, <1>2 DEF Tiled, Tiles, Chained
<1>4. outer # Null => outer \in m.live /\ outer \in Addresses
    BY <1>1, <1>2 DEF Tiled, Tiles, Chained
<1>5. /\ start2 \in [Addresses -> Nat]
      /\ count2 \in [Addresses -> Nat]
      /\ next2 \in [Addresses -> Pointer]
      /\ previous2 \in [Addresses -> Pointer]
      /\ blocks2 \in Pointer
    BY <1>2, <1>3 DEF Assign, Pointer
<1>6. \A x \in Addresses :
        /\ start2[x] = IF x = b THEN m.start_lba[left] ELSE m.start_lba[x]
        /\ count2[x] = IF x = b THEN m.lba_count[b] + m.lba_count[left] ELSE m.lba_count[x]
        /\ next2[x] = IF x = outer THEN b ELSE m.next_block[x]
        /\ previous2[x] = IF x = b THEN outer ELSE m.previous_block[x]
    BY <1>2, <1>3, <1>4 DEF Assign
<1>7. blocks2 = IF outer = Null THEN b ELSE m.blocks
    BY <1>3
<1> HIDE DEF start2, count2, next2, previous2, blocks2
<1>8. /\ d \in Manager
      /\ SameLists(m, d)
      /\ d.live = m.live /\ d.start_lba = start2 /\ d.lba_count = count2
      /\ d.is_free = m.is_free /\ d.next_block = next2
      /\ d.previous_block = previous2 /\ d.blocks = blocks2
    BY <1>1, <1>5 DEF Manager, SameLists
<1>9. n = Delete(r, left)
    BY DEF MergeLeft, start2, count2, next2, previous2, blocks2
<1> HIDE DEF d
<1>10. OnLists(d, list, F) /\ list[left] = GetFreeListIndex(d.lba_count[left])
    <2>1. list[left] = GetFreeListIndex(m.lba_count[left])
        BY <1>1, <1>3 DEF Sound, Placed
    <2> QED
        BY <2>1, <1>1, <1>2, <1>3, <1>6, <1>8 DEF OnLists, SameLists
<1>11. /\ r \in Manager
       /\ OnLists(r, list, F \ {left})
       /\ SameBlocks(d, r)
       /\ r.is_free = d.is_free
    <2> HIDE DEF left, r
    <2>1. r = RemoveFreeBlock(d, left)
        BY DEF r
    <2> QED
        BY <2>1, <1>1, <1>8, <1>10, RemoveOnLists
<1> HIDE DEF r
<1>12. /\ n \in Manager
       /\ SameLists(r, n)
       /\ n.live = m.live \ {left}
       /\ n.start_lba = [start2 EXCEPT ![left] = 0]
       /\ n.lba_count = [count2 EXCEPT ![left] = 0]
       /\ n.is_free = [m.is_free EXCEPT ![left] = FALSE]
       /\ n.next_block = [next2 EXCEPT ![left] = Null]
       /\ n.previous_block = [previous2 EXCEPT ![left] = Null]
       /\ n.blocks = blocks2
    <2>1. /\ r.live = m.live /\ r.start_lba = start2 /\ r.lba_count = count2
          /\ r.is_free = m.is_free /\ r.next_block = next2
          /\ r.previous_block = previous2 /\ r.blocks = blocks2
        BY <1>8, <1>11 DEF SameBlocks
    <2> HIDE DEF n, left
    <2>2. /\ n \in Manager
          /\ SameLists(r, n)
          /\ n.live = r.live \ {left}
          /\ n.start_lba = [r.start_lba EXCEPT ![left] = 0]
          /\ n.lba_count = [r.lba_count EXCEPT ![left] = 0]
          /\ n.is_free = [r.is_free EXCEPT ![left] = FALSE]
          /\ n.next_block = [r.next_block EXCEPT ![left] = Null]
          /\ n.previous_block = [r.previous_block EXCEPT ![left] = Null]
          /\ n.blocks = r.blocks
        BY <1>2, <1>9, <1>11, DeleteHasFields
    <2> QED
        BY <2>1, <2>2
<1> HIDE DEF n
<1>13. LeftFields(m, b, n)
    BY <1>2, <1>4, <1>6, <1>7, <1>12 DEF LeftFields
<1>14. Tiled(n)
    BY <1>1, <1>13, MergeLeftTiles
<1>15. Placed(n.live, n.lba_count, list, F \ {left})
    <2> SUFFICES ASSUME NEW x \in F \ {left}
                 PROVE  list[x] = GetFreeListIndex(n.lba_count[x])
        BY DEF Placed
    <2>1. x \in m.live \ {left} /\ x # b
        BY DEF Sound
    <2>2. list[x] = GetFreeListIndex(m.lba_count[x])
        BY <2>1 DEF Sound, Placed
    <2> QED
        BY <2>1, <2>2, <1>13 DEF LeftFields
<1>16. OnLists(n, list, F \ {left})
    BY <1>11, <1>12 DEF OnLists, SameLists
<1>17. /\ F \ {left} \subseteq n.live
       /\ \A x \in Addresses \ n.live : ~n.is_free[x]
    BY <1>2, <1>12 DEF Sound
<1>18. Sound(n, list, F \ {left})
    BY <1>12, <1>14, <1>15, <1>16, <1>17 DEF Sound
<1> QED
    BY <1>13, <1>18 DEF n

LEMMA MergeRightIsSound ==
    ASSUME NEW m, NEW list, NEW F, Sound(m, list, F), NEW b \in m.live \ F,
           m.next_block[b] \in F
    PROVE  LET n == MergeRight(m, b)
           IN  /\ Sound(n, list, F \ {m.next_block[b]})
               /\ RightFields(m, b, n)
<1> DEFINE right == m.next_block[b]
           outer == m.next_block[right]
           count2 == [m.lba_count EXCEPT ![b] = m.lba_count[b] + m.lba_count[right]]
           next2 == [m.next_block EXCEPT ![b] = outer]
           previous2 == Assign(m.previous_block, outer, b)
           d == [m EXCEPT !.lba_count = count2, !.next_block = next2,
                          !.previous_block = previous2]
           r == RemoveFreeBlock(d, right)
           n == MergeRight(m, b)
<1>1. /\ m \in Manager /\ Tiled(m) /\ OnLists(m, list, F)
      /\ right \in F /\ right \in m.live
    BY DEF Sound
<1>2. /\ m.live \in SUBSET Addresses
      /\ m.start_lba \in [Addresses -> Nat]
      /\ m.lba_count \in [Addresses -> Nat]
      /\ m.is_free \in [Addresses -> BOOLEAN]
      /\ m.next_block \in [Addresses -> Pointer]
      /\ m.previous_block \in [Addresses -> Pointer]
      /\ b \in Addresses /\ right \in Addresses
      /\ Null \notin Addresses
    BY <1>1, BlockAssumption DEF Manager
<1>3. right # b
    OBVIOUS
<1>4. outer # Null => outer \in m.live /\ outer \in Addresses
    BY <1>1, <1>2 DEF Tiled, Tiles, Chained
<1>5. /\ count2 \in [Addresses -> Nat]
      /\ next2 \in [Addresses -> Pointer]
      /\ previous2 \in [Addresses -> Pointer]
    BY <1>2, <1>3 DEF Assign, Pointer
<1>6. \A x \in Addresses :
        /\ count2[x] = IF x = b THEN m.lba_count[b] + m.lba_count[right] ELSE m.lba_count[x]
        /\ next2[x] = IF x = b THEN outer ELSE m.next_block[x]
        /\ previous2[x] = IF x = outer THEN b ELSE m.previous_block[x]
    BY <1>2, <1>3, <1>4 DEF Assign
<1> HIDE DEF count2, next2, previous2
<1>7. /\ d \in Manager
      /\ SameLists(m, d)
      /\ d.live = m.live /\ d.start_lba = m.start_lba /\ d.lba_count = count2
      /\ d.is_free = m.is_free /\ d.next_block = next2
      /\ d.previous_block = previous2 /\ d.blocks = m.blocks
    BY <1>1, <1>5 DEF Manager, SameLists
<1>8. n = Delete(r, right)
    BY DEF MergeRight, count2, next2, previous2
<1> HIDE DEF d
<1>9. OnLists(d, list, F) /\ list[right] = GetFreeListIndex(d.lba_count[right])
    <2>1. list[right] = GetFreeListIndex(m.lba_count[right])
        BY <1>1, <1>3 DEF Sound, Placed
    <2> QED
        BY <2>1, <1>1, <1>2, <1>3, <1>6, <1>7 DEF OnLists, SameLists
<1>10. /\ r \in Manager
       /\ OnLists(r, list, F \ {right})
       /\ SameBlocks(d, r)
       /\ r.is_free = d.is_free
    <2> HIDE DEF right, r
    <2>1. r = RemoveFreeBlock(d, right)
        BY DEF r
    <2> QED
        BY <2>1, <1>1, <1>7, <1>9, RemoveOnLists
<1> HIDE DEF r
<1>11. /\ n \in Manager
       /\ SameLists(r, n)
       /\ n.live = m.live \ {right}
       /\ n.start_lba = [m.start_lba EXCEPT ![right] = 0]
       /\ n.lba_count = [count2 EXCEPT ![right] = 0]
       /\ n.is_free = [m.is_free EXCEPT ![right] = FALSE]
       /\ n.next_block = [next2 EXCEPT ![right] = Null]
       /\ n.previous_block = [previous2 EXCEPT ![right] = Null]
       /\ n.blocks = m.blocks
    <2>1. /\ r.live = m.live /\ r.start_lba = m.start_lba /\ r.lba_count = count2
          /\ r.is_free = m.is_free /\ r.next_block = next2
          /\ r.previous_block = previous2 /\ r.blocks = m.blocks
        BY <1>7, <1>10 DEF SameBlocks
    <2> HIDE DEF n, right
    <2>2. /\ n \in Manager
          /\ SameLists(r, n)
          /\ n.live = r.live \ {right}
          /\ n.start_lba = [r.start_lba EXCEPT ![right] = 0]
          /\ n.lba_count = [r.lba_count EXCEPT ![right] = 0]
          /\ n.is_free = [r.is_free EXCEPT ![right] = FALSE]
          /\ n.next_block = [r.next_block EXCEPT ![right] = Null]
          /\ n.previous_block = [r.previous_block EXCEPT ![right] = Null]
          /\ n.blocks = r.blocks
        BY <1>2, <1>8, <1>10, DeleteHasFields
    <2> QED
        BY <2>1, <2>2
<1> HIDE DEF n
<1>12. RightFields(m, b, n)
    BY <1>2, <1>4, <1>6, <1>11 DEF RightFields
<1>13. Tiled(n)
    BY <1>1, <1>12, MergeRightTiles
<1>14. Placed(n.live, n.lba_count, list, F \ {right})
    <2> SUFFICES ASSUME NEW x \in F \ {right}
                 PROVE  list[x] = GetFreeListIndex(n.lba_count[x])
        BY DEF Placed
    <2>1. x \in m.live \ {right} /\ x # b
        BY DEF Sound
    <2>2. list[x] = GetFreeListIndex(m.lba_count[x])
        BY <2>1 DEF Sound, Placed
    <2> QED
        BY <2>1, <2>2, <1>12 DEF RightFields
<1>15. OnLists(n, list, F \ {right})
    BY <1>10, <1>11 DEF OnLists, SameLists
<1>16. /\ F \ {right} \subseteq n.live
       /\ \A x \in Addresses \ n.live : ~n.is_free[x]
    BY <1>2, <1>11 DEF Sound
<1>17. Sound(n, list, F \ {right})
    BY <1>11, <1>13, <1>14, <1>15, <1>16 DEF Sound
<1> QED
    BY <1>12, <1>17 DEF n

-----------------------------------------------------------------------------
(***************************************************************************)
(* Freeing a block.  Until it is pushed it is free and on no list; between *)
(* the other blocks there are no two free neighbours.                      *)
(***************************************************************************)
Free(m) == {x \in m.live : m.is_free[x]}

NoFreePairBut(m, B) ==
    \A x \in m.live : m.next_block[x] # Null /\ x \notin B /\ m.next_block[x] \notin B =>
        ~(m.is_free[x] /\ m.is_free[m.next_block[x]])

Pending(m, list, b) ==
    /\ b \in m.live /\ m.is_free[b]
    /\ Sound(m, list, Free(m) \ {b})
    /\ NoFreePairBut(m, {b})

\* n is m after blocks around b have been merged into b.
Merged(m, n, b) ==
    /\ b \in n.live
    /\ n.live \subseteq m.live
    /\ \A x \in m.live \ n.live : m.is_free[x]
    /\ \A x \in n.live : n.is_free[x] <=> m.is_free[x]
    /\ \A x \in n.live \ {b} :
        /\ n.start_lba[x] = m.start_lba[x]
        /\ n.lba_count[x] = m.lba_count[x]
        /\ m.next_block[x] = Null => n.next_block[x] = Null
    /\ \E x \in m.live : n.start_lba[b] = m.start_lba[x]

\* The neighbours of a block are two other blocks.
LEMMA NeighboursDiffer ==
    ASSUME NEW m \in Manager, Tiled(m), NEW b \in m.live
    PROVE  /\ m.previous_block[b] # Null =>
                /\ m.previous_block[b] \in m.live
                /\ m.next_block[m.previous_block[b]] = b
                /\ m.previous_block[b] # b
           /\ m.next_block[b] # Null =>
                /\ m.next_block[b] \in m.live
                /\ m.previous_block[m.next_block[b]] = b
                /\ m.next_block[b] # b
                /\ m.next_block[b] # m.previous_block[b]
<1>1. \A x \in m.live : m.start_lba[x] \in Nat /\ m.lba_count[x] \in Nat /\ m.lba_count[x] > 0
    BY DEF Manager, Tiled, Tiles, Chained
<1>2. ASSUME NEW x \in m.live, m.next_block[x] # Null
      PROVE  /\ m.next_block[x] \in m.live
             /\ m.previous_block[m.next_block[x]] = x
             /\ m.start_lba[m.next_block[x]] = m.start_lba[x] + m.lba_count[x]
    BY <1>2 DEF Tiled, Tiles, Chained
<1>3. m.previous_block[b] # Null =>
        m.previous_block[b] \in m.live /\ m.next_block[m.previous_block[b]] = b
    BY DEF Tiled, Tiles, Chained
<1>4. Null \notin m.live
    BY BlockAssumption DEF Manager
<1>5. m.next_block[b] # Null => m.next_block[b] # b
    BY <1>1, <1>2
<1>6. m.previous_block[b] # Null => m.previous_block[b] # b
    BY <1>3, <1>4, <1>5
<1>7. m.next_block[b] # Null => m.next_block[b] # m.previous_block[b]
    <2> SUFFICES ASSUME m.next_block[b] # Null, m.next_block[b] = m.previous_block[b]
                 PROVE  FALSE
        OBVIOUS
    <2> DEFINE x == m.next_block[b]
    <2>1. x \in m.live /\ m.start_lba[x] = m.start_lba[b] + m.lba_count[b]
        BY <1>2
    <2>2. m.next_block[x] = b
        BY <1>3
    <2>3. m.start_lba[b] = m.start_lba[x] + m.lba_count[x]
        BY <1>2, <1>4, <2>1, <2>2
    <2> QED
        BY <1>1, <2>1, <2>3
<1> QED
    BY <1>2, <1>3, <1>5, <1>6, <1>7

LEMMA MergeLeftPending ==
    ASSUME NEW m, NEW list, NEW b, Pending(m, list, b), FreeNeighbour(m, m.previous_block[b])
    PROVE  LET n == MergeLeft(m, b)
           IN  /\ Pending(n, list, b)
               /\ Merged(m, n, b)
               /\ n.next_block[b] = m.next_block[b]
               /\ ~FreeNeighbour(n, n.previous_block[b])
<1> DEFINE left == m.previous_block[b]
           outer == m.previous_block[left]
           n == MergeLeft(m, b)
<1>1. m \in Manager /\ Tiled(m) /\ b \in m.live /\ m.is_free[b]
    BY DEF Pending, Sound
<1>2. left # Null /\ m.is_free[left]
    BY DEF FreeNeighbour
<1>3. left \in m.live /\ m.next_block[left] = b /\ left # b
    BY <1>1, <1>2, NeighboursDiffer
<1>4. outer # Null => outer \in m.live /\ m.next_block[outer] = left /\ outer # left /\ outer # b
    BY <1>1, <1>2, <1>3, NeighboursDiffer
<1>5. left \in Free(m) \ {b}
    BY <1>2, <1>3 DEF Free
<1>6. Sound(n, list, (Free(m) \ {b}) \ {left}) /\ LeftFields(m, b, n)
    BY <1>1, <1>5, MergeLeftIsSound DEF Pending
<1> HIDE DEF n
<1>7. m.is_free \in [Addresses -> BOOLEAN] /\ m.live \in SUBSET Addresses
      /\ Null \notin Addresses
    BY <1>1, BlockAssumption DEF Manager
<1>8. /\ n.live = m.live \ {left}
      /\ \A x \in n.live : n.is_free[x] <=> m.is_free[x]
    BY <1>6, <1>7 DEF LeftFields
<1>9. Free(n) \ {b} = (Free(m) \ {b}) \ {left}
    BY <1>8 DEF Free
<1>10. Merged(m, n, b)
    <2>1. b \in n.live /\ n.live \subseteq m.live
        BY <1>1, <1>3, <1>8
    <2>2. \A x \in m.live \ n.live : m.is_free[x]
        BY <1>2, <1>8
    <2>3. \A x \in n.live \ {b} :
            /\ n.start_lba[x] = m.start_lba[x]
            /\ n.lba_count[x] = m.lba_count[x]
            /\ m.next_block[x] = Null => n.next_block[x] = Null
        BY <1>2, <1>4, <1>6, <1>7, <1>8 DEF LeftFields
    <2>4. n.start_lba[b] = m.start_lba[left]
        BY <1>1, <1>3, <1>6 DEF LeftFields
    <2> QED
        BY <1>3, <1>8, <2>1, <2>2, <2>3, <2>4 DEF Merged
<1>11. /\ n.next_block[b] = m.next_block[b]
       /\ n.previous_block[b] = outer
    BY <1>1, <1>3, <1>4, <1>6, <1>7 DEF LeftFields
<1>12. outer # Null => ~m.is_free[outer]
    BY <1>2, <1>3, <1>4 DEF Pending, NoFreePairBut
<1>13. ~FreeNeighbour(n, n.previous_block[b])
    BY <1>4, <1>8, <1>11, <1>12 DEF FreeNeighbour
<1>14. NoFreePairBut(n, {b})
    <2> SUFFICES ASSUME NEW x \in n.live, n.next_block[x] # Null, x # b, n.next_block[x] # b
                 PROVE  ~(n.is_free[x] /\ n.is_free[n.next_block[x]])
        BY DEF NoFreePairBut
    <2>1. n.next_block[x] = m.next_block[x] /\ x \in m.live
        BY <1>6, <1>8 DEF LeftFields
    <2>2. n.next_block[x] \in n.live
        BY <1>6 DEF Sound, Tiled, Tiles, Chained
    <2> QED
        BY <1>8, <2>1, <2>2 DEF Pending, NoFreePairBut
<1>15. Pending(n, list, b)
    BY <1>1, <1>3, <1>6, <1>8, <1>9, <1>14 DEF Pending
<1> QED
    BY <1>10, <1>11, <1>13, <1>15 DEF n

LEMMA MergeRightPending ==
    ASSUME NEW m, NEW list, NEW b, Pending(m, list, b), FreeNeighbour(m, m.next_block[b])
    PROVE  LET n == MergeRight(m, b)
           IN  /\ Pending(n, list, b)
               /\ Merged(m, n, b)
               /\ ~FreeNeighbour(n, n.next_block[b])
               /\ ~FreeNeighbour(m, m.previous_block[b]) =>
                    ~FreeNeighbour(n, n.previous_block[b])
<1> DEFINE right == m.next_block[b]
           outer == m.next_block[right]
           n == MergeRight(m, b)
<1>1. m \in Manager /\ Tiled(m) /\ b \in m.live /\ m.is_free[b]
    BY DEF Pending, Sound
<1>2. right # Null /\ m.is_free[right]
    BY DEF FreeNeighbour
<1>3. right \in m.live /\ m.previous_block[right] = b /\ right # b
    BY <1>1, <1>2, NeighboursDiffer
<1>4. outer # Null => outer \in m.live /\ m.previous_block[outer] = right /\ outer # right /\ outer # b
    BY <1>1, <1>2, <1>3, NeighboursDiffer
<1>5. right \in Free(m) \ {b}
    BY <1>2, <1>3 DEF Free
<1>6. Sound(n, list, (Free(m) \ {b}) \ {right}) /\ RightFields(m, b, n)
    BY <1>1, <1>5, MergeRightIsSound DEF Pending
<1> HIDE DEF n
<1>7. m.is_free \in [Addresses -> BOOLEAN] /\ m.live \in SUBSET Addresses
      /\ Null \notin Addresses
    BY <1>1, BlockAssumption DEF Manager
<1>8. /\ n.live = m.live \ {right}
      /\ \A x \in n.live : n.is_free[x] <=> m.is_free[x]
    BY <1>6, <1>7 DEF RightFields
<1>9. Free(n) \ {b} = (Free(m) \ {b}) \ {right}
    BY <1>8 DEF Free
<1>10. Merged(m, n, b)
    <2>1. b \in n.live /\ n.live \subseteq m.live
        BY <1>1, <1>3, <1>8
    <2>2. \A x \in m.live \ n.live : m.is_free[x]
        BY <1>2, <1>8
    <2>3. \A x \in n.live \ {b} :
            /\ n.start_lba[x] = m.start_lba[x]
            /\ n.lba_count[x] = m.lba_count[x]
            /\ m.next_block[x] = Null => n.next_block[x] = Null
        BY <1>6, <1>8 DEF RightFields
    <2>4. n.start_lba[b] = m.start_lba[b]
        BY <1>1, <1>3, <1>6 DEF RightFields
    <2> QED
        BY <1>1, <1>8, <2>1, <2>2, <2>3, <2>4 DEF Merged
<1>11. /\ n.next_block[b] = outer
       /\ n.previous_block[b] = m.previous_block[b]
    BY <1>1, <1>3, <1>4, <1>6, <1>7 DEF RightFields
<1>12. outer # Null => ~m.is_free[outer]
    BY <1>2, <1>3, <1>4 DEF Pending, NoFreePairBut
<1>13. ~FreeNeighbour(n, n.next_block[b])
    BY <1>4, <1>8, <1>11, <1>12 DEF FreeNeighbour
<1>14. ASSUME ~FreeNeighbour(m, m.previous_block[b])
       PROVE  ~FreeNeighbour(n, n.previous_block[b])
    <2>1. m.previous_block[b] # Null => m.previous_block[b] \in m.live /\ m.previous_block[b] # right
        BY <1>1, <1>2, NeighboursDiffer
    <2> QED
        BY <2>1, <1>8, <1>11, <1>14 DEF FreeNeighbour
<1>15. NoFreePairBut(n, {b})
    <2> SUFFICES ASSUME NEW x \in n.live, n.next_block[x] # Null, x # b, n.next_block[x] # b
                 PROVE  ~(n.is_free[x] /\ n.is_free[n.next_block[x]])
        BY DEF NoFreePairBut
    <2>1. n.next_block[x] = m.next_block[x] /\ x \in m.live
        BY <1>6, <1>8 DEF RightFields
    <2>2. n.next_block[x] \in n.live
        BY <1>6 DEF Sound, Tiled, Tiles, Chained
    <2> QED
        BY <1>8, <2>1, <2>2 DEF Pending, NoFreePairBut
<1>16. Pending(n, list, b)
    BY <1>1, <1>3, <1>6, <1>8, <1>9, <1>15 DEF Pending
<1> QED
    BY <1>10, <1>13, <1>14, <1>16 DEF n

LEMMA CoalescePending ==
    ASSUME NEW m, NEW list, NEW b, Pending(m, list, b)
    PROVE  LET n == CoalesceFreeBlocks(m, b)
           IN  /\ Pending(n, list, b)
               /\ Merged(m, n, b)
               /\ NoFreePairBut(n, {})
<1> DEFINE n == CoalesceFreeBlocks(m, b)
           left == IF FreeNeighbour(m, m.previous_block[b]) THEN MergeLeft(m, b) ELSE m
<1>1. /\ Pending(left, list, b)
      /\ Merged(m, left, b)
      /\ left.next_block[b] = m.next_block[b]
      /\ ~FreeNeighbour(left, left.previous_block[b])
    <2>1. CASE FreeNeighbour(m, m.previous_block[b])
        <3>1. left = MergeLeft(m, b)
            BY <2>1
        <3> HIDE DEF left
        <3> QED
            BY <2>1, <3>1, MergeLeftPending
    <2>2. CASE ~FreeNeighbour(m, m.previous_block[b])
        <3>1. Merged(m, m, b)
            BY DEF Merged, Pending
        <3> QED
            BY <2>2, <3>1
    <2> QED
        BY <2>1, <2>2
<1>2. FreeNeighbour(left, left.next_block[b]) <=> FreeNeighbour(m, m.next_block[b])
    <2>1. m.next_block[b] # Null => m.next_block[b] # m.previous_block[b]
        BY NeighboursDiffer DEF Pending, Sound
    <2>2. left.next_block[b] # Null => left.next_block[b] \in left.live
        BY <1>1 DEF Pending, Sound, Tiled, Tiles, Chained
    <2> QED
        BY <1>1, <2>2 DEF Merged, FreeNeighbour
<1>3. n = IF FreeNeighbour(m, m.next_block[b]) THEN MergeRight(left, b) ELSE left
    BY DEF CoalesceFreeBlocks
<1> HIDE DEF n, left
<1>4. /\ Pending(n, list, b)
      /\ Merged(left, n, b)
      /\ ~FreeNeighbour(n, n.previous_block[b])
      /\ ~FreeNeighbour(n, n.next_block[b])
    <2>1. CASE FreeNeighbour(m, m.next_block[b])
        BY <2>1, <1>1, <1>2, <1>3, MergeRightPending
    <2>2. CASE ~FreeNeighbour(m, m.next_block[b])
        <3>1. Merged(left, left, b)
            BY <1>1 DEF Merged, Pending
        <3> QED
            BY <2>2, <3>1, <1>1, <1>2, <1>3
    <2> QED
        BY <2>1, <2>2
<1>5. Merged(m, n, b)
    BY <1>1, <1>4 DEF Merged
<1>6. NoFreePairBut(n, {})
    <2> SUFFICES ASSUME NEW x \in n.live, n.next_block[x] # Null
                 PROVE  ~(n.is_free[x] /\ n.is_free[n.next_block[x]])
        BY DEF NoFreePairBut
    <2>1. CASE x = b
        BY <2>1, <1>4 DEF FreeNeighbour
    <2>2. CASE n.next_block[x] = b
        <3>1. n.previous_block[b] = x
            BY <2>2, <1>4 DEF Pending, Sound, Tiled, Tiles, Chained
        <3>2. x # Null
            BY <1>4, BlockAssumption DEF Pending, Sound, Manager
        <3> QED
            BY <3>1, <3>2, <1>4 DEF FreeNeighbour
    <2>3. CASE x # b /\ n.next_block[x] # b
        BY <2>3, <1>4 DEF Pending, NoFreePairBut
    <2> QED
        BY <2>1, <2>2, <2>3
<1> QED
    BY <1>4, <1>5, <1>6 DEF n

LEMMA PopIsSound ==
    ASSUME NEW m, NEW list, NEW F, Sound(m, list, F), NEW k \in Lists, m.blocks_free[k] # Null
    PROVE  LET b == m.blocks_free[k]
               n == PopFreeBlock(m, k)
           IN  /\ b \in F
               /\ list[b] = k
               /\ Sound(n, list, F \ {b})
               /\ SameBlocks(m, n)
               /\ n.is_free = [m.is_free EXCEPT ![b] = FALSE]
<1> DEFINE b == m.blocks_free[k]
           n == PopFreeBlock(m, k)
<1>1. /\ b \in F /\ list[b] = k
      /\ n \in Manager
      /\ OnLists(n, list, F \ {b})
      /\ SameBlocks(m, n)
      /\ n.is_free = [m.is_free EXCEPT ![b] = FALSE]
    BY PopOnLists DEF Sound
<1> HIDE DEF n, b
<1>2. Tiled(n)
    BY <1>1 DEF Sound, Tiled, SameBlocks
<1>3. Placed(n.live, n.lba_count, list, F \ {b})
    BY <1>1 DEF Sound, Placed, SameBlocks
<1>4. m.is_free \in [Addresses -> BOOLEAN] /\ b \in Addresses
    BY <1>1 DEF Sound, Manager
<1>5. /\ F \ {b} \subseteq n.live
      /\ \A x \in Addresses \ n.live : ~n.is_free[x]
    BY <1>1, <1>4 DEF Sound, SameBlocks
<1> QED
    BY <1>1, <1>2, <1>3, <1>5 DEF Sound, n, b

-----------------------------------------------------------------------------
(***************************************************************************)
(* The invariant between two calls.                                        *)
(***************************************************************************)
FreeOrLent == \A b \in mgr.live : mgr.is_free[b] <=> b \notin DOMAIN lent

PointersAreSound == \E list : Sound(mgr, list, Free(mgr))

IInv ==
    /\ TypeOK
    /\ FreeOrLent
    /\ PointersAreSound
    /\ NoFreePairBut(mgr, {})

\* A space of one LBA leaves the manager none: it is not one it can manage.
RegionHasLbas == RegionLbas > 0

LEMMA InitIsSound ==
    ASSUME RegionHasLbas, Init
    PROVE  IInv
<1> DEFINE b == CHOOSE a \in Addresses : TRUE
           list == All(Classes - 1)
<1>1. b \in Addresses /\ Null \notin Addresses /\ Classes - 1 \in Lists
    BY BlockAssumption DEF Lists
<1>2. mgr = [live |-> {b},
             start_lba |-> [All(0) EXCEPT ![b] = RegionStart],
             lba_count |-> [All(0) EXCEPT ![b] = RegionLbas],
             is_free |-> [All(FALSE) EXCEPT ![b] = TRUE],
             next_block |-> All(Null), previous_block |-> All(Null),
             next_free_block |-> All(Null), previous_free_block |-> All(Null),
             blocks |-> b,
             blocks_free |-> [k \in Lists |-> IF k = Classes - 1 THEN b ELSE Null]]
    BY DEF Init
<1> HIDE DEF b
<1>3. /\ lent = <<>> /\ DOMAIN lent = {} /\ answer = "none"
    BY DEF Init
<1>4. mgr \in Manager
    BY <1>1, <1>2, BlockAssumption DEF Manager, Pointer, All, Lists
<1>5. /\ mgr.live = {b}
      /\ mgr.blocks = b
      /\ \A x \in Addresses :
            /\ mgr.start_lba[x] = IF x = b THEN RegionStart ELSE 0
            /\ mgr.lba_count[x] = IF x = b THEN RegionLbas ELSE 0
            /\ mgr.is_free[x] <=> x = b
            /\ mgr.next_block[x] = Null /\ mgr.previous_block[x] = Null
            /\ mgr.next_free_block[x] = Null /\ mgr.previous_free_block[x] = Null
            /\ list[x] = Classes - 1
      /\ \A k \in Lists : mgr.blocks_free[k] = IF k = Classes - 1 THEN b ELSE Null
    BY <1>1, <1>2 DEF All
<1>6. list \in [Addresses -> Lists]
    BY <1>1 DEF All
<1> HIDE DEF list
<1>7. TypeOK
    BY <1>3, <1>4 DEF TypeOK
<1>8. Free(mgr) = {b} /\ NoFreePairBut(mgr, {}) /\ FreeOrLent
    BY <1>1, <1>3, <1>5 DEF Free, NoFreePairBut, FreeOrLent
<1>9. Tiled(mgr)
    <2>1. /\ Chained(mgr.live, mgr.start_lba, mgr.lba_count, mgr.next_block,
                     mgr.previous_block, mgr.blocks)
          /\ Apart(mgr.live, mgr.start_lba, mgr.lba_count)
          /\ Inside(mgr.live, mgr.start_lba, mgr.lba_count)
        BY <1>1, <1>5, BlockAssumption DEF Chained, Apart, Inside, RegionEnd, RegionHasLbas
    <2>2. Covered(mgr.live, mgr.start_lba, mgr.lba_count)
        BY <1>1, <1>5, BlockAssumption DEF Covered, RegionEnd
    <2> QED
        BY <2>1, <2>2 DEF Tiled, Tiles
<1>10. OnLists(mgr, list, {b})
    <2>1. Linked(mgr.next_free_block, mgr.previous_free_block, mgr.blocks_free, list, {b})
        BY <1>1, <1>5 DEF Linked
    <2>2. Reached(mgr.next_free_block, mgr.blocks_free, list, {b})
        BY <1>1, <1>5 DEF Reached
    <2> QED
        BY <1>1, <1>6, <2>1, <2>2 DEF OnLists
<1>11. Placed(mgr.live, mgr.lba_count, list, {b})
    <2>1. ~SmallRegion => GetFreeListIndex(RegionLbas) = Classes - 1
        BY LastClass, BlockAssumption DEF SmallRegion
    <2> QED
        BY <2>1, <1>1, <1>5 DEF Placed
<1>12. Sound(mgr, list, {b})
    BY <1>1, <1>4, <1>5, <1>9, <1>10, <1>11 DEF Sound
<1> QED
    BY <1>7, <1>8, <1>12 DEF IInv, PointersAreSound

\* The list AllocateBlock takes a block from.
LEMMA CandidateIsAList ==
    ASSUME TypeOK, NEW n \in Nat, Candidates(n) # {}
    PROVE  LET k == SmallestOf(Candidates(n))
           IN  /\ k \in Lists
               /\ k \in Candidates(n)
               /\ k >= GetFreeListIndex(n)
               /\ mgr.blocks_free[k] # Null
               /\ \A l \in Candidates(n) : k <= l
<1>1. GetFreeListIndex(n) \in Lists
    BY IndexIsAList
<1>2. Candidates(n) \subseteq Lists /\ Candidates(n) \subseteq Nat
    BY <1>1, BlockAssumption DEF Candidates, Lists
<1>3. /\ SmallestOf(Candidates(n)) \in Candidates(n)
      /\ \A l \in Candidates(n) : SmallestOf(Candidates(n)) <= l
    BY <1>2, SmallestExists
<1> QED
    BY <1>1, <1>2, <1>3 DEF Candidates

LEMMA AllocateWholeIsSound ==
    ASSUME IInv, NEW n \in Sizes, AllocateWhole(n)
    PROVE  IInv'
<1> DEFINE k == SmallestOf(Candidates(n))
           b == mgr.blocks_free[k]
<1>1. PICK list : Sound(mgr, list, Free(mgr))
    BY DEF IInv, PointersAreSound
<1>2. n \in Nat
    BY BlockAssumption
<1>3. k \in Lists /\ b # Null
    BY <1>2, CandidateIsAList DEF AllocateWhole, IInv
<1>4. /\ mgr' = PopFreeBlock(mgr, k)
      /\ lent' = [x \in DOMAIN lent \cup {b} |-> IF x = b THEN n ELSE lent[x]]
      /\ answer' = "block"
    BY DEF AllocateWhole, Lend
<1> HIDE DEF k
<1>5. /\ b \in Free(mgr)
      /\ Sound(mgr', list, Free(mgr) \ {b})
      /\ SameBlocks(mgr, mgr')
      /\ mgr'.is_free = [mgr.is_free EXCEPT ![b] = FALSE]
    BY <1>1, <1>3, <1>4, PopIsSound
<1>6. /\ mgr.is_free \in [Addresses -> BOOLEAN] /\ mgr.live \in SUBSET Addresses
      /\ b \in mgr.live
    BY <1>1, <1>5 DEF Sound, Manager, Free
<1>7. \A x \in mgr.live : mgr'.is_free[x] <=> mgr.is_free[x] /\ x # b
    BY <1>5, <1>6
<1>8. Free(mgr') = Free(mgr) \ {b} /\ mgr'.live = mgr.live
    BY <1>5, <1>7 DEF Free, SameBlocks
<1>9. TypeOK'
    <2>1. lent' \in [DOMAIN lent' -> Sizes] /\ DOMAIN lent' = DOMAIN lent \cup {b}
        BY <1>4 DEF IInv, TypeOK
    <2> QED
        BY <2>1, <1>4, <1>5, <1>6, <1>8 DEF Sound, IInv, TypeOK
<1>10. FreeOrLent'
    BY <1>4, <1>7, <1>8 DEF IInv, FreeOrLent
<1>11. PointersAreSound'
    BY <1>5, <1>8 DEF PointersAreSound
<1>12. NoFreePairBut(mgr', {})
    <2>1. \A x \in mgr.live : mgr.next_block[x] # Null => mgr.next_block[x] \in mgr.live
        BY <1>1 DEF Sound, Tiled, Tiles, Chained
    <2> QED
        BY <2>1, <1>5, <1>7, <1>8 DEF IInv, NoFreePairBut, SameBlocks
<1> QED
    BY <1>9, <1>10, <1>11, <1>12 DEF IInv

LEMMA AllocateSplitIsSound ==
    ASSUME IInv, NEW n \in Sizes, AllocateSplit(n)
    PROVE  IInv'
<1> DEFINE k == SmallestOf(Candidates(n))
           b == mgr.blocks_free[k]
           new == CHOOSE a \in Addresses : a \notin mgr.live
           p == PopFreeBlock(mgr, k)
<1>1. PICK list : Sound(mgr, list, Free(mgr))
    BY DEF IInv, PointersAreSound
<1>2. n \in Nat \ {0}
    BY BlockAssumption
<1>3. k \in Lists /\ b # Null
    BY <1>2, CandidateIsAList DEF AllocateSplit, IInv
<1>4. /\ mgr' = SplitBlock(p, b, n, new)
      /\ lent' = [x \in DOMAIN lent \cup {new} |-> IF x = new THEN n ELSE lent[x]]
      /\ answer' = "block"
      /\ n < mgr.lba_count[b]
    <2>1. mgr.lba_count[b] > n
        BY DEF AllocateSplit
    <2> QED
        BY <2>1 DEF AllocateSplit, Lend
<1>5. new \in Addresses \ mgr.live
    <2>1. \E a \in Addresses : a \notin mgr.live
        BY <1>1 DEF AllocateSplit, Sound, Manager
    <2> QED
        BY <2>1
<1> HIDE DEF k, new
<1>6. /\ b \in Free(mgr)
      /\ Sound(p, list, Free(mgr) \ {b})
      /\ SameBlocks(mgr, p)
      /\ p.is_free = [mgr.is_free EXCEPT ![b] = FALSE]
    BY <1>1, <1>3, PopIsSound
<1> HIDE DEF p
<1>7. /\ mgr.is_free \in [Addresses -> BOOLEAN] /\ mgr.live \in SUBSET Addresses
      /\ b \in mgr.live /\ b \in Addresses /\ b # new /\ mgr.is_free[b]
    BY <1>1, <1>5, <1>6 DEF Sound, Manager, Free
<1>8. /\ \E list2 : Sound(mgr', list2, (Free(mgr) \ {b}) \cup {b})
      /\ DividedFields(p, b, n, new, mgr')
    <2>1. b \in p.live \ (Free(mgr) \ {b}) /\ new \in Addresses \ p.live /\ n < p.lba_count[b]
        BY <1>4, <1>5, <1>6, <1>7 DEF SameBlocks
    <2> HIDE DEF b
    <2> QED
        BY <2>1, <1>2, <1>4, <1>6, SplitIsSound
<1>9. /\ mgr'.live = mgr.live \cup {new}
      /\ \A x \in mgr.live \cup {new} : mgr'.is_free[x] <=> mgr.is_free[x] /\ x # new
      /\ \A x \in mgr.live \cup {new} :
            mgr'.next_block[x] = IF x = new THEN b
                                 ELSE IF x = mgr.previous_block[b] THEN new
                                 ELSE mgr.next_block[x]
    <2>1. mgr'.is_free = [[mgr.is_free EXCEPT ![b] = FALSE] EXCEPT ![b] = TRUE]
        BY <1>6, <1>8 DEF DividedFields
    <2>2. ~mgr.is_free[new]
        BY <1>1, <1>5 DEF Sound
    <2> QED
        BY <2>1, <2>2, <1>5, <1>6, <1>7, <1>8 DEF DividedFields, SameBlocks
<1>10. Free(mgr') = Free(mgr) /\ (Free(mgr) \ {b}) \cup {b} = Free(mgr)
    BY <1>5, <1>6, <1>9 DEF Free
<1>11. TypeOK'
    <2>1. lent' \in [DOMAIN lent' -> Sizes] /\ DOMAIN lent' = DOMAIN lent \cup {new}
        BY <1>4 DEF IInv, TypeOK
    <2> QED
        BY <2>1, <1>4, <1>8, <1>9 DEF Sound, IInv, TypeOK
<1>12. FreeOrLent'
    BY <1>4, <1>5, <1>9 DEF IInv, FreeOrLent
<1>13. PointersAreSound'
    BY <1>8, <1>10 DEF PointersAreSound
<1>14. NoFreePairBut(mgr', {})
    <2>1. \A x \in mgr.live : mgr.next_block[x] # Null => mgr.next_block[x] \in mgr.live
        BY <1>1 DEF Sound, Tiled, Tiles, Chained
    <2> QED
        BY <2>1, <1>5, <1>7, <1>9 DEF IInv, NoFreePairBut
<1> QED
    BY <1>11, <1>12, <1>13, <1>14 DEF IInv

\* FreeBlock, up to the push.
LEMMA FreeBlockIsPending ==
    ASSUME IInv, NEW b \in DOMAIN lent
    PROVE  LET m == [mgr EXCEPT !.is_free[b] = TRUE]
           IN  /\ m.live = mgr.live
               /\ SameBlocks(mgr, m)
               /\ m.is_free = [mgr.is_free EXCEPT ![b] = TRUE]
               /\ \E list : Pending(m, list, b)
<1> DEFINE m == [mgr EXCEPT !.is_free[b] = TRUE]
<1>1. PICK list : Sound(mgr, list, Free(mgr))
    BY DEF IInv, PointersAreSound
<1>2. /\ b \in mgr.live /\ b \in Addresses /\ ~mgr.is_free[b]
      /\ mgr.is_free \in [Addresses -> BOOLEAN] /\ mgr.live \in SUBSET Addresses
      /\ mgr \in Manager
    BY <1>1 DEF IInv, TypeOK, FreeOrLent, Manager, Sound
<1>3. /\ m \in Manager
      /\ SameBlocks(mgr, m)
      /\ SameLists(mgr, m)
      /\ m.is_free = [mgr.is_free EXCEPT ![b] = TRUE]
    <2>1. [mgr.is_free EXCEPT ![b] = TRUE] \in [Addresses -> BOOLEAN]
        BY <1>2
    <2> QED
        BY <2>1, <1>2 DEF Manager, SameBlocks, SameLists
<1> HIDE DEF m
<1>4. \A x \in Addresses : m.is_free[x] <=> mgr.is_free[x] \/ x = b
    BY <1>2, <1>3
<1>5. Free(m) \ {b} = Free(mgr)
    BY <1>2, <1>3, <1>4 DEF Free, SameBlocks
<1>6. Sound(m, list, Free(mgr))
    BY <1>1, <1>2, <1>3, <1>4 DEF Sound, OnLists, Tiled, SameBlocks, SameLists
<1>7. NoFreePairBut(m, {b})
    <2>1. \A x \in mgr.live : mgr.next_block[x] # Null => mgr.next_block[x] \in mgr.live
        BY <1>1 DEF Sound, Tiled, Tiles, Chained
    <2> QED
        BY <2>1, <1>2, <1>3, <1>4 DEF IInv, NoFreePairBut, SameBlocks
<1>8. Pending(m, list, b)
    BY <1>2, <1>3, <1>4, <1>5, <1>6, <1>7 DEF Pending, SameBlocks
<1> QED
    BY <1>3, <1>8 DEF m, SameBlocks

LEMMA FreeBlockMerges ==
    ASSUME IInv, NEW b \in DOMAIN lent, FreeBlock(b)
    PROVE  /\ \E list : Sound(mgr', list, Free(mgr'))
           /\ NoFreePairBut(mgr', {})
           /\ Merged([mgr EXCEPT !.is_free[b] = TRUE], mgr', b)
           /\ mgr'.is_free[b]
<1> DEFINE m == [mgr EXCEPT !.is_free[b] = TRUE]
           n == CoalesceFreeBlocks(m, b)
<1>1. PICK list : Pending(m, list, b)
    BY FreeBlockIsPending
<1>2. mgr' = PushFreeBlock(n, b)
    BY DEF FreeBlock
<1> HIDE DEF m
<1>3. /\ Pending(n, list, b)
      /\ Merged(m, n, b)
      /\ NoFreePairBut(n, {})
    BY <1>1, CoalescePending
<1> HIDE DEF n
<1> DEFINE k == GetFreeListIndex(n.lba_count[b])
           list2 == [list EXCEPT ![b] = k]
<1>4. /\ n \in Manager /\ b \in n.live /\ b \in Addresses
      /\ OnLists(n, list, Free(n) \ {b})
      /\ (Free(n) \ {b}) \cup {b} = Free(n)
    BY <1>3 DEF Pending, Sound, Manager, Free
<1>5. /\ mgr' \in Manager
      /\ OnLists(mgr', list2, Free(n))
      /\ SameBlocks(n, mgr')
      /\ mgr'.is_free = n.is_free
    BY <1>2, <1>4, PushOnLists
<1>6. Free(mgr') = Free(n)
    BY <1>5 DEF Free, SameBlocks
<1>7. Placed(mgr'.live, mgr'.lba_count, list2, Free(n))
    <2> SUFFICES ASSUME NEW x \in Free(n)
                 PROVE  list2[x] = GetFreeListIndex(n.lba_count[x])
        BY <1>5 DEF Placed, SameBlocks
    <2>1. list \in [Addresses -> Lists] /\ x \in Addresses
        BY <1>4 DEF OnLists, Free, Manager
    <2>2. CASE x = b
        BY <2>1, <2>2
    <2>3. CASE x # b
        BY <2>1, <2>3, <1>3 DEF Pending, Sound, Placed, Free
    <2> QED
        BY <2>2, <2>3
<1>8. Sound(mgr', list2, Free(mgr'))
    BY <1>3, <1>4, <1>5, <1>6, <1>7 DEF Pending, Sound, Tiled, SameBlocks, Free
<1>9. NoFreePairBut(mgr', {})
    BY <1>3, <1>5 DEF NoFreePairBut, SameBlocks
<1>10. Merged(m, mgr', b)
    BY <1>3, <1>5 DEF Merged, SameBlocks
<1>11. mgr'.is_free[b]
    BY <1>3, <1>5 DEF Pending
<1> QED
    BY <1>8, <1>9, <1>10, <1>11 DEF m

LEMMA FreeBlockIsSound ==
    ASSUME IInv, NEW b \in DOMAIN lent, FreeBlock(b)
    PROVE  IInv'
<1> DEFINE m == [mgr EXCEPT !.is_free[b] = TRUE]
<1>1. /\ PointersAreSound'
      /\ NoFreePairBut(mgr', {})
      /\ Merged(m, mgr', b)
      /\ mgr'.is_free[b]
    BY FreeBlockMerges DEF PointersAreSound
<1>2. /\ m.live = mgr.live
      /\ m.is_free = [mgr.is_free EXCEPT ![b] = TRUE]
    BY FreeBlockIsPending
<1> HIDE DEF m
<1>3. /\ mgr.is_free \in [Addresses -> BOOLEAN] /\ mgr.live \in SUBSET Addresses
      /\ DOMAIN lent \subseteq mgr.live
    BY DEF IInv, TypeOK, Manager
<1>4. \A x \in mgr.live : m.is_free[x] <=> mgr.is_free[x] \/ x = b
    BY <1>2, <1>3
<1>5. lent' = [x \in DOMAIN lent \ {b} |-> lent[x]] /\ answer' = "none"
    BY DEF FreeBlock
<1>6. DOMAIN lent' \subseteq mgr'.live
    <2>1. \A x \in mgr.live \ mgr'.live : mgr.is_free[x] \/ x = b
        BY <1>1, <1>2, <1>4 DEF Merged
    <2> QED
        BY <2>1, <1>3, <1>5 DEF IInv, FreeOrLent
<1>7. TypeOK'
    BY <1>1, <1>5, <1>6 DEF PointersAreSound, Sound, IInv, TypeOK
<1>8. FreeOrLent'
    BY <1>1, <1>2, <1>4, <1>5 DEF Merged, IInv, FreeOrLent
<1> QED
    BY <1>1, <1>7, <1>8 DEF IInv

LEMMA NextIsSound ==
    ASSUME IInv, [Next]_vars
    PROVE  IInv'
<1>1. ASSUME NEW n \in Sizes, AllocateWhole(n) PROVE IInv'
    BY <1>1, AllocateWholeIsSound
<1>2. ASSUME NEW n \in Sizes, AllocateSplit(n) PROVE IInv'
    BY <1>2, AllocateSplitIsSound
<1>3. ASSUME NEW n \in Sizes, AllocateThrows(n) PROVE IInv'
    BY <1>3 DEF AllocateThrows, IInv, TypeOK, FreeOrLent, PointersAreSound, NoFreePairBut
<1>4. ASSUME NEW b \in DOMAIN lent, FreeBlock(b) PROVE IInv'
    BY <1>4, FreeBlockIsSound
<1>5. CASE UNCHANGED vars
    BY <1>5 DEF vars, IInv, TypeOK, FreeOrLent, PointersAreSound, NoFreePairBut
<1> QED
    BY <1>1, <1>2, <1>3, <1>4, <1>5 DEF Next

LEMMA InvariantHolds == ASSUME RegionHasLbas PROVE Spec => []IInv
<1>1. Init => IInv
    BY InitIsSound
<1>2. IInv /\ [Next]_vars => IInv'
    BY NextIsSound
<1> QED
    BY <1>1, <1>2, PTL DEF Spec

\* Types: every pointer of every block leads to a block or nowhere, sizes never
\* go below zero, and what the files hold are blocks that exist
\* (nvmefs_temporary_block_manager.cpp:53).
THEOREM TypeCorrect == ASSUME RegionHasLbas PROVE Spec => []TypeOK
<1>1. IInv => TypeOK
    BY DEF IInv
<1> QED
    BY <1>1, InvariantHolds, PTL

LEMMA TilesAreTiles ==
    ASSUME IInv
    PROVE  BlocksTileRegion
<1>1. /\ Tiled(mgr) /\ mgr \in Manager
      /\ Null \notin mgr.live
    BY BlockAssumption DEF IInv, PointersAreSound, Sound, Manager
<1>2. /\ mgr.start_lba[mgr.blocks] = RegionStart
      /\ mgr.previous_block[mgr.blocks] = Null
    BY <1>1 DEF Tiled, Tiles, Chained
<1>3. \A b \in mgr.live :
        LET right == mgr.next_block[b]
            end == mgr.start_lba[b] + mgr.lba_count[b]
        IN  IF right = Null THEN end = RegionEnd
            ELSE /\ right \in mgr.live
                 /\ mgr.previous_block[right] = b
                 /\ mgr.start_lba[right] = end
    BY <1>1 DEF Tiled, Tiles, Chained
<1>4. \A b \in mgr.live \ {mgr.blocks} : \E left \in mgr.live : mgr.next_block[left] = b
    BY <1>1 DEF Tiled, Tiles, Chained
<1>5. ASSUME NEW l \in RegionStart .. RegionEnd - 1
      PROVE  Cardinality({b \in mgr.live :
                mgr.start_lba[b] <= l /\ l < mgr.start_lba[b] + mgr.lba_count[b]}) = 1
    <2> DEFINE S == {b \in mgr.live :
                mgr.start_lba[b] <= l /\ l < mgr.start_lba[b] + mgr.lba_count[b]}
    <2>1. PICK b \in mgr.live :
            mgr.start_lba[b] <= l /\ l < mgr.start_lba[b] + mgr.lba_count[b]
        BY <1>1 DEF Tiled, Tiles, Covered
    <2>2. l \in Int
        BY BlockAssumption DEF RegionEnd
    <2>3. \A x \in mgr.live : mgr.start_lba[x] \in Nat /\ mgr.lba_count[x] \in Nat
        BY <1>1 DEF Manager
    <2>4. ASSUME NEW x \in S PROVE x = b
        BY <1>1, <2>1, <2>2, <2>3 DEF Tiled, Tiles, Apart
    <2>5. S = {b}
        BY <2>1, <2>4
    <2> HIDE DEF S
    <2>6. Cardinality(S) = 1
        BY <2>5, FS_Singleton
    <2> QED
        BY <2>6 DEF S
<1> QED
    BY <1>2, <1>3, <1>4, <1>5 DEF BlocksTileRegion

\* The list of blocks is the same in both directions and tiles the region: no
\* splitting and no merging loses an LBA or puts one in two blocks
\* (nvmefs_temporary_block_manager.cpp:125 and :240).
THEOREM BlocksMakeUpTheRegion == ASSUME RegionHasLbas PROVE Spec => []BlocksTileRegion
<1>1. IInv => BlocksTileRegion
    BY TilesAreTiles
<1> QED
    BY <1>1, InvariantHolds, PTL

\* The region does not fit in the classes before the last.
RegionIsInTheLastClass == ~SmallRegion

LEMMA ListsAreExact ==
    ASSUME RegionIsInTheLastClass, IInv
    PROVE  FreeListsAreExact
<1>1. PICK list : Sound(mgr, list, Free(mgr))
    BY DEF IInv, PointersAreSound
<1> DEFINE OfClass(k) == {b \in mgr.live :
                mgr.is_free[b] /\ GetFreeListIndex(mgr.lba_count[b]) = k}
<1>2. \A k \in Lists : OfClass(k) = {b \in Free(mgr) : list[b] = k}
    BY <1>1 DEF Sound, Placed, Free, RegionIsInTheLastClass
<1>3. ASSUME NEW k \in Lists PROVE FreeList(k) = OfClass(k)
    <2>1. ASSUME NEW b \in OfClass(k) PROVE b \in FreeList(k)
        <3>1. b \in Free(mgr) /\ list[b] = k /\ b \in Addresses
            BY <1>1, <1>2 DEF Sound, Manager
        <3>2. ASSUME NEW S \in SUBSET Addresses, FollowsPointers(S),
                     mgr.blocks_free[k] \in S \cup {Null}
              PROVE  b \in S
            BY <1>1, <3>1, <3>2 DEF Sound, OnLists, Reached, Closed, FollowsPointers
        <3> QED
            BY <3>1, <3>2 DEF FreeList
    <2>2. ASSUME NEW b \in FreeList(k) PROVE b \in OfClass(k)
        <3>1. OfClass(k) \in SUBSET Addresses
            BY <1>1 DEF Sound, Manager
        <3>2. FollowsPointers(OfClass(k))
            BY <1>1, <1>2 DEF Sound, OnLists, Linked, FollowsPointers
        <3>3. mgr.blocks_free[k] \in OfClass(k) \cup {Null}
            BY <1>1, <1>2 DEF Sound, OnLists, Linked
        <3> HIDE DEF OfClass
        <3> QED
            BY <3>1, <3>2, <3>3 DEF FreeList
    <2> QED
        BY <2>1, <2>2 DEF FreeList
<1>4. ASSUME NEW k \in Lists
      PROVE  mgr.blocks_free[k] # Null => mgr.previous_free_block[mgr.blocks_free[k]] = Null
    BY <1>1 DEF Sound, OnLists, Linked
<1>5. ASSUME NEW k \in Lists, NEW b \in FreeList(k)
      PROVE  /\ b \notin DOMAIN lent
             /\ mgr.next_free_block[b] # Null =>
                mgr.previous_free_block[mgr.next_free_block[b]] = b
    <2>1. b \in Free(mgr)
        BY <1>2, <1>3
    <2> QED
        BY <2>1, <1>1 DEF IInv, FreeOrLent, Free, Sound, OnLists, Linked
<1> QED
    BY <1>3, <1>4, <1>5 DEF FreeListsAreExact

\* A block is on the free list of its size, and on no other, exactly when it is
\* free and lent to nobody, through any pushing, popping and removing from
\* inside a list (nvmefs_temporary_block_manager.cpp:180, :196 and :220).
THEOREM FreeBlocksAreListed ==
    ASSUME RegionIsInTheLastClass
    PROVE  Spec => []FreeListsAreExact
<1>1. IInv => FreeListsAreExact
    BY ListsAreExact
<1>2. RegionHasLbas
    BY BlockAssumption DEF RegionIsInTheLastClass, SmallRegion, RegionHasLbas
<1> QED
    BY <1>1, <1>2, InvariantHolds, PTL

\* Merging at every release leaves no two free neighbours, and a block that is
\* not free is lent: no space is lost (nvmefs_temporary_block_manager.cpp:240).
THEOREM FreeSpaceStaysMerged == ASSUME RegionHasLbas PROVE Spec => []FreeSpaceIsMerged
<1>1. IInv => FreeSpaceIsMerged
    BY DEF IInv, FreeOrLent, NoFreePairBut, FreeSpaceIsMerged
<1> QED
    BY <1>1, InvariantHolds, PTL

-----------------------------------------------------------------------------
(***************************************************************************)
(* The layout of the default sizes: the files ask for the sizes of the     *)
(* classes, 8 LBAs apart, and the space is a multiple of the class width,  *)
(* of which the manager leaves the last LBA out.                           *)
(***************************************************************************)
DefaultLayout ==
    /\ ClassLbas > 1
    /\ RegionIsInTheLastClass
    /\ \A n \in Sizes : \E j \in Lists : n = (j + 1) * ClassLbas
    /\ \E q \in Nat : RegionLbas + 1 = q * ClassLbas

LEMMA Multiples ==
    ASSUME NEW w \in Nat \ {0}
    PROVE  /\ \A i, j \in Nat : i * w < j * w => i < j
           /\ \A i, j \in Nat : i <= j => i * w <= j * w
           /\ \A i, j \in Nat : (i + j) * w = i * w + j * w
           /\ \A i \in Nat : (i + 1) * w = i * w + w
           /\ \A i \in Nat : i * w \in Nat
    OBVIOUS

\* What lies in a class is larger than all that lies in the class before.
LEMMA ClassBounds ==
    ASSUME NEW n \in Nat \ {0}
    PROVE  /\ GetFreeListIndex(n) * ClassLbas < n
           /\ \A j \in Lists : j * ClassLbas < n => j <= GetFreeListIndex(n)
           /\ \A j \in Lists : n <= (j + 1) * ClassLbas => GetFreeListIndex(n) <= j
<1> DEFINE T == {Classes - 1} \cup {k \in Lists : n <= (k + 1) * ClassLbas}
           i == GetFreeListIndex(n)
<1>1. T \subseteq Lists /\ T # {} /\ Lists \subseteq Nat
    BY BlockAssumption DEF Lists
<1>2. i \in T /\ i \in Nat /\ \A k \in T : i <= k
    <2>1. i = SmallestOf(T)
        BY DEF GetFreeListIndex
    <2> HIDE DEF T, i
    <2> QED
        BY <1>1, <2>1, SmallestExists
<1>3. i * ClassLbas < n
    <2>1. CASE i = 0
        BY <2>1, BlockAssumption
    <2>2. CASE i # 0
        <3>1. i - 1 \in Lists /\ i - 1 \notin T
            BY <1>1, <1>2, <2>2 DEF Lists
        <3>2. ~(n <= ((i - 1) + 1) * ClassLbas)
            BY <3>1
        <3>3. (i - 1) + 1 = i /\ i \in Nat
            BY <1>2
        <3>4. i * ClassLbas \in Nat
            BY <3>3, BlockAssumption, Multiples
        <3> QED
            BY <3>2, <3>3, <3>4
    <2> QED
        BY <2>1, <2>2
<1>4. ASSUME NEW j \in Lists, j * ClassLbas < n PROVE j <= i
    <2>1. CASE i = Classes - 1
        BY <2>1, BlockAssumption DEF Lists
    <2>2. CASE i # Classes - 1
        <3>1. n <= (i + 1) * ClassLbas /\ i \in Nat /\ j \in Nat
            BY <1>1, <1>2, <2>2
        <3>2. j * ClassLbas \in Nat /\ (i + 1) * ClassLbas \in Nat
            BY <3>1, BlockAssumption, Multiples
        <3>3. j * ClassLbas < (i + 1) * ClassLbas
            BY <3>1, <3>2, <1>4
        <3>4. j < i + 1
            BY <3>1, <3>3, BlockAssumption, Multiples
        <3> QED
            BY <3>1, <3>4
    <2> QED
        BY <2>1, <2>2
<1>5. ASSUME NEW j \in Lists, n <= (j + 1) * ClassLbas PROVE i <= j
    BY <1>2, <1>5
<1> QED
    BY <1>3, <1>4, <1>5

\* Under that layout every block starts at a multiple of the class width.
Aligned(m) ==
    \A b \in m.live : \E q \in Nat : m.start_lba[b] = RegionStart + q * ClassLbas

\* So a block that is no shorter than a class is shorter than the next size
\* only at the end of the region, and by one LBA.
LEMMA AlignedSizes ==
    ASSUME DefaultLayout, NEW m \in Manager, Tiled(m), Aligned(m), NEW b \in m.live,
           NEW j \in Nat, j * ClassLbas < m.lba_count[b]
    PROVE  \/ m.lba_count[b] >= (j + 1) * ClassLbas
           \/ m.next_block[b] = Null /\ m.lba_count[b] = (j + 1) * ClassLbas - 1
<1> DEFINE start == m.start_lba[b]
           count == m.lba_count[b]
           right == m.next_block[b]
<1>1. PICK q \in Nat : start = RegionStart + q * ClassLbas
    BY DEF Aligned
<1>2. /\ start \in Nat /\ count \in Nat /\ RegionStart \in Nat /\ RegionLbas \in Nat
      /\ ClassLbas \in Nat \ {0}
    BY BlockAssumption DEF Manager
<1>3. /\ q * ClassLbas \in Nat /\ j * ClassLbas \in Nat
      /\ (j + 1) * ClassLbas = j * ClassLbas + ClassLbas
      /\ (q + (j + 1)) * ClassLbas = q * ClassLbas + (j + 1) * ClassLbas
      /\ (q + j) * ClassLbas = q * ClassLbas + j * ClassLbas
    BY <1>2, Multiples
<1>4. CASE right # Null
    <2>1. right \in m.live /\ m.start_lba[right] = start + count
        BY <1>4 DEF Tiled, Tiles, Chained
    <2>2. PICK r \in Nat : m.start_lba[right] = RegionStart + r * ClassLbas
        BY <2>1 DEF Aligned
    <2>3. r * ClassLbas \in Nat /\ r * ClassLbas = q * ClassLbas + count
        BY <1>1, <1>2, <1>3, <2>1, <2>2, Multiples
    <2>4. (q + j) * ClassLbas < r * ClassLbas
        BY <1>2, <1>3, <2>3
    <2>5. q + j < r
        BY <1>2, <2>4, Multiples
    <2>6. (q + (j + 1)) * ClassLbas <= r * ClassLbas
        BY <1>2, <2>5, Multiples
    <2> QED
        BY <1>2, <1>3, <2>3, <2>6
<1>5. CASE right = Null
    <2>1. start + count = RegionStart + RegionLbas
        BY <1>5 DEF Tiled, Tiles, Chained, RegionEnd
    <2>2. PICK r \in Nat : RegionLbas + 1 = r * ClassLbas
        BY DEF DefaultLayout
    <2>3. r * ClassLbas \in Nat /\ r * ClassLbas = q * ClassLbas + count + 1
        BY <1>1, <1>2, <1>3, <2>1, <2>2
    <2>4. (q + j) * ClassLbas < r * ClassLbas
        BY <1>2, <1>3, <2>3
    <2>5. q + j < r
        BY <1>2, <2>4, Multiples
    <2>6. (q + (j + 1)) * ClassLbas <= r * ClassLbas
        BY <1>2, <2>5, Multiples
    <2>7. count + 1 >= (j + 1) * ClassLbas
        BY <1>2, <1>3, <2>3, <2>6
    <2> QED
        BY <1>2, <1>3, <1>5, <2>7
<1> QED
    BY <1>4, <1>5

\* No block is lent to a call that asked for less.
LentBlocksAreUsed == \A b \in DOMAIN lent : mgr.lba_count[b] <= lent[b]

LayoutInv == Aligned(mgr) /\ ShortBlocksEndTheRegion /\ LentBlocksAreUsed

\* The block AllocateBlock takes is as large as what is asked for, or one LBA
\* shorter and the last.
LEMMA CandidateIsEnough ==
    ASSUME DefaultLayout, IInv, LayoutInv, NEW n \in Sizes, Candidates(n) # {}
    PROVE  LET b == mgr.blocks_free[SmallestOf(Candidates(n))]
           IN  /\ b \in Free(mgr)
               /\ \/ mgr.lba_count[b] >= n
                  \/ mgr.next_block[b] = Null /\ mgr.lba_count[b] = n - 1
<1> DEFINE k == SmallestOf(Candidates(n))
           b == mgr.blocks_free[k]
<1>1. PICK list : Sound(mgr, list, Free(mgr))
    BY DEF IInv, PointersAreSound
<1>2. PICK j \in Lists : n = (j + 1) * ClassLbas
    BY DEF DefaultLayout
<1>3. n \in Nat \ {0} /\ j \in Nat /\ ClassLbas \in Nat \ {0}
    BY BlockAssumption DEF Lists
<1>4. k \in Lists /\ k \in Nat /\ k >= GetFreeListIndex(n) /\ b # Null
    <2>1. Lists \subseteq Nat
        BY BlockAssumption DEF Lists
    <2> QED
        BY <1>3, <2>1, CandidateIsAList DEF IInv
<1> HIDE DEF k
<1>5. b \in Free(mgr) /\ list[b] = k
    BY <1>1, <1>4 DEF Sound, OnLists, Linked
<1>6. /\ b \in mgr.live /\ mgr.lba_count[b] \in Nat \ {0}
      /\ k = GetFreeListIndex(mgr.lba_count[b])
    <2>1. b \in mgr.live /\ mgr.lba_count[b] > 0
        BY <1>1, <1>5 DEF Free, Sound, Tiled, Tiles, Chained
    <2>2. mgr.lba_count[b] \in Nat
        BY <1>1, <2>1 DEF Sound, Manager
    <2> QED
        BY <1>1, <1>5, <2>1, <2>2 DEF Sound, Placed, DefaultLayout, RegionIsInTheLastClass
<1> HIDE DEF b
<1>7. j <= k
    <2>1. j * ClassLbas \in Nat /\ j * ClassLbas < n
        BY <1>2, <1>3, Multiples
    <2>2. j <= GetFreeListIndex(n)
        BY <1>3, <2>1, ClassBounds
    <2>3. GetFreeListIndex(n) \in Nat
        BY <1>3, IndexIsAList DEF Lists
    <2> QED
        BY <1>3, <1>4, <2>2, <2>3
<1>8. j * ClassLbas < mgr.lba_count[b]
    <2>1. k * ClassLbas < mgr.lba_count[b]
        BY <1>6, ClassBounds
    <2>2. j * ClassLbas <= k * ClassLbas /\ j * ClassLbas \in Nat /\ k * ClassLbas \in Nat
        BY <1>3, <1>4, <1>7, Multiples
    <2> QED
        BY <1>6, <2>1, <2>2
<1>9. \/ mgr.lba_count[b] >= (j + 1) * ClassLbas
      \/ mgr.next_block[b] = Null /\ mgr.lba_count[b] = (j + 1) * ClassLbas - 1
    BY <1>1, <1>3, <1>6, <1>8, AlignedSizes DEF LayoutInv, Sound
<1> QED
    BY <1>2, <1>5, <1>9 DEF b, k

LEMMA WholeFields ==
    ASSUME IInv, NEW n \in Sizes, AllocateWhole(n)
    PROVE  LET b == mgr.blocks_free[SmallestOf(Candidates(n))]
           IN  /\ b \in Free(mgr)
               /\ mgr.lba_count[b] <= n
               /\ SameBlocks(mgr, mgr')
               /\ lent' = [x \in DOMAIN lent \cup {b} |-> IF x = b THEN n ELSE lent[x]]
<1> DEFINE k == SmallestOf(Candidates(n))
           b == mgr.blocks_free[k]
<1>1. PICK list : Sound(mgr, list, Free(mgr))
    BY DEF IInv, PointersAreSound
<1>2. n \in Nat
    BY BlockAssumption
<1>3. k \in Lists /\ b # Null
    BY <1>2, CandidateIsAList DEF AllocateWhole, IInv
<1>4. /\ mgr' = PopFreeBlock(mgr, k)
      /\ lent' = [x \in DOMAIN lent \cup {b} |-> IF x = b THEN n ELSE lent[x]]
      /\ mgr.lba_count[b] <= n
    BY DEF AllocateWhole, Lend
<1> HIDE DEF k
<1>5. b \in Free(mgr) /\ SameBlocks(mgr, mgr')
    BY <1>1, <1>3, <1>4, PopIsSound
<1> QED
    BY <1>4, <1>5 DEF k

LEMMA SplitFields ==
    ASSUME IInv, NEW n \in Sizes, AllocateSplit(n)
    PROVE  LET b == mgr.blocks_free[SmallestOf(Candidates(n))]
               new == CHOOSE a \in Addresses : a \notin mgr.live
           IN  /\ b \in Free(mgr) /\ new \in Addresses \ mgr.live
               /\ n < mgr.lba_count[b]
               /\ mgr'.live = mgr.live \cup {new}
               /\ \A x \in mgr'.live :
                    /\ mgr'.start_lba[x] = IF x = new THEN mgr.start_lba[b]
                                           ELSE IF x = b THEN mgr.start_lba[b] + n
                                           ELSE mgr.start_lba[x]
                    /\ mgr'.lba_count[x] = IF x = new THEN n
                                           ELSE IF x = b THEN mgr.lba_count[b] - n
                                           ELSE mgr.lba_count[x]
                    /\ mgr'.next_block[x] = IF x = new THEN b
                                            ELSE IF x = mgr.previous_block[b] THEN new
                                            ELSE mgr.next_block[x]
               /\ lent' = [x \in DOMAIN lent \cup {new} |-> IF x = new THEN n ELSE lent[x]]
<1> DEFINE k == SmallestOf(Candidates(n))
           b == mgr.blocks_free[k]
           new == CHOOSE a \in Addresses : a \notin mgr.live
           p == PopFreeBlock(mgr, k)
<1>1. PICK list : Sound(mgr, list, Free(mgr))
    BY DEF IInv, PointersAreSound
<1>2. n \in Nat \ {0}
    BY BlockAssumption
<1>3. k \in Lists /\ b # Null
    BY <1>2, CandidateIsAList DEF AllocateSplit, IInv
<1>4. /\ mgr' = SplitBlock(p, b, n, new)
      /\ lent' = [x \in DOMAIN lent \cup {new} |-> IF x = new THEN n ELSE lent[x]]
      /\ n < mgr.lba_count[b]
    <2>1. mgr.lba_count[b] > n
        BY DEF AllocateSplit
    <2> QED
        BY <2>1 DEF AllocateSplit, Lend
<1>5. new \in Addresses \ mgr.live
    <2>1. \E a \in Addresses : a \notin mgr.live
        BY <1>1 DEF AllocateSplit, Sound, Manager
    <2> QED
        BY <2>1
<1> HIDE DEF k, new
<1>6. /\ b \in Free(mgr)
      /\ Sound(p, list, Free(mgr) \ {b})
      /\ SameBlocks(mgr, p)
    BY <1>1, <1>3, PopIsSound
<1> HIDE DEF p
<1>7. DividedFields(p, b, n, new, mgr')
    <2>1. b \in p.live \ (Free(mgr) \ {b}) /\ new \in Addresses \ p.live /\ n < p.lba_count[b]
        BY <1>4, <1>5, <1>6 DEF SameBlocks, Free
    <2> HIDE DEF b
    <2> QED
        BY <2>1, <1>2, <1>4, <1>6, SplitIsSound
<1>8. mgr.live \in SUBSET Addresses
    BY <1>1 DEF Sound, Manager
<1>9. /\ mgr'.live = mgr.live \cup {new}
      /\ \A x \in mgr'.live :
            /\ mgr'.start_lba[x] = IF x = new THEN mgr.start_lba[b]
                                   ELSE IF x = b THEN mgr.start_lba[b] + n
                                   ELSE mgr.start_lba[x]
            /\ mgr'.lba_count[x] = IF x = new THEN n
                                   ELSE IF x = b THEN mgr.lba_count[b] - n
                                   ELSE mgr.lba_count[x]
            /\ mgr'.next_block[x] = IF x = new THEN b
                                    ELSE IF x = mgr.previous_block[b] THEN new
                                    ELSE mgr.next_block[x]
    BY <1>5, <1>6, <1>7, <1>8 DEF DividedFields, SameBlocks
<1> QED
    BY <1>4, <1>5, <1>6, <1>9 DEF k, new

LEMMA LayoutInit ==
    ASSUME Init
    PROVE  LayoutInv
<1>1. DOMAIN lent = {}
    BY DEF Init
<1>2. PICK b \in Addresses : mgr.live = {b} /\ mgr.start_lba[b] = RegionStart
    <2> DEFINE b == CHOOSE a \in Addresses : TRUE
    <2>1. b \in Addresses
        BY BlockAssumption
    <2>2. mgr = [live |-> {b},
                 start_lba |-> [All(0) EXCEPT ![b] = RegionStart],
                 lba_count |-> [All(0) EXCEPT ![b] = RegionLbas],
                 is_free |-> [All(FALSE) EXCEPT ![b] = TRUE],
                 next_block |-> All(Null), previous_block |-> All(Null),
                 next_free_block |-> All(Null), previous_free_block |-> All(Null),
                 blocks |-> b,
                 blocks_free |-> [k \in Lists |-> IF k = Classes - 1 THEN b ELSE Null]]
        BY DEF Init
    <2> HIDE DEF b
    <2> QED
        BY <2>1, <2>2 DEF All
<1>3. RegionStart = RegionStart + 0 * ClassLbas
    BY BlockAssumption
<1> QED
    BY <1>1, <1>2, <1>3 DEF LayoutInv, Aligned, ShortBlocksEndTheRegion, LentBlocksAreUsed

LEMMA LayoutIsKept ==
    ASSUME DefaultLayout, IInv, LayoutInv, [Next]_vars
    PROVE  LayoutInv'
<1>1. PICK list : Sound(mgr, list, Free(mgr))
    BY DEF IInv, PointersAreSound
<1>2. \A x \in mgr.live : mgr.start_lba[x] \in Nat /\ mgr.lba_count[x] \in Nat
    BY <1>1 DEF Sound, Manager
<1>3. \A x \in DOMAIN lent : x \in mgr.live /\ x \notin Free(mgr) /\ lent[x] \in Nat
    BY BlockAssumption DEF IInv, TypeOK, FreeOrLent, Free
<1>4. ASSUME NEW n \in Sizes, AllocateWhole(n) PROVE LayoutInv'
    <2> DEFINE b == mgr.blocks_free[SmallestOf(Candidates(n))]
    <2>1. /\ b \in Free(mgr)
          /\ mgr.lba_count[b] <= n
          /\ SameBlocks(mgr, mgr')
          /\ lent' = [x \in DOMAIN lent \cup {b} |-> IF x = b THEN n ELSE lent[x]]
        BY <1>4, WholeFields
    <2>2. \/ mgr.lba_count[b] >= n
          \/ mgr.next_block[b] = Null /\ mgr.lba_count[b] = n - 1
        BY <1>4, CandidateIsEnough DEF AllocateWhole
    <2>3. n \in Nat /\ mgr.lba_count[b] \in Nat
        BY <1>2, <2>1, BlockAssumption DEF Free
    <2> HIDE DEF b
    <2>4. Aligned(mgr')
        BY <2>1 DEF LayoutInv, Aligned, SameBlocks
    <2>5. ShortBlocksEndTheRegion'
        BY <2>1, <2>2, <2>3 DEF LayoutInv, ShortBlocksEndTheRegion, SameBlocks
    <2>6. LentBlocksAreUsed'
        BY <2>1 DEF LayoutInv, LentBlocksAreUsed, SameBlocks
    <2> QED
        BY <2>4, <2>5, <2>6 DEF LayoutInv, Aligned
<1>5. ASSUME NEW n \in Sizes, AllocateSplit(n) PROVE LayoutInv'
    <2> DEFINE b == mgr.blocks_free[SmallestOf(Candidates(n))]
               new == CHOOSE a \in Addresses : a \notin mgr.live
    <2>1. /\ b \in Free(mgr) /\ new \in Addresses \ mgr.live
          /\ mgr'.live = mgr.live \cup {new}
          /\ \A x \in mgr'.live :
                /\ mgr'.start_lba[x] = IF x = new THEN mgr.start_lba[b]
                                       ELSE IF x = b THEN mgr.start_lba[b] + n
                                       ELSE mgr.start_lba[x]
                /\ mgr'.lba_count[x] = IF x = new THEN n
                                       ELSE IF x = b THEN mgr.lba_count[b] - n
                                       ELSE mgr.lba_count[x]
                /\ mgr'.next_block[x] = IF x = new THEN b
                                        ELSE IF x = mgr.previous_block[b] THEN new
                                        ELSE mgr.next_block[x]
          /\ lent' = [x \in DOMAIN lent \cup {new} |-> IF x = new THEN n ELSE lent[x]]
        BY <1>5, SplitFields
    <2>2. b \in mgr.live /\ b # new /\ n \in Nat
        BY <2>1, BlockAssumption DEF Free
    <2> HIDE DEF b, new
    <2>3. Aligned(mgr')
        <3> SUFFICES ASSUME NEW x \in mgr'.live
                     PROVE  \E q \in Nat : mgr'.start_lba[x] = RegionStart + q * ClassLbas
            BY DEF Aligned
        <3>1. PICK q \in Nat : mgr.start_lba[b] = RegionStart + q * ClassLbas
            BY <2>2 DEF LayoutInv, Aligned
        <3>2. CASE x = new
            BY <2>1, <3>1, <3>2
        <3>3. CASE x = b
            <4>1. PICK j \in Lists : n = (j + 1) * ClassLbas
                BY <1>5 DEF DefaultLayout
            <4>2. j + 1 \in Nat /\ q * ClassLbas \in Nat
                  /\ (q + (j + 1)) * ClassLbas = q * ClassLbas + (j + 1) * ClassLbas
                <5>1. j + 1 \in Nat /\ ClassLbas \in Nat \ {0}
                    BY BlockAssumption DEF Lists
                <5> QED
                    BY <5>1, Multiples
            <4>3. mgr'.start_lba[x] = RegionStart + (q + (j + 1)) * ClassLbas
                BY <2>1, <2>2, <3>1, <3>3, <4>1, <4>2, BlockAssumption
            <4> QED
                BY <4>2, <4>3
        <3>4. CASE x # new /\ x # b
            BY <2>1, <3>4 DEF LayoutInv, Aligned
        <3> QED
            BY <3>2, <3>3, <3>4
    <2>4. ShortBlocksEndTheRegion'
        <3> SUFFICES ASSUME NEW x \in DOMAIN lent', mgr'.lba_count[x] < lent'[x]
                     PROVE  mgr'.next_block[x] = Null /\ mgr'.lba_count[x] = lent'[x] - 1
            BY DEF ShortBlocksEndTheRegion
        <3>1. x # new
            BY <2>1, <2>2
        <3>2. x \in DOMAIN lent /\ x # b /\ x \in mgr.live
            BY <1>3, <2>1, <3>1
        <3>3. mgr'.lba_count[x] = mgr.lba_count[x] /\ lent'[x] = lent[x]
            BY <2>1, <3>1, <3>2
        <3>4. mgr.next_block[x] = Null /\ mgr.lba_count[x] = lent[x] - 1
            BY <3>2, <3>3 DEF LayoutInv, ShortBlocksEndTheRegion
        <3>5. x # mgr.previous_block[b]
            <4>1. mgr.previous_block[b] # Null => mgr.next_block[mgr.previous_block[b]] = b
                BY <1>1, <2>2 DEF Sound, Tiled, Tiles, Chained
            <4>2. Null \notin mgr.live
                BY <1>1, BlockAssumption DEF Sound, Manager
            <4> QED
                BY <2>2, <3>2, <3>4, <4>1, <4>2
        <3> QED
            BY <2>1, <3>1, <3>2, <3>3, <3>4, <3>5
    <2>5. LentBlocksAreUsed'
        <3> SUFFICES ASSUME NEW x \in DOMAIN lent'
                     PROVE  mgr'.lba_count[x] <= lent'[x]
            BY DEF LentBlocksAreUsed
        <3>1. CASE x = new
            BY <2>1, <2>2, <3>1
        <3>2. CASE x # new
            BY <1>3, <2>1, <3>2 DEF LayoutInv, LentBlocksAreUsed
        <3> QED
            BY <3>1, <3>2
    <2> QED
        BY <2>3, <2>4, <2>5 DEF LayoutInv, Aligned
<1>6. ASSUME NEW n \in Sizes, AllocateThrows(n) PROVE LayoutInv'
    BY <1>6 DEF AllocateThrows, LayoutInv, Aligned, ShortBlocksEndTheRegion, LentBlocksAreUsed
<1>7. ASSUME NEW b \in DOMAIN lent, FreeBlock(b) PROVE LayoutInv'
    <2> DEFINE m == [mgr EXCEPT !.is_free[b] = TRUE]
    <2>1. SameBlocks(mgr, m)
        BY FreeBlockIsPending
    <2>2. Merged(m, mgr', b)
        BY <1>7, FreeBlockMerges
    <2>3. lent' = [x \in DOMAIN lent \ {b} |-> lent[x]]
        BY <1>7 DEF FreeBlock
    <2>4. DOMAIN lent' \subseteq mgr'.live
        BY <1>7, FreeBlockIsSound DEF IInv, TypeOK
    <2> HIDE DEF m
    <2>5. Aligned(mgr')
        BY <2>1, <2>2 DEF Merged, SameBlocks, LayoutInv, Aligned
    <2>6. ShortBlocksEndTheRegion'
        BY <2>1, <2>2, <2>3, <2>4 DEF Merged, SameBlocks, LayoutInv, ShortBlocksEndTheRegion
    <2>7. LentBlocksAreUsed'
        BY <2>1, <2>2, <2>3, <2>4 DEF Merged, SameBlocks, LayoutInv, LentBlocksAreUsed
    <2> QED
        BY <2>5, <2>6, <2>7 DEF LayoutInv, Aligned
<1>8. CASE UNCHANGED vars
    BY <1>8 DEF vars, LayoutInv, Aligned, ShortBlocksEndTheRegion, LentBlocksAreUsed
<1> QED
    BY <1>4, <1>5, <1>6, <1>7, <1>8 DEF Next

LEMMA DefaultRegionHasLbas == DefaultLayout => RegionHasLbas
    BY BlockAssumption DEF DefaultLayout, RegionIsInTheLastClass, SmallRegion, RegionHasLbas

LEMMA LayoutHolds == ASSUME DefaultLayout PROVE Spec => [](IInv /\ LayoutInv)
<1>1. Init => IInv /\ LayoutInv
    BY DefaultRegionHasLbas, InitIsSound, LayoutInit
<1>2. IInv /\ LayoutInv /\ [Next]_vars => (IInv /\ LayoutInv)'
    BY NextIsSound, LayoutIsKept
<1> QED
    BY <1>1, <1>2, PTL DEF Spec

\* AllocateBlock pops the head of a list without comparing sizes
\* (nvmefs_temporary_block_manager.cpp:78).  Under the default layout a block
\* shorter than what was asked for is short by one LBA and ends the region.
THEOREM ShortBlocksAreLast == ASSUME DefaultLayout PROVE Spec => []ShortBlocksEndTheRegion
<1>1. LayoutInv => ShortBlocksEndTheRegion
    BY DEF LayoutInv
<1> QED
    BY <1>1, LayoutHolds, PTL

-----------------------------------------------------------------------------
(***************************************************************************)
(* The refinement of TempSpace.                                            *)
(***************************************************************************)
RunOf(b, n) == mgr.start_lba[b] .. mgr.start_lba[b] + n - 1

\* A transfer of n LBAs stays in block b, or ends on the LBA behind the region.
Fits(b, n) ==
    \/ n <= mgr.lba_count[b]
    \/ mgr.next_block[b] = Null /\ n = mgr.lba_count[b] + 1

Used == {RunOf(b, lent[b]) : b \in DOMAIN lent}

LEMMA UsedIsUsed ==
    ASSUME NEW first, NEW n
    PROVE  /\ Space!IsFree(first, n) <=>
                /\ first .. first + n - 1 \subseteq RegionStart .. RegionEnd
                /\ \A run \in Used : (first .. first + n - 1) \cap run = {}
           /\ Space!Allocate(first, n) <=>
                /\ Space!IsFree(first, n)
                /\ Used' = Used \cup {first .. first + n - 1}
                /\ answer' = "block"
           /\ Space!Refuse(n) <=>
                /\ \A l \in RegionStart .. RegionEnd : ~Space!IsFree(l, n)
                /\ answer' = "No free block available"
                /\ Used' = Used
    BY DEF Space!IsFree, Space!Run, Space!Allocate, Space!Refuse, Used, RunOf

LEMMA FittingRuns ==
    ASSUME IInv, NEW b \in mgr.live, NEW n \in Nat, Fits(b, n)
    PROVE  /\ RunOf(b, n) \subseteq RegionStart .. RegionEnd
           /\ \A c \in mgr.live \ {b}, i \in Nat : Fits(c, i) => RunOf(b, n) \cap RunOf(c, i) = {}
<1>1. PICK list : Sound(mgr, list, Free(mgr))
    BY DEF IInv, PointersAreSound
<1>2. \A x \in mgr.live :
        /\ mgr.start_lba[x] \in Nat /\ mgr.lba_count[x] \in Nat /\ mgr.lba_count[x] > 0
        /\ RegionStart <= mgr.start_lba[x]
        /\ mgr.start_lba[x] + mgr.lba_count[x] <= RegionEnd
        /\ mgr.next_block[x] = Null => mgr.start_lba[x] + mgr.lba_count[x] = RegionEnd
    BY <1>1 DEF Sound, Manager, Tiled, Tiles, Chained, Inside
<1>3. RegionStart \in Nat /\ RegionEnd \in Nat
    BY BlockAssumption DEF RegionEnd
<1>4. RunOf(b, n) \subseteq RegionStart .. RegionEnd
    BY <1>2, <1>3 DEF RunOf, Fits
<1>5. ASSUME NEW c \in mgr.live \ {b}, NEW i \in Nat, Fits(c, i)
      PROVE  RunOf(b, n) \cap RunOf(c, i) = {}
    <2>1. \/ mgr.start_lba[b] + mgr.lba_count[b] <= mgr.start_lba[c]
          \/ mgr.start_lba[c] + mgr.lba_count[c] <= mgr.start_lba[b]
        BY <1>1 DEF Sound, Tiled, Tiles, Apart
    <2>2. mgr.start_lba[b] + n <= mgr.start_lba[c] \/ mgr.start_lba[c] + i <= mgr.start_lba[b]
        BY <1>2, <1>3, <1>5, <2>1 DEF Fits
    <2> QED
        BY <1>2, <2>2 DEF RunOf
<1> QED
    BY <1>4, <1>5

LEMMA LentRunsFit ==
    ASSUME IInv, LayoutInv, NEW b \in DOMAIN lent
    PROVE  /\ b \in mgr.live /\ b \notin Free(mgr)
           /\ lent[b] \in Nat \ {0}
           /\ Fits(b, lent[b])
<1>1. /\ b \in mgr.live /\ b \notin Free(mgr)
      /\ lent[b] \in Nat \ {0}
    BY BlockAssumption DEF IInv, TypeOK, FreeOrLent, Free
<1>2. mgr.lba_count[b] \in Nat
    BY <1>1 DEF IInv, TypeOK, Manager
<1>3. mgr.lba_count[b] < lent[b] => mgr.next_block[b] = Null /\ mgr.lba_count[b] = lent[b] - 1
    BY DEF LayoutInv, ShortBlocksEndTheRegion
<1> QED
    BY <1>1, <1>2, <1>3 DEF Fits

\* A run from the start of a free block overlaps none that is handed out.
LEMMA FreeRuns ==
    ASSUME IInv, LayoutInv, NEW b \in Free(mgr), NEW n \in Nat, Fits(b, n)
    PROVE  Space!IsFree(mgr.start_lba[b], n)
<1>1. b \in mgr.live
    BY DEF Free
<1>2. RunOf(b, n) \subseteq RegionStart .. RegionEnd
    BY <1>1, FittingRuns
<1>3. ASSUME NEW run \in Used PROVE RunOf(b, n) \cap run = {}
    <2>1. PICK c \in DOMAIN lent : run = RunOf(c, lent[c])
        BY DEF Used
    <2>2. c \in mgr.live \ {b} /\ lent[c] \in Nat /\ Fits(c, lent[c])
        BY LentRunsFit
    <2> QED
        BY <1>1, <2>1, <2>2, FittingRuns
<1> QED
    BY <1>2, <1>3, UsedIsUsed DEF RunOf

LEMMA WholeIsAllocate ==
    ASSUME DefaultLayout, IInv, LayoutInv, NEW n \in Sizes, AllocateWhole(n)
    PROVE  Space!Next
<1> DEFINE b == mgr.blocks_free[SmallestOf(Candidates(n))]
<1>1. /\ b \in Free(mgr)
      /\ mgr.lba_count[b] <= n
      /\ SameBlocks(mgr, mgr')
      /\ lent' = [x \in DOMAIN lent \cup {b} |-> IF x = b THEN n ELSE lent[x]]
    BY WholeFields
<1>2. \/ mgr.lba_count[b] >= n
      \/ mgr.next_block[b] = Null /\ mgr.lba_count[b] = n - 1
    BY CandidateIsEnough DEF AllocateWhole
<1>3. n \in Nat \ {0} /\ answer' = "block"
    BY BlockAssumption DEF AllocateWhole, Lend
<1> HIDE DEF b
<1>4. b \in mgr.live /\ mgr.lba_count[b] \in Nat /\ mgr.start_lba[b] \in Nat
    BY <1>1 DEF Free, IInv, TypeOK, Manager
<1>5. Fits(b, n)
    BY <1>2, <1>3, <1>4 DEF Fits
<1>6. Space!IsFree(mgr.start_lba[b], n)
    BY <1>1, <1>3, <1>5, FreeRuns
<1>7. Used' = Used \cup {RunOf(b, n)}
    <2>1. b \notin DOMAIN lent
        BY <1>1, LentRunsFit
    <2>2. \A x \in DOMAIN lent : mgr'.start_lba[x] = mgr.start_lba[x] /\ lent'[x] = lent[x]
        BY <1>1, <2>1 DEF SameBlocks
    <2>3. DOMAIN lent' = DOMAIN lent \cup {b} /\ lent'[b] = n
          /\ mgr'.start_lba[b] = mgr.start_lba[b]
        BY <1>1 DEF SameBlocks
    <2> QED
        BY <2>2, <2>3 DEF Used, RunOf
<1>8. Space!Allocate(mgr.start_lba[b], n)
    BY <1>3, <1>6, <1>7, UsedIsUsed DEF RunOf
<1>9. mgr.start_lba[b] \in RegionStart .. RegionEnd
    <2>1. mgr.start_lba[b] \in RunOf(b, n)
        BY <1>3, <1>4 DEF RunOf
    <2> QED
        BY <1>3, <1>4, <1>5, <2>1, FittingRuns
<1> QED
    BY <1>8, <1>9 DEF Space!Next

LEMMA SplitIsAllocate ==
    ASSUME IInv, LayoutInv, NEW n \in Sizes, AllocateSplit(n)
    PROVE  Space!Next
<1> DEFINE b == mgr.blocks_free[SmallestOf(Candidates(n))]
           new == CHOOSE a \in Addresses : a \notin mgr.live
<1>1. /\ b \in Free(mgr) /\ new \in Addresses \ mgr.live
      /\ n < mgr.lba_count[b]
      /\ mgr'.live = mgr.live \cup {new}
      /\ \A x \in mgr'.live : mgr'.start_lba[x] = IF x = new THEN mgr.start_lba[b]
                                                  ELSE IF x = b THEN mgr.start_lba[b] + n
                                                  ELSE mgr.start_lba[x]
      /\ lent' = [x \in DOMAIN lent \cup {new} |-> IF x = new THEN n ELSE lent[x]]
    BY SplitFields
<1>2. n \in Nat \ {0} /\ answer' = "block"
    BY BlockAssumption DEF AllocateSplit, Lend
<1> HIDE DEF b, new
<1>3. b \in mgr.live /\ mgr.lba_count[b] \in Nat /\ mgr.start_lba[b] \in Nat
    BY <1>1 DEF Free, IInv, TypeOK, Manager
<1>4. Fits(b, n)
    BY <1>1, <1>2, <1>3 DEF Fits
<1>5. Space!IsFree(mgr.start_lba[b], n)
    BY <1>1, <1>2, <1>4, FreeRuns
<1>6. Used' = Used \cup {RunOf(b, n)}
    <2>1. \A x \in DOMAIN lent : x # b /\ x # new /\ x \in mgr'.live
        BY <1>1, LentRunsFit
    <2>2. \A x \in DOMAIN lent : mgr'.start_lba[x] = mgr.start_lba[x] /\ lent'[x] = lent[x]
        BY <1>1, <2>1
    <2>3. DOMAIN lent' = DOMAIN lent \cup {new} /\ lent'[new] = n
          /\ mgr'.start_lba[new] = mgr.start_lba[b]
        BY <1>1
    <2> QED
        BY <2>2, <2>3 DEF Used, RunOf
<1>7. Space!Allocate(mgr.start_lba[b], n)
    BY <1>2, <1>5, <1>6, UsedIsUsed DEF RunOf
<1>8. mgr.start_lba[b] \in RegionStart .. RegionEnd
    <2>1. mgr.start_lba[b] \in RunOf(b, n)
        BY <1>2, <1>3 DEF RunOf
    <2> QED
        BY <1>2, <1>3, <1>4, <2>1, FittingRuns
<1> QED
    BY <1>7, <1>8 DEF Space!Next

\* Free space is merged, so a run that is free lies in one free block: were
\* there one, its block would be in a list that AllocateBlock looks into.
LEMMA ThrowsIsRefuse ==
    ASSUME DefaultLayout, IInv, LayoutInv, NEW n \in Sizes, AllocateThrows(n)
    PROVE  Space!Next
<1>1. PICK list : Sound(mgr, list, Free(mgr))
    BY DEF IInv, PointersAreSound
<1>2. PICK j \in Lists : n = (j + 1) * ClassLbas
    BY DEF DefaultLayout
<1>3. /\ j \in Nat /\ ClassLbas \in Nat /\ ClassLbas > 1
      /\ j * ClassLbas \in Nat /\ n = j * ClassLbas + ClassLbas /\ n \in Nat \ {0}
      /\ RegionStart \in Nat /\ RegionEnd \in Nat
    <2>1. j \in Nat /\ ClassLbas \in Nat \ {0} /\ ClassLbas > 1
        BY BlockAssumption DEF Lists, DefaultLayout
    <2>2. RegionStart \in Nat /\ RegionEnd \in Nat
        BY BlockAssumption DEF RegionEnd
    <2>3. j * ClassLbas \in Nat /\ n = j * ClassLbas + ClassLbas
        BY <1>2, <2>1, Multiples
    <2> QED
        BY <2>1, <2>2, <2>3
\* No free block is larger than the class before that of n.
<1>4. ASSUME NEW b \in Free(mgr) PROVE mgr.lba_count[b] <= j * ClassLbas
    <2> SUFFICES ASSUME j * ClassLbas < mgr.lba_count[b] PROVE FALSE
        BY <1>1, <1>3 DEF Free, Sound, Manager
    <2> DEFINE k == GetFreeListIndex(mgr.lba_count[b])
    <2>1. mgr.lba_count[b] \in Nat \ {0}
        BY <1>1, <1>3 DEF Free, Sound, Manager
    <2>2. j <= k /\ k \in Lists
        BY <2>1, ClassBounds, IndexIsAList
    <2>3. GetFreeListIndex(n) <= j /\ GetFreeListIndex(n) \in Lists
        <3>1. n <= (j + 1) * ClassLbas
            BY <1>2, <1>3
        <3> QED
            BY <1>3, <3>1, ClassBounds, IndexIsAList
    <2>4. list[b] = k
        BY <1>1 DEF Sound, Placed, DefaultLayout, RegionIsInTheLastClass
    <2> HIDE DEF k
    <2>5. k \in GetFreeListIndex(n) .. Classes - 1
        BY <2>2, <2>3, BlockAssumption DEF Lists
    <2>6. mgr.blocks_free[k] = Null
        BY <2>5 DEF AllocateThrows, Candidates
    <2>7. b \in {}
        BY <1>1, <2>2, <2>4, <2>6 DEF Sound, OnLists, Reached, Closed
    <2> QED
        BY <2>7
<1>5. ASSUME NEW first \in RegionStart .. RegionEnd, Space!IsFree(first, n)
      PROVE  FALSE
    <2> DEFINE run == first .. first + n - 1
    <2>1. /\ run \subseteq RegionStart .. RegionEnd
          /\ \A c \in DOMAIN lent : run \cap RunOf(c, lent[c]) = {}
        <3>1. /\ run \subseteq RegionStart .. RegionEnd
              /\ \A r \in Used : run \cap r = {}
            BY <1>5, UsedIsUsed
        <3>2. \A c \in DOMAIN lent : RunOf(c, lent[c]) \in Used
            BY DEF Used
        <3> QED
            BY <3>1, <3>2
    <2>2. first \in Nat /\ first + n - 1 <= RegionEnd
        <3>1. first + n - 1 \in run
            BY <1>3
        <3> QED
            BY <1>3, <2>1, <3>1
    <2>3. PICK b \in mgr.live :
            mgr.start_lba[b] <= first /\ first < mgr.start_lba[b] + mgr.lba_count[b]
        <3>1. first \in RegionStart .. RegionEnd - 1
            BY <1>3, <2>2
        <3> QED
            BY <1>1, <3>1 DEF Sound, Tiled, Tiles, Covered
    <2>4. mgr.start_lba[b] \in Nat /\ mgr.lba_count[b] \in Nat
        BY <1>1 DEF Sound, Manager
    <2>5. b \notin DOMAIN lent
        <3> SUFFICES ASSUME b \in DOMAIN lent PROVE FALSE
            OBVIOUS
        <3>1. lent[b] \in Nat /\ mgr.lba_count[b] <= lent[b]
            BY LentRunsFit DEF LayoutInv, LentBlocksAreUsed
        <3>2. first \in RunOf(b, lent[b])
            BY <2>2, <2>3, <2>4, <3>1 DEF RunOf
        <3>3. first \in run
            BY <1>3, <2>2
        <3> QED
            BY <2>1, <3>2, <3>3
    <2>6. b \in Free(mgr)
        BY <2>5 DEF IInv, FreeOrLent, Free
    <2> DEFINE end == mgr.start_lba[b] + mgr.lba_count[b]
    <2>7. end <= first + n - 2
        BY <1>3, <1>4, <2>2, <2>3, <2>4, <2>6
    <2>8. mgr.next_block[b] # Null
        <3>1. mgr.next_block[b] = Null => end = RegionEnd
            BY <1>1 DEF Sound, Tiled, Tiles, Chained
        <3> QED
            BY <1>3, <2>2, <2>4, <2>7, <3>1
    <2> DEFINE c == mgr.next_block[b]
    <2>9. c \in mgr.live /\ mgr.start_lba[c] = end
        BY <1>1, <2>8 DEF Sound, Tiled, Tiles, Chained
    <2>10. c \in DOMAIN lent
        BY <2>6, <2>8, <2>9 DEF IInv, FreeOrLent, NoFreePairBut, Free
    <2>11. end \in RunOf(c, lent[c])
        <3>1. lent[c] \in Nat \ {0} /\ end \in Nat
            BY <2>4, <2>10, LentRunsFit
        <3> QED
            BY <2>9, <3>1 DEF RunOf
    <2>12. end \in run
        BY <1>3, <2>2, <2>3, <2>4, <2>7
    <2> QED
        BY <2>1, <2>10, <2>11, <2>12
<1>6. Space!Refuse(n)
    <2>1. Used' = Used /\ answer' = "No free block available"
        BY DEF AllocateThrows, Used, RunOf
    <2> QED
        BY <1>5, <2>1, UsedIsUsed
<1> QED
    BY <1>6 DEF Space!Next

LEMMA FreeIsFree ==
    ASSUME IInv, LayoutInv, NEW b \in DOMAIN lent, FreeBlock(b)
    PROVE  Space!Next
<1> DEFINE m == [mgr EXCEPT !.is_free[b] = TRUE]
           run == RunOf(b, lent[b])
<1>1. SameBlocks(mgr, m)
    BY FreeBlockIsPending
<1>2. Merged(m, mgr', b)
    BY FreeBlockMerges
<1>3. lent' = [x \in DOMAIN lent \ {b} |-> lent[x]] /\ answer' = "none"
    BY DEF FreeBlock
<1>4. DOMAIN lent' \subseteq mgr'.live
    BY FreeBlockIsSound DEF IInv, TypeOK
<1> HIDE DEF m
<1>5. \A x \in DOMAIN lent \ {b} :
        RunOf(x, lent[x])' = RunOf(x, lent[x]) /\ RunOf(x, lent[x]) # run
    <2> SUFFICES ASSUME NEW x \in DOMAIN lent \ {b}
                 PROVE  RunOf(x, lent[x])' = RunOf(x, lent[x]) /\ RunOf(x, lent[x]) # run
        OBVIOUS
    <2>1. mgr'.start_lba[x] = mgr.start_lba[x] /\ lent'[x] = lent[x]
        BY <1>1, <1>2, <1>3, <1>4 DEF Merged, SameBlocks
    <2>2. run \cap RunOf(x, lent[x]) = {}
        BY LentRunsFit, FittingRuns
    <2>3. mgr.start_lba[x] \in RunOf(x, lent[x])
        <3>1. lent[x] \in Nat \ {0} /\ mgr.start_lba[x] \in Nat
            BY LentRunsFit DEF IInv, TypeOK, Manager
        <3> QED
            BY <3>1 DEF RunOf
    <2> QED
        BY <2>1, <2>2, <2>3 DEF RunOf
<1>6. Used' = Used \ {run}
    <2>1. Used' = {RunOf(x, lent[x])' : x \in DOMAIN lent \ {b}}
        BY <1>3 DEF Used, RunOf
    <2> QED
        BY <1>5, <2>1 DEF Used
<1>7. run \in Used
    BY DEF Used
<1> HIDE DEF run
<1>8. \E r \in Used : Used' = Used \ {r} /\ answer' = "none"
    BY <1>3, <1>6, <1>7
<1> QED
    BY <1>8 DEF Space!Next, Space!Free, Used, RunOf

\* The transfers of the files, each over all the LBAs that were asked for from
\* the start of its block, never overlap and stay in the space; a freed run is
\* handed out again; and AllocateBlock throws only when no run of that many
\* LBAs is free (nvmefs_temporary_block_manager.cpp:69 and :160).
THEOREM BlockManagerImplementsTempSpace ==
    ASSUME DefaultLayout PROVE Spec => TransfersAreApart
<1>1. Init => Space!Init
    BY DEF Init, Space!Init
<1>2. IInv /\ LayoutInv /\ [Next]_vars => [Space!Next]_Space!vars
    <2> SUFFICES ASSUME IInv, LayoutInv, [Next]_vars
                 PROVE  [Space!Next]_Space!vars
        OBVIOUS
    <2>1. ASSUME NEW n \in Sizes, AllocateWhole(n) PROVE Space!Next
        BY <2>1, WholeIsAllocate
    <2>2. ASSUME NEW n \in Sizes, AllocateSplit(n) PROVE Space!Next
        BY <2>2, SplitIsAllocate
    <2>3. ASSUME NEW n \in Sizes, AllocateThrows(n) PROVE Space!Next
        BY <2>3, ThrowsIsRefuse
    <2>4. ASSUME NEW b \in DOMAIN lent, FreeBlock(b) PROVE Space!Next
        BY <2>4, FreeIsFree
    <2>5. CASE UNCHANGED vars
        BY <2>5 DEF vars, Space!vars
    <2> QED
        BY <2>1, <2>2, <2>3, <2>4, <2>5 DEF Next
<1> QED
    BY <1>1, <1>2, LayoutHolds, PTL DEF Spec, TransfersAreApart, Space!Spec
=============================================================================
