--------------------------- MODULE PlacementProofs ---------------------------
(***************************************************************************)
(* Proofs about Placement, for any secrets, any sizes and any paths: the   *)
(* names in them may be cut or changed by lower-casing in any way.         *)
(***************************************************************************)
EXTENDS Placement, FiniteSetTheorems, SequenceTheorems, WellFoundedInduction, TLAPS

Slots == [name : Seq(STRING), size : Nat]

\* The names that names of more than 100 bytes are cut to.
Cuts == {CutNames[long] : long \in DOMAIN CutNames}

-----------------------------------------------------------------------------
(* The smallest and the largest of a set of indexes.                       *)

\* The intervals below its members are finite sets, and strict inclusion of
\* finite sets is well founded.
LEMMA SmallestExists ==
  ASSUME NEW T, T \subseteq Nat, T # {}
  PROVE  Min(T) \in T /\ \A l \in T : Min(T) <= l
<1> DEFINE below == {0 .. n : n \in T}
<1>1. below \subseteq FiniteSubsetsOf(Nat)
  <2>1. ASSUME NEW n \in T PROVE 0 .. n \in FiniteSubsetsOf(Nat)
    BY FS_Interval DEF FiniteSubsetsOf
  <2>2. QED
    BY <2>1
<1>2. below # {}
  OBVIOUS
<1>3. PICK d \in below : \A e \in below : <<e, d>> \notin StrictSubsetOrdering(Nat)
  <2> HIDE DEF below
  <2>1. QED
    BY <1>1, <1>2, FS_StrictSubsetOrderingWellFounded, WFMin
<1>4. PICK least \in T : d = 0 .. least
  OBVIOUS
<1>5. ASSUME NEW l \in T PROVE least <= l
  <2>1. SUFFICES ASSUME l < least PROVE FALSE
    OBVIOUS
  <2>2. 0 .. l \subseteq 0 .. least /\ 0 .. l # 0 .. least
    BY <2>1
  <2>3. 0 .. l \in SUBSET Nat /\ 0 .. least \in SUBSET Nat
    OBVIOUS
  <2>4. <<0 .. l, 0 .. least>> \in StrictSubsetOrdering(Nat)
    BY <2>2, <2>3 DEF StrictSubsetOrdering
  <2>5. QED
    BY <1>3, <1>4, <2>4
<1>6. QED
  BY <1>5 DEF Min

LEMMA LargestExists ==
  ASSUME NEW n \in Nat, NEW T, T \subseteq 1 .. n, T # {}
  PROVE  Max(T) \in T /\ \A l \in T : l <= Max(T)
<1> DEFINE fromEnd == {n - l : l \in T}
<1>1. fromEnd \subseteq Nat /\ fromEnd # {}
  OBVIOUS
<1>2. Min(fromEnd) \in fromEnd /\ \A l \in fromEnd : Min(fromEnd) <= l
  <2> HIDE DEF fromEnd
  <2>1. QED
    BY <1>1, SmallestExists
<1>3. PICK most \in T : Min(fromEnd) = n - most
  BY <1>2
<1>4. ASSUME NEW l \in T PROVE l <= most
  <2>1. n - most <= n - l
    BY <1>2, <1>3
  <2>2. l \in Int /\ most \in Int
    OBVIOUS
  <2>3. QED
    BY <2>1, <2>2
<1>5. QED
  BY <1>4 DEF Max

-----------------------------------------------------------------------------
(* Lookups by name.                                                        *)

\* The first slot of that name, if there is one.
IsRegionOf(s, name, r) ==
    /\ r \in DOMAIN s /\ s[r].name = name
    /\ \A m \in 1 .. r - 1 : s[m].name # name

LEMMA RegionIsFirst ==
  ASSUME NEW s \in Seq(Slots), NEW name
  PROVE  \/ /\ GetRegionForPath(s, name) = 0
            /\ \A n \in DOMAIN s : s[n].name # name
         \/ IsRegionOf(s, name, GetRegionForPath(s, name))
<1> DEFINE I == {i \in 1 .. Len(s) : s[i].name = name}
<1>1. GetRegionForPath(s, name) = IF I # {} THEN Min(I) ELSE 0
  BY DEF GetRegionForPath, SelectInSeq
<1>2. Len(s) \in Nat /\ DOMAIN s = 1 .. Len(s) /\ I \subseteq Nat
  OBVIOUS
<1>3. CASE I = {}
  BY <1>1, <1>2, <1>3
<1>4. CASE I # {}
  <2>1. Min(I) \in I /\ \A l \in I : Min(I) <= l
    <3> HIDE DEF I
    <3>1. QED
      BY <1>2, <1>4, SmallestExists
  <2> DEFINE r == Min(I)
  <2>2. GetRegionForPath(s, name) = r
    BY <1>1, <1>4
  <2>3. r \in 1 .. Len(s) /\ s[r].name = name
    BY <2>1
  <2>4. ASSUME NEW m \in 1 .. r - 1 PROVE s[m].name # name
    <3>1. m \in 1 .. Len(s) /\ ~(r <= m)
      BY <1>2, <2>3, <2>4
    <3>2. QED
      BY <2>1, <3>1
  <2> HIDE DEF r
  <2>5. QED
    BY <1>2, <2>2, <2>3, <2>4 DEF IsRegionOf
<1>5. QED
  BY <1>3, <1>4

LEMMA RegionIsUnique ==
  ASSUME NEW s \in Seq(Slots), NEW name, NEW r, NEW q, IsRegionOf(s, name, r), IsRegionOf(s, name, q)
  PROVE  r = q
<1>1. r \in 1 .. Len(s) /\ q \in 1 .. Len(s) /\ Len(s) \in Nat
  BY DEF IsRegionOf
<1>2. ~(r < q) /\ ~(q < r)
  BY <1>1 DEF IsRegionOf
<1>3. QED
  BY <1>1, <1>2

\* A slot more does not change what has been found.
LEMMA RegionStays ==
  ASSUME NEW s \in Seq(Slots), NEW slot \in Slots, NEW name, NEW r, IsRegionOf(s, name, r)
  PROVE  IsRegionOf(Append(s, slot), name, r)
<1>1. /\ DOMAIN s = 1 .. Len(s) /\ Len(s) \in Nat
      /\ DOMAIN Append(s, slot) = 1 .. Len(s) + 1
      /\ \A n \in 1 .. Len(s) : Append(s, slot)[n] = s[n]
  OBVIOUS
<1>2. QED
  BY <1>1 DEF IsRegionOf

\* The slot whose locations a name has: one of that name.
LEMMA StateIsASlot ==
  ASSUME NEW s \in Seq(Slots), NEW name \in DOMAIN StatesOf(s)
  PROVE  StatesOf(s)[name] \in DOMAIN s /\ s[StatesOf(s)[name]].name = name
<1> DEFINE I == {i \in 1 .. Len(s) : s[i].name = name}
<1>1. name \in {s[n].name : n \in DOMAIN s}
  BY DEF StatesOf
<1>2. StatesOf(s)[name] = IF I # {} THEN Max(I) ELSE 0
  BY <1>1 DEF StatesOf, SelectLastInSeq
<1>3. Len(s) \in Nat /\ DOMAIN s = 1 .. Len(s) /\ I \subseteq 1 .. Len(s) /\ I # {}
  BY <1>1
<1>4. Max(I) \in I
  <2> HIDE DEF I
  <2>1. QED
    BY <1>3, LargestExists
<1>5. QED
  BY <1>2, <1>3, <1>4

-----------------------------------------------------------------------------
(* The names in the paths of databases.                                    *)

LEMMA SuffixRemoved ==
  ASSUME NEW path \in Seq(STRING), NEW end \in 1 .. Len(path), NEW suffix
  PROVE  WithoutSuffix(SubSeq(path, 2, end), suffix) =
            SubSeq(path, 2, IF end >= 2 /\ path[end] = suffix THEN end - 1 ELSE end)
<1> DEFINE name == SubSeq(path, 2, end)
<1>1. Len(path) \in Nat /\ \A i \in 1 .. Len(path) : path[i] \in STRING
  BY LenProperties, ElementOfSeq
<1>2. CASE end = 1
  <2>1. name = <<>>
    BY <1>2, SubSeqEmpty
  <2>2. QED
    BY <1>2, <2>1 DEF WithoutSuffix
<1>3. CASE end >= 2
  <2>1. /\ name \in Seq(STRING) /\ Len(name) = end - 1
        /\ name[end - 1] = path[end]
    <3>1. \A i \in 2 .. end : path[i] \in STRING
      BY <1>1
    <3>2. /\ name \in Seq(STRING)
          /\ Len(name) = IF 2 <= end THEN end - 2 + 1 ELSE 0
          /\ \A i \in 1 .. end - 2 + 1 : name[i] = path[2 + i - 1]
      BY <3>1, SubSeqProperties
    <3>3. end - 1 \in 1 .. end - 2 + 1 /\ 2 + (end - 1) - 1 = end
      BY <1>3
    <3>4. name[end - 1] = path[2 + (end - 1) - 1]
      BY <3>2, <3>3
    <3> HIDE DEF name
    <3>5. QED
      BY <1>3, <3>2, <3>3, <3>4
  <2>2. name # <<>> /\ Last(name) = path[end]
    <3>1. Len(<<>>) = 0
      BY EmptySeq
    <3>2. QED
      BY <1>3, <2>1, <3>1 DEF Last
  <2>3. Front(name) = SubSeq(path, 2, end - 1)
    <3>1. Front(name) = SubSeq(name, 1, end - 2)
      BY <2>1 DEF Front
    <3>2. CASE end = 2
      BY <3>1, <3>2, SubSeqEmpty
    <3>3. CASE end # 2
      <4>1. /\ 2 \in 1 .. Len(path) /\ end \in 1 .. Len(path)
            /\ 1 \in 1 .. end - 2 + 1 /\ end - 2 \in 1 .. end - 2 + 1
        BY <1>1, <1>3, <3>3
      <4>2. SubSeq(SubSeq(path, 2, end), 1, end - 2) = SubSeq(path, 2 + 1 - 1, 2 + (end - 2) - 1)
        BY <4>1, SubSeqOfSubSeq
      <4>3. 2 + 1 - 1 = 2 /\ 2 + (end - 2) - 1 = end - 1
        OBVIOUS
      <4>4. QED
        BY <3>1, <4>2, <4>3
    <3>4. QED
      BY <3>2, <3>3
  <2>4. QED
    BY <1>3, <2>2, <2>3 DEF WithoutSuffix
<1>4. QED
  BY <1>2, <1>3

\* The code removes three suffixes from the end of a path, in the order that
\* DuckDB does not add them in; what is left is what lies before the first.
LEMMA NameOfPath ==
  ASSUME NEW path \in Seq(STRING), IsDatabasePath(path)
  PROVE  ExtractDatabaseName(path) = DatabaseOf(path)
<1>1. path # <<>> /\ path[1] = PATH_PREFIX
  BY DEF IsDatabasePath
<1>2. PICK end \in 1 .. Len(path) :
        /\ \A n \in 2 .. end : path[n] \notin FileSuffixes
        /\ SubSeq(path, end + 1, Len(path)) \in
                {<<".db">>, <<".db", ".wal">>, <<".db", ".wal", ".checkpoint">>}
  BY DEF IsDatabasePath
<1> DEFINE size == Len(path)
           tail == SubSeq(path, end + 1, size)
<1>3. size \in Nat /\ end \in 1 .. size /\ DOMAIN path = 1 .. size
  BY LenProperties
<1>4. /\ Len(tail) = IF end + 1 <= size THEN size - (end + 1) + 1 ELSE 0
      /\ \A i \in 1 .. size - (end + 1) + 1 : tail[i] = path[end + 1 + i - 1]
  <2>1. \A i \in end + 1 .. size : path[i] \in STRING
    BY <1>3, ElementOfSeq
  <2>2. QED
    BY <1>3, <2>1, SubSeqProperties
<1>5. \/ size = end + 1 /\ path[end + 1] = ".db"
      \/ size = end + 2 /\ path[end + 1] = ".db" /\ path[end + 2] = ".wal"
      \/ /\ size = end + 3 /\ path[end + 1] = ".db" /\ path[end + 2] = ".wal"
         /\ path[end + 3] = ".checkpoint"
  <2>1. tail \in {<<".db">>, <<".db", ".wal">>, <<".db", ".wal", ".checkpoint">>}
    BY <1>2
  <2>2. ASSUME NEW i \in 1 .. 3, i <= Len(tail) PROVE tail[i] = path[end + i]
    <3>1. i \in 1 .. size - (end + 1) + 1 /\ end + 1 + i - 1 = end + i
      BY <1>3, <1>4, <2>2
    <3>2. QED
      BY <1>4, <3>1
  <2> HIDE DEF tail
  <2>3. Len(tail) \in 1 .. 3 /\ size = end + Len(tail)
    <3>1. Len(tail) \in 1 .. 3
      BY <2>1
    <3> HIDE DEF size
    <3>2. QED
      BY <1>3, <1>4, <3>1
  <2>4. CASE tail = <<".db">>
    BY <2>2, <2>3, <2>4
  <2>5. CASE tail = <<".db", ".wal">>
    BY <2>2, <2>3, <2>5
  <2>6. CASE tail = <<".db", ".wal", ".checkpoint">>
    BY <2>2, <2>3, <2>6
  <2>7. QED
    BY <2>1, <2>4, <2>5, <2>6
<1> HIDE DEF tail
<1>6. ExtractDatabaseName(path) = SubSeq(path, 2, end)
  <2>1. Inner(path) = SubSeq(path, 2, size)
    BY <1>1, TailIsSubSeq, HeadTailProperties DEF Inner
  <2>2. size \in 1 .. Len(path)
    BY <1>3
  <2> DEFINE After(last, suffix) == IF last >= 2 /\ path[last] = suffix THEN last - 1 ELSE last
             afterCheckpoint == After(size, ".checkpoint")
             afterWal == After(afterCheckpoint, ".wal")
             afterDb == After(afterWal, ".db")
  <2> HIDE DEF size
  <2>3. /\ afterCheckpoint = IF size = end + 3 THEN end + 2 ELSE size
        /\ afterCheckpoint \in 1 .. size
    BY <1>3, <1>5
  <2> HIDE DEF afterCheckpoint
  <2>4. afterWal = end + 1 /\ afterWal \in 1 .. size
    BY <1>3, <1>5, <2>3
  <2> HIDE DEF afterWal
  <2>5. ExtractDatabaseName(path) = SubSeq(path, 2, afterDb)
    <3>1. WithoutSuffix(Inner(path), ".checkpoint") = SubSeq(path, 2, afterCheckpoint)
      BY <2>1, <2>2, SuffixRemoved DEF afterCheckpoint
    <3>2. WithoutSuffix(SubSeq(path, 2, afterCheckpoint), ".wal") = SubSeq(path, 2, afterWal)
      BY <2>2, <2>3, SuffixRemoved DEF afterWal, size
    <3>3. WithoutSuffix(SubSeq(path, 2, afterWal), ".db") = SubSeq(path, 2, afterDb)
      BY <2>2, <2>4, SuffixRemoved DEF size
    <3>4. QED
      BY <3>1, <3>2, <3>3 DEF ExtractDatabaseName
  <2>6. afterDb = end
    BY <1>3, <1>5, <2>4
  <2>7. QED
    BY <2>5, <2>6
<1>7. DatabaseOf(path) = SubSeq(path, 2, end)
  <2> DEFINE I == {i \in 1 .. size : path[i] \in FileSuffixes}
  <2>1. I \subseteq Nat /\ end + 1 \in I
    <3>1. path[end + 1] \in FileSuffixes
      BY <1>5 DEF FileSuffixes
    <3> HIDE DEF size
    <3>2. end + 1 \in 1 .. size
      BY <1>3, <1>5
    <3>3. QED
      BY <1>3, <3>1, <3>2
  <2>2. \A i \in I : end + 1 <= i
    <3>1. path[1] \notin FileSuffixes
      BY <1>1 DEF FileSuffixes, PATH_PREFIX
    <3>2. \A i \in 1 .. end : path[i] \notin FileSuffixes
      BY <1>2, <1>3, <3>1
    <3> HIDE DEF size
    <3>3. QED
      BY <1>3, <3>2
  <2>3. Min(I) \in I /\ \A i \in I : Min(I) <= i
    <3> HIDE DEF I
    <3>1. QED
      BY <2>1, SmallestExists
  <2>4. Min(I) = end + 1
    BY <2>1, <2>2, <2>3
  <2> DEFINE suffix == SelectInSeq(path, LAMBDA piece : piece \in FileSuffixes)
  <2>5. suffix = end + 1
    BY <2>1, <2>4 DEF SelectInSeq
  <2>6. DatabaseOf(path) = SubSeq(path, 2, IF suffix = 0 THEN Len(path) ELSE suffix - 1)
    BY DEF DatabaseOf
  <2> HIDE DEF suffix
  <2>7. suffix # 0 /\ suffix - 1 = end
    <3>1. end \in Nat /\ end # 0
      BY <1>3
    <3> HIDE DEF size
    <3>2. QED
      BY <2>5, <3>1
  <2>8. QED
    BY <2>6, <2>7
<1>8. QED
  BY <1>6, <1>7

-----------------------------------------------------------------------------
(* What InitializeMetadata registers.                                      *)

\* The fold that EndOf is adds up a single slot.
LEMMA EndOfOneSlot ==
  ASSUME NEW slot, slot.size \in Int
  PROVE  EndOf(<<slot>>) = 1 + slot.size + WalLbas
<1> DEFINE S == DOMAIN <<slot>>
           Step(f) == [s \in SUBSET S |->
                           IF s = {} THEN 1
                           ELSE f[s \ {Max(s)}] + <<slot>>[Max(s)].size + WalLbas]
           iter == CHOOSE f : f = Step(f)
           sums == [s \in SUBSET S |-> IF s = {} THEN 1 ELSE 1 + slot.size + WalLbas]
<1>1. EndOf(<<slot>>) = iter[S]
  BY DEF EndOf, FoldLeft, MapThenFoldSet
<1>2. S = {1} /\ <<slot>>[1] = slot
  OBVIOUS
<1>3. Max({1}) = 1
  BY DEF Max
<1>4. \A s \in SUBSET S : s = {} \/ s = {1}
  BY <1>2
<1>5. sums = Step(sums)
  <2>1. ASSUME NEW s \in SUBSET S, s # {} PROVE sums[s] = sums[s \ {Max(s)}] + <<slot>>[Max(s)].size + WalLbas
    <3>1. s = {1}
      BY <1>4, <2>1 DEF S
    <3>4. {1} \ {1} = {}
      OBVIOUS
    <3>2. sums[{}] = 1 /\ sums[s] = 1 + slot.size + WalLbas
      BY <2>1
    <3>3. QED
      BY <1>2, <1>3, <3>1, <3>2, <3>4
  <2>2. QED
    BY <2>1
<1>6. iter = Step(iter)
  <2> HIDE DEF Step, sums
  <2>1. QED
    BY <1>5
<1>7. iter[S] = iter[{}] + slot.size + WalLbas /\ iter[{}] = 1
  <2> HIDE DEF iter
  <2>1. \A s \in SUBSET S : iter[s] = IF s = {} THEN 1 ELSE iter[s \ {Max(s)}] + <<slot>>[Max(s)].size + WalLbas
    BY <1>6
  <2>2. {1} \ {1} = {} /\ {1} # {}
    OBVIOUS
  <2>3. QED
    BY <1>2, <1>3, <2>1, <2>2
<1>8. QED
  BY <1>1, <1>7

LEMMA StoredIsAName ==
  ASSUME NEW name \in Seq(STRING)
  PROVE  /\ Stored(name) \in Seq(STRING)
         /\ Stored(name) \notin Cuts => Stored(name) = name
BY NamesAssumption DEF Stored, Cuts

LEMMA LowerIsAName ==
  ASSUME NEW name \in Seq(STRING)
  PROVE  Lower(name) \in Seq(STRING) /\ Lower(Lower(name)) = Lower(name)
<1>1. /\ DOMAIN name = 1 .. Len(name) /\ Len(name) \in Nat
      /\ \A n \in DOMAIN name : name[n] \in STRING
  BY LenProperties, ElementOfSeq
<1>2. \A n \in DOMAIN name : Lower(name)[n] \in STRING \ DOMAIN LowerCase
  BY <1>1, NamesAssumption DEF Lower
<1>3. Lower(name) \in Seq(STRING)
  <2>1. Lower(name) \in [1 .. Len(name) -> STRING]
    BY <1>1, <1>2 DEF Lower
  <2>2. QED
    BY <1>1, <2>1, SeqDef
<1>4. \A n \in DOMAIN name : Lower(Lower(name))[n] = Lower(name)[n]
  BY <1>2 DEF Lower
<1>5. QED
  BY <1>3, <1>4 DEF Lower

LEMMA WithoutSuffixIsAName ==
  ASSUME NEW name \in Seq(STRING), NEW suffix
  PROVE  WithoutSuffix(name, suffix) \in Seq(STRING)
<1>1. Front(name) \in Seq(STRING)
  <2>1. \A i \in 1 .. Len(name) - 1 : name[i] \in STRING
    BY LenProperties, ElementOfSeq
  <2>2. QED
    BY <2>1, LenProperties, SubSeqProperties DEF Front
<1>2. QED
  BY <1>1 DEF WithoutSuffix

LEMMA DatabaseNameIsAName ==
  ASSUME NEW path \in Seq(STRING)
  PROVE  ExtractDatabaseName(path) \in Seq(STRING)
<1>1. Inner(path) \in Seq(STRING)
  BY HeadTailProperties DEF Inner
<1>2. QED
  BY <1>1, WithoutSuffixIsAName DEF ExtractDatabaseName

Entries == Seq([name : Seq(STRING), size : Nat])

\* The size of a key is that of an entry with this key.
LEMMA KeysOfConfigs ==
  ASSUME NEW entries \in Entries
  PROVE  /\ IsFiniteSet(DOMAIN DbConfigs(entries))
         /\ \A e \in DOMAIN entries : Lower(entries[e].name) \in DOMAIN DbConfigs(entries)
         /\ \A key \in DOMAIN DbConfigs(entries) :
                /\ key \in Seq(STRING) /\ Lower(key) = key
                /\ \E e \in DOMAIN entries :
                    Lower(entries[e].name) = key /\ DbConfigs(entries)[key] = entries[e].size
                /\ DbConfigs(entries)[key] \in Nat
<1>1. /\ DOMAIN entries = 1 .. Len(entries) /\ Len(entries) \in Nat
      /\ \A e \in DOMAIN entries : entries[e].name \in Seq(STRING) /\ entries[e].size \in Nat
  <2>1. /\ DOMAIN entries = 1 .. Len(entries) /\ Len(entries) \in Nat
        /\ \A e \in 1 .. Len(entries) : entries[e] \in Slots
    BY LenProperties, ElementOfSeq DEF Entries, Slots
  <2>2. \A entry \in Slots : entry.name \in Seq(STRING) /\ entry.size \in Nat
    BY DEF Slots
  <2>3. QED
    BY <2>1, <2>2
<1> DEFINE keys == {Lower(entries[n].name) : n \in DOMAIN entries}
           IsLast(key, e) == /\ Lower(entries[e].name) = key
                           /\ \A m \in e + 1 .. Len(entries) : Lower(entries[m].name) # key
<1>2. /\ DOMAIN DbConfigs(entries) = keys
      /\ \A key \in keys : DbConfigs(entries)[key] = entries[CHOOSE e \in DOMAIN entries : IsLast(key, e)].size
  BY DEF DbConfigs, SizesBy
<1>3. IsFiniteSet(keys)
  <2> DEFINE Key == [n \in 1 .. Len(entries) |-> Lower(entries[n].name)]
  <2>1. Key \in Surjection(1 .. Len(entries), keys)
    BY <1>1 DEF Surjection
  <2>2. IsFiniteSet(1 .. Len(entries))
    BY <1>1, FS_Interval
  <2>3. QED
    BY <2>1, <2>2, FS_Surjection
<1>4. ASSUME NEW key \in keys PROVE \E e \in DOMAIN entries : IsLast(key, e)
  <2> DEFINE T == {e \in 1 .. Len(entries) : Lower(entries[e].name) = key}
  <2>1. T # {} /\ T \subseteq 1 .. Len(entries)
    BY <1>1, <1>4
  <2>2. Max(T) \in T /\ \A e \in T : e <= Max(T)
    <3> HIDE DEF T
    <3>1. QED
      BY <1>1, <2>1, LargestExists
  <2>3. ASSUME NEW m \in Max(T) + 1 .. Len(entries) PROVE Lower(entries[m].name) # key
    <3>1. m \in 1 .. Len(entries) /\ ~(m <= Max(T))
      BY <1>1, <2>2, <2>3
    <3>2. QED
      BY <2>2, <3>1
  <2>4. QED
    BY <1>1, <2>2, <2>3
<1>5. \A key \in keys : key \in Seq(STRING) /\ Lower(key) = key
  BY <1>1, LowerIsAName
<1>6. ASSUME NEW key \in keys
      PROVE  /\ \E e \in DOMAIN entries :
                    Lower(entries[e].name) = key /\ DbConfigs(entries)[key] = entries[e].size
             /\ DbConfigs(entries)[key] \in Nat
  BY <1>1, <1>2, <1>4, <1>6
<1>7. QED
  BY <1>2, <1>3, <1>5, <1>6

\* A slot has a name that no slot before it has, if the name is not a cut one.
NamesAreUnique(s) ==
    \A n \in DOMAIN s : s[n].name \notin Cuts => \A m \in 1 .. n - 1 : s[m].name # s[n].name

\* The size of a slot is the one that a secret with these entries asks for.
IsSizedBy(entries, slot) ==
    LET mine == {e \in DOMAIN entries : Lower(entries[e].name) = Lower(slot.name)}
    IN  slot.name \notin Cuts =>
        /\ mine = {} => slot.size = DefaultLbas
        /\ mine # {} /\ Lower(slot.name) = slot.name => \E e \in mine : slot.size = entries[e].size

LEMMA SlotIsASlot ==
  ASSUME NEW name \in Seq(STRING), NEW size \in Nat
  PROVE  /\ Slot(name, size) \in Slots
         /\ Slot(name, size).name = Stored(name) /\ Slot(name, size).size = size
BY StoredIsAName DEF Slot, Slots

LEMMA SlotIsSized ==
  ASSUME NEW entries \in Entries, NEW name \in Seq(STRING), NEW size \in Nat,
         Stored(name) \notin Cuts =>
            size = IF name \in DOMAIN DbConfigs(entries) THEN DbConfigs(entries)[name] ELSE DefaultLbas
  PROVE  IsSizedBy(entries, Slot(name, size))
<1> DEFINE slot == Slot(name, size)
           D == DbConfigs(entries)
<1>1. SUFFICES ASSUME Stored(name) \notin Cuts PROVE IsSizedBy(entries, slot)
  BY SlotIsASlot DEF IsSizedBy
<1>2. slot.name = name /\ slot.size = IF name \in DOMAIN D THEN D[name] ELSE DefaultLbas
  BY <1>1, SlotIsASlot, StoredIsAName
<1>3. name \in DOMAIN D =>
        /\ Lower(name) = name
        /\ \E e \in DOMAIN entries : Lower(entries[e].name) = name /\ D[name] = entries[e].size
  BY KeysOfConfigs
<1>4. \A e \in DOMAIN entries : Lower(entries[e].name) \in DOMAIN D
  BY KeysOfConfigs
<1> HIDE DEF slot, D
<1>5. QED
  BY <1>2, <1>3, <1>4 DEF IsSizedBy

LEMMA SlotIsAppended ==
  ASSUME NEW s \in Seq(Slots), NamesAreUnique(s), NEW name \in Seq(STRING), NEW size \in Nat,
         GetRegionForPath(s, name) = 0
  PROVE  /\ Append(s, Slot(name, size)) \in Seq(Slots)
         /\ NamesAreUnique(Append(s, Slot(name, size)))
<1> DEFINE slot == Slot(name, size)
           t == Append(s, slot)
<1>1. slot \in Slots /\ slot.name = Stored(name)
  BY SlotIsASlot
<1>2. \A n \in DOMAIN s : s[n].name # name
  BY RegionIsFirst DEF IsRegionOf
<1>3. /\ DOMAIN s = 1 .. Len(s) /\ Len(s) \in Nat
      /\ t \in Seq(Slots) /\ DOMAIN t = 1 .. Len(s) + 1
      /\ t[Len(s) + 1] = slot /\ \A n \in 1 .. Len(s) : t[n] = s[n]
  <2> HIDE DEF slot
  <2>1. QED
    BY <1>1
<1>4. slot.name \notin Cuts => slot.name = name
  BY <1>1, StoredIsAName
<1> HIDE DEF t, slot
<1>5. ASSUME NEW n \in DOMAIN t, t[n].name \notin Cuts, NEW m \in 1 .. n - 1
      PROVE  t[m].name # t[n].name
  <2>1. m \in 1 .. Len(s) /\ t[m] = s[m]
    BY <1>3, <1>5
  <2>2. CASE n \in 1 .. Len(s)
    BY <1>3, <1>5, <2>1, <2>2 DEF NamesAreUnique
  <2>3. CASE n = Len(s) + 1
    BY <1>2, <1>3, <1>4, <1>5, <2>1, <2>3
  <2>4. QED
    BY <1>3, <2>2, <2>3
<1>6. QED
  BY <1>3, <1>5 DEF NamesAreUnique, t, slot

LEMMA SecretIsRead ==
  ASSUME secret \in Secrets
  PROVE  secret.db_configs \in Entries
BY SecretsAssumption DEF Entries

\* Each database of the secret gets one slot.
LEMMA ConfiguredIsSound ==
  ASSUME NEW entries \in Entries, NEW names \in SetToSeqs(DOMAIN DbConfigs(entries)), NEW s,
         s = [n \in DOMAIN names |-> Slot(names[n], DbConfigs(entries)[names[n]])]
  PROVE  /\ s \in Seq(Slots) /\ NamesAreUnique(s)
         /\ \A n \in DOMAIN s : IsSizedBy(entries, s[n])
         /\ \A key \in DOMAIN DbConfigs(entries) : Stored(key) \notin Cuts => \E n \in DOMAIN s : s[n].name = key
<1> DEFINE K == DOMAIN DbConfigs(entries)
           size == Cardinality(K)
<1>1. IsFiniteSet(K) /\ size \in Nat
  BY KeysOfConfigs, FS_CardinalityType
<1>2. /\ names \in [1 .. size -> K] /\ DOMAIN names = 1 .. size
      /\ \A i, j \in 1 .. size : i # j => names[i] # names[j]
  BY DEF SetToSeqs
<1>3. \A key \in K : key \in Seq(STRING) /\ DbConfigs(entries)[key] \in Nat
  BY KeysOfConfigs
<1>4. \A key \in K : \E n \in 1 .. size : names[n] = key
  <2>1. names \in Injection(1 .. size, K)
    BY <1>2 DEF Injection, IsInjective
  <2>2. Cardinality(1 .. size) = size
    BY <1>1, FS_Interval
  <2>3. names \in Surjection(1 .. size, K)
    BY <1>1, <2>1, <2>2, FS_Injection
  <2>4. QED
    BY <2>3 DEF Surjection
<1> HIDE DEF size, K
<1>5. ASSUME NEW n \in 1 .. size
      PROVE  /\ s[n] \in Slots /\ s[n].name = Stored(names[n])
             /\ s[n].name \notin Cuts => s[n].name = names[n]
             /\ IsSizedBy(entries, s[n])
  <2>1. names[n] \in K /\ s[n] = Slot(names[n], DbConfigs(entries)[names[n]])
    BY <1>2
  <2>2. names[n] \in Seq(STRING) /\ DbConfigs(entries)[names[n]] \in Nat
    BY <1>3, <2>1
  <2>3. s[n] \in Slots /\ s[n].name = Stored(names[n])
    BY <2>1, <2>2, SlotIsASlot
  <2>4. IsSizedBy(entries, s[n])
    BY <2>1, <2>2, SlotIsSized DEF K
  <2>5. QED
    BY <2>2, <2>3, <2>4, StoredIsAName
<1>6. DOMAIN s = 1 .. size /\ s \in Seq(Slots)
  <2>1. s \in [1 .. size -> Slots]
    BY <1>2, <1>5
  <2>2. QED
    BY <1>1, <2>1, SeqDef
<1>7. ASSUME NEW n \in 1 .. size, s[n].name \notin Cuts, NEW m \in 1 .. n - 1
      PROVE  s[m].name # s[n].name
  <2>1. SUFFICES ASSUME s[m].name = s[n].name PROVE FALSE
    OBVIOUS
  <2>2. m \in 1 .. size /\ m # n
    BY <1>1, <1>7
  <2>3. s[m].name = names[m] /\ s[n].name = names[n]
    BY <1>5, <1>7, <2>1, <2>2
  <2>4. QED
    BY <1>2, <2>1, <2>2, <2>3
<1>8. ASSUME NEW key \in K, Stored(key) \notin Cuts PROVE \E n \in 1 .. size : s[n].name = key
  <2>1. PICK n \in 1 .. size : names[n] = key
    BY <1>4
  <2>2. QED
    BY <1>5, <1>8, <2>1
<1>9. QED
  BY <1>5, <1>6, <1>7, <1>8 DEF NamesAreUnique, K

\* What is registered for the first database and for those of the secret.
LEMMA RegisteredIsSound ==
  ASSUME secret \in Secrets, NEW first \in Seq(STRING), NEW s \in Registered(first), Fits(s)
  PROVE  /\ s \in Seq(Slots) /\ NamesAreUnique(s)
         /\ \A n \in DOMAIN s : IsSizedBy(secret.db_configs, s[n])
<1> DEFINE entries == secret.db_configs
           Goal(t) == /\ t \in Seq(Slots) /\ NamesAreUnique(t)
                      /\ \A n \in DOMAIN t : IsSizedBy(entries, t[n])
<1>1. entries \in Entries /\ db_configs = DbConfigs(entries)
  BY SecretIsRead DEF db_configs
<1>2. CASE DOMAIN db_configs = {}
  <2> DEFINE slot == Slot(first, TmpStart - 1 - WalLbas)
  <2>1. s = <<slot>>
    BY <1>2 DEF Registered
  <2>2. TmpStart \in Nat /\ WalLbas \in Nat /\ slot.size = TmpStart - 1 - WalLbas
    BY PlacementAssumption DEF Slot
  <2>3. slot.size \in Int
    BY <2>2
  <2> HIDE DEF slot
  <2>4. EndOf(s) = 1 + slot.size + WalLbas
    BY <2>1, <2>3, EndOfOneSlot
  <2>5. EndOf(s) = TmpStart
    BY <2>2, <2>4
  <2>6. QED
    BY <2>2, <2>5 DEF Fits
<1>3. CASE DOMAIN db_configs # {}
  <2>1. PICK names \in SetToSeqs(DOMAIN DbConfigs(entries)) :
            LET configured == [n \in DOMAIN names |-> Slot(names[n], DbConfigs(entries)[names[n]])]
            IN  s = IF GetRegionForPath(configured, first) # 0 THEN configured
                    ELSE Append(configured, Slot(first, DefaultLbas))
    BY <1>1, <1>3 DEF Registered
  <2> DEFINE configured == [n \in DOMAIN names |-> Slot(names[n], DbConfigs(entries)[names[n]])]
  <2>2. /\ Goal(configured)
        /\ \A key \in DOMAIN DbConfigs(entries) :
            Stored(key) \notin Cuts => \E n \in DOMAIN configured : configured[n].name = key
    <3> HIDE DEF entries
    <3>1. QED
      BY <1>1, ConfiguredIsSound
  <2> HIDE DEF configured
  <2>3. s = IF GetRegionForPath(configured, first) # 0 THEN configured
            ELSE Append(configured, Slot(first, DefaultLbas))
    BY <2>1 DEF configured
  <2>4. CASE GetRegionForPath(configured, first) # 0
    BY <2>2, <2>3, <2>4
  <2>5. CASE GetRegionForPath(configured, first) = 0
    <3> DEFINE slot == Slot(first, DefaultLbas)
    <3>1. DefaultLbas \in Nat
      BY PlacementAssumption
    <3>2. s = Append(configured, slot) /\ s \in Seq(Slots) /\ NamesAreUnique(s)
      BY <2>2, <2>3, <2>5, <3>1, SlotIsAppended
    <3>3. \A n \in DOMAIN configured : configured[n].name # first
      BY <2>2, <2>5, RegionIsFirst DEF IsRegionOf
    <3>4. Stored(first) \notin Cuts => first \notin DOMAIN DbConfigs(entries)
      BY <2>2, <3>3
    <3>5. IsSizedBy(entries, slot)
      <4> HIDE DEF entries
      <4>1. QED
        BY <1>1, <3>1, <3>4, SlotIsSized
    <3>6. slot \in Slots
      BY <3>1, SlotIsASlot
    <3> HIDE DEF slot, entries
    <3>7. \A n \in DOMAIN s : s[n] = slot \/ (n \in DOMAIN configured /\ s[n] = configured[n])
      <4>1. configured \in Seq(Slots)
        BY <2>2
      <4>2. QED
        BY <3>2, <3>6, <4>1
    <3>8. QED
      BY <2>2, <3>2, <3>5, <3>7 DEF entries
  <2>6. QED
    BY <2>4, <2>5
<1>4. QED
  BY <1>2, <1>3

-----------------------------------------------------------------------------
(* Regions and runtime states.                                             *)

\* Each runtime state is of a slot, and of the slot found by its name unless
\* the name is a cut one.
StatesAreSlots(s, states) ==
    \A name \in DOMAIN states :
        /\ states[name] \in DOMAIN s
        /\ name \notin Cuts => \A r : IsRegionOf(s, name, r) => states[name] = r

\* The slots after a call: they were none, or one more is added.
Extends(s, t) == s = <<>> \/ t = s \/ \E slot \in Slots : t = Append(s, slot)

LEMMA LoadedStatesAreSlots ==
  ASSUME NEW s \in Seq(Slots), NamesAreUnique(s)
  PROVE  StatesAreSlots(s, StatesOf(s))
<1>1. SUFFICES ASSUME NEW name \in DOMAIN StatesOf(s)
               PROVE  /\ StatesOf(s)[name] \in DOMAIN s
                      /\ name \notin Cuts =>
                            \A r : IsRegionOf(s, name, r) => StatesOf(s)[name] = r
  BY DEF StatesAreSlots
<1> DEFINE k == StatesOf(s)[name]
<1>2. k \in DOMAIN s /\ s[k].name = name
  BY StateIsASlot
<1>3. ASSUME name \notin Cuts, NEW r, IsRegionOf(s, name, r) PROVE k = r
  <2>1. k \in 1 .. Len(s) /\ r \in 1 .. Len(s) /\ Len(s) \in Nat
    BY <1>2, <1>3 DEF IsRegionOf
  <2>2. ~(k < r) /\ ~(r < k)
    BY <1>2, <1>3, <2>1 DEF IsRegionOf, NamesAreUnique
  <2>3. QED
    BY <2>1, <2>2
<1>4. QED
  BY <1>2, <1>3

LEMMA AllocationIsSound ==
  ASSUME secret \in Secrets, NEW s \in Seq(Slots), NamesAreUnique(s), NEW states, StatesAreSlots(s, states),
         NEW name \in Seq(STRING), GetRegionForPath(s, name) = 0,
         NEW t, t = AllocateNewDatabaseRegion(s, states, name).slots,
         NEW u, u = AllocateNewDatabaseRegion(s, states, name).states
  PROVE  /\ t \in Seq(Slots) /\ NamesAreUnique(t) /\ StatesAreSlots(t, u)
         /\ \E slot \in Slots : t = Append(s, slot) /\ IsSizedBy(secret.db_configs, slot)
<1> DEFINE slot == Slot(name, SizeOf(name))
<1>1. secret.db_configs \in Entries /\ db_configs = DbConfigs(secret.db_configs)
  BY SecretIsRead DEF db_configs
<1>2. SizeOf(name) \in Nat
  BY <1>1, KeysOfConfigs, PlacementAssumption DEF SizeOf
<1>3. /\ t = Append(s, slot)
      /\ u = [n \in DOMAIN states \cup {name} |-> IF n = name THEN Len(s) + 1 ELSE states[n]]
  BY DEF AllocateNewDatabaseRegion
<1>4. t \in Seq(Slots) /\ NamesAreUnique(t)
  BY <1>2, <1>3, SlotIsAppended
<1>5. slot \in Slots /\ slot.name = Stored(name)
  BY <1>2, SlotIsASlot
<1>6. IsSizedBy(secret.db_configs, slot)
  BY <1>1, <1>2, SlotIsSized DEF SizeOf
<1>7. \A n \in DOMAIN s : s[n].name # name
  BY RegionIsFirst DEF IsRegionOf
<1> HIDE DEF slot
<1>8. /\ DOMAIN s = 1 .. Len(s) /\ Len(s) \in Nat
      /\ DOMAIN t = 1 .. Len(s) + 1
      /\ t[Len(s) + 1] = slot /\ \A n \in 1 .. Len(s) : t[n] = s[n]
  BY <1>3, <1>5
<1>9. ASSUME NEW n \in DOMAIN u
      PROVE  /\ u[n] \in DOMAIN t
             /\ n \notin Cuts => \A r : IsRegionOf(t, n, r) => u[n] = r
  <2>1. CASE n = name
    <3>1. u[n] = Len(s) + 1
      BY <1>3, <1>9, <2>1
    <3>2. ASSUME NEW r, IsRegionOf(t, n, r) PROVE r = Len(s) + 1
      <4>1. r \in 1 .. Len(s) + 1 /\ t[r].name = name
        BY <1>8, <2>1, <3>2 DEF IsRegionOf
      <4>2. r \notin 1 .. Len(s)
        BY <1>7, <1>8, <4>1
      <4>3. QED
        BY <1>8, <4>1, <4>2
    <3>3. QED
      BY <1>8, <3>1, <3>2
  <2>2. CASE n # name
    <3>1. n \in DOMAIN states /\ u[n] = states[n]
      BY <1>3, <1>9, <2>2
    <3>2. states[n] \in 1 .. Len(s)
      BY <1>8, <3>1 DEF StatesAreSlots
    <3>3. ASSUME n \notin Cuts, NEW r, IsRegionOf(t, n, r) PROVE states[n] = r
      <4>1. r \in 1 .. Len(s) + 1 /\ t[r].name = n /\ \A m \in 1 .. r - 1 : t[m].name # n
        BY <1>8, <3>3 DEF IsRegionOf
      <4>2. r # Len(s) + 1
        <5>1. Stored(name) \notin Cuts => Stored(name) = name
          BY StoredIsAName
        <5>2. QED
          BY <1>5, <1>8, <2>2, <3>3, <4>1, <5>1
      <4>3. r \in 1 .. Len(s)
        BY <1>8, <4>1, <4>2
      <4>4. \A m \in 1 .. r - 1 : m \in 1 .. Len(s)
        BY <1>8, <4>3
      <4>5. IsRegionOf(s, n, r)
        BY <1>8, <4>1, <4>3, <4>4 DEF IsRegionOf
      <4>6. QED
        BY <3>1, <3>3, <4>5 DEF StatesAreSlots
    <3>4. QED
      BY <1>8, <3>1, <3>2, <3>3
  <2>3. QED
    BY <2>1, <2>2
<1>10. QED
  BY <1>3, <1>4, <1>5, <1>6, <1>9 DEF StatesAreSlots

\* A region that was found is found again.
LEMMA RegionIsKept ==
  ASSUME NEW s \in Seq(Slots), NEW t, Extends(s, t), NEW name, NEW r, IsRegionOf(s, name, r)
  PROVE  IsRegionOf(t, name, r)
<1>1. s # <<>>
  BY EmptySeq DEF IsRegionOf
<1>2. QED
  BY <1>1, RegionStays DEF Extends

LEMMA ExtensionIsLonger ==
  ASSUME NEW s \in Seq(Slots), NEW t \in Seq(Slots), Extends(s, t)
  PROVE  IsPrefix(s, t) /\ DOMAIN s \subseteq DOMAIN t
<1>1. CASE s = <<>>
  <2>1. Len(s) = 0 /\ Len(t) \in Nat /\ DOMAIN s = {}
    BY <1>1, EmptySeq, LenProperties
  <2>2. SubSeq(s, 1, 0) = <<>> /\ SubSeq(t, 1, 0) = <<>>
    BY SubSeqEmpty
  <2>3. QED
    BY <2>1, <2>2 DEF IsPrefix
<1>2. CASE t = s
  BY <1>2, LenProperties DEF IsPrefix
<1>3. CASE \E slot \in Slots : t = Append(s, slot)
  <2>1. PICK slot \in Slots : t = Append(s, slot)
    BY <1>3
  <2>2. /\ Len(s) \in Nat /\ DOMAIN s = 1 .. Len(s)
        /\ Len(t) = Len(s) + 1 /\ DOMAIN t = 1 .. Len(s) + 1
        /\ \A n \in 1 .. Len(s) : t[n] = s[n]
    BY <2>1
  <2>3. \A n \in 1 .. Len(s) : s[n] \in Slots /\ t[n] \in Slots
    BY <2>2, ElementOfSeq
  <2> DEFINE a == SubSeq(s, 1, Len(s))
             b == SubSeq(t, 1, Len(s))
  <2>4. /\ a \in Seq(Slots) /\ b \in Seq(Slots) /\ Len(a) = Len(s) /\ Len(b) = Len(s)
        /\ \A n \in 1 .. Len(s) : a[n] = s[n] /\ b[n] = t[n]
    BY <2>2
  <2> HIDE DEF a, b
  <2>5. a = b
    BY <2>2, <2>4, SeqEqual
  <2>6. QED
    BY <2>2, <2>5 DEF IsPrefix, a, b
<1>4. QED
  BY <1>1, <1>2, <1>3 DEF Extends

-----------------------------------------------------------------------------
(* Placement handles.                                                      *)

LEMMA RuhsAreNumbers ==
  ASSUME secret \in Secrets
  PROVE  Ruhs \subseteq Nat /\ \A key \in DOMAIN fdp_mapping : fdp_mapping[key] \in Ruhs
BY SecretsAssumption DEF Ruhs, fdp_mapping

LEMMA BelowIsFinite ==
  ASSUME NEW R, R \subseteq Nat, NEW ruh \in Nat
  PROVE  /\ IsFiniteSet({other \in R : other < ruh})
         /\ Cardinality({other \in R : other < ruh}) \in Nat
<1> DEFINE below == {other \in R : other < ruh}
<1>1. below \in SUBSET Nat /\ \A other \in below : other <= ruh
  <2>1. \A other \in Nat : other < ruh => other <= ruh
    OBVIOUS
  <2>2. \A other \in below : other \in Nat /\ other < ruh
    OBVIOUS
  <2> HIDE DEF below
  <2>3. QED
    BY <2>1, <2>2
<1> HIDE DEF below
<1>2. IsFiniteSet(below)
  BY <1>1, FS_BoundedSetOfNaturals
<1>3. QED
  BY <1>2, FS_CardinalityType DEF below

LEMMA PlacementIsANumber ==
  ASSUME secret \in Secrets, NEW path
  PROVE  PlacementOf(path) \in Nat
<1>1. Ruhs \cup {0} \subseteq Nat
  BY RuhsAreNumbers
<1>2. \A ruh \in DOMAIN ruhs_to_phids : ruhs_to_phids[ruh] \in Nat
  BY <1>1, BelowIsFinite DEF ruhs_to_phids
<1>3. QED
  BY <1>2 DEF PlacementOf

\* Each RUH has a placement handle of its own.
LEMMA HandlesDiffer ==
  ASSUME secret \in Secrets, NEW a \in Ruhs \cup {0}, NEW b \in Ruhs \cup {0}, a # b
  PROVE  ruhs_to_phids[a] # ruhs_to_phids[b]
<1> DEFINE R == Ruhs \cup {0}
           Below(ruh) == {other \in R : other < ruh}
<1>1. R \subseteq Nat
  BY RuhsAreNumbers
<1>2. ASSUME NEW x \in R, NEW y \in R, x < y PROVE Cardinality(Below(x)) # Cardinality(Below(y))
  <2>1. IsFiniteSet(Below(y))
    BY <1>1, BelowIsFinite
  <2>2. Below(x) \in SUBSET Below(y) /\ x \in Below(y) /\ x \notin Below(x)
    BY <1>1, <1>2
  <2> HIDE DEF Below
  <2>3. QED
    BY <2>1, <2>2, FS_Subset
<1>3. ruhs_to_phids[a] = Cardinality(Below(a)) /\ ruhs_to_phids[b] = Cardinality(Below(b))
  BY DEF ruhs_to_phids
<1>4. a \in Nat /\ b \in Nat
  BY <1>1
<1> HIDE DEF Below
<1>5. QED
  BY <1>2, <1>3, <1>4

\* The RUH of a file is the one that fdp_mapping gives it, if it fits.
LEMMA MappedIsPlaced ==
  ASSUME secret \in Secrets, NEW path \in Paths \cup {GLOBAL_METADATA_PATH}, MappedRuh(path) < RuhRange
  PROVE  MappedRuh(path) \in Ruhs \cup {0} /\ PlacementOf(path) = ruhs_to_phids[MappedRuh(path)]
<1> DEFINE type == GetFileType(path)
           ruh == MappedRuh(path)
           named == Append(DatabaseOf(path), Suffix[type])
<1>1. DOMAIN Suffix = {"DATABASE", "WAL", "TEMPORARY"}
  BY DEF Suffix
<1>2. type \in {"DATABASE", "WAL"} => path \in Seq(STRING) /\ IsDatabasePath(path)
  <2>1. GetFileType(GLOBAL_METADATA_PATH) = "GLOBAL_METADATA"
    BY DEF GetFileType
  <2>2. QED
    BY <2>1, PathsAssumption
<1>3. type \in {"DATABASE", "WAL"} => ExtractDatabaseName(path) = DatabaseOf(path)
  BY <1>2, NameOfPath
<1>4. DatabaseOf(path) = <<>> => Append(DatabaseOf(path), Suffix[type]) = <<Suffix[type]>>
  OBVIOUS
<1>5. /\ Keys(path) = {} => ruh = 0
      /\ Keys(path) # {} => \E key \in DOMAIN fdp_mapping : Keys(path) = {key} /\ ruh = fdp_mapping[key]
  <2>1. CASE type \notin DOMAIN Suffix
    BY <2>1 DEF Keys, MappedRuh
  <2>2. CASE type = "TEMPORARY"
    BY <1>1, <2>2 DEF Keys, MappedRuh
  <2>3. CASE type \in {"DATABASE", "WAL"}
    <3>1. /\ Keys(path) = IF DatabaseOf(path) # <<>> /\ named \in DOMAIN fdp_mapping THEN {named}
                          ELSE {<<Suffix[type]>>} \cap DOMAIN fdp_mapping
          /\ ruh = IF named \in DOMAIN fdp_mapping THEN fdp_mapping[named]
                   ELSE IF <<Suffix[type]>> \in DOMAIN fdp_mapping THEN fdp_mapping[<<Suffix[type]>>]
                   ELSE 0
      BY <1>1, <1>3, <2>3 DEF Keys, MappedRuh
    <3> HIDE DEF ruh, type
    <3>2. CASE DatabaseOf(path) = <<>>
      BY <1>4, <3>1, <3>2
    <3>3. CASE DatabaseOf(path) # <<>>
      BY <3>1, <3>3
    <3>4. QED
      BY <3>2, <3>3
  <2>4. QED
    BY <1>1, <2>1, <2>2, <2>3
<1> HIDE DEF ruh, type
<1>6. ruh \in Ruhs \cup {0} /\ ruh \in Nat
  BY <1>5, RuhsAreNumbers
<1>7. GetReclaimUnitHandleOrDefault(path) = ruh
  <2>1. CASE Keys(path) = {}
    BY <1>5, <2>1 DEF GetReclaimUnitHandleOrDefault
  <2>2. CASE Keys(path) # {}
    <3>1. (CHOOSE r \in {fdp_mapping[key] : key \in Keys(path)} : TRUE) = ruh
      BY <1>5, <2>2
    <3>2. ruh % RuhRange = ruh
      BY <1>6, PlacementAssumption DEF ruh
    <3>3. QED
      BY <2>2, <3>1, <3>2 DEF GetReclaimUnitHandleOrDefault
  <2>3. QED
    BY <2>1, <2>2
<1>8. QED
  BY <1>6, <1>7 DEF PlacementOf, ruhs_to_phids, ruh

-----------------------------------------------------------------------------
(* The inductive invariant.                                                *)

\* What was opened has the region found by its name now, and was given the
\* runtime state of that region unless its name is a cut one.
IsFoundAgain(h) ==
    /\ h.path \in Paths /\ GetFileType(h.path) \in {"DATABASE", "WAL"}
    /\ IsRegionOf(slots, ExtractDatabaseName(h.path), h.slot)
    /\ ExtractDatabaseName(h.path) \notin Cuts => h.state = h.slot

\* A file is among those written with a placement handle if it has that one.
UnitsArePlaced ==
    \A h \in DOMAIN units : \A p \in units[h] :
        p \in Paths \cup {GLOBAL_METADATA_PATH} /\ PlacementOf(p) = h

IInv ==
    /\ TypeOK
    /\ NamesAreUnique(slots)
    /\ StatesAreSlots(slots, active_dbs)
    /\ \A h \in opened : IsFoundAgain(h)
    /\ UnitsArePlaced

LEMMA InitHolds == Init => IInv
<1>1. SUFFICES ASSUME Init PROVE IInv
  OBVIOUS
<1>2. /\ slots = <<>> /\ active_dbs = <<>> /\ units = <<>>
      /\ handles = {} /\ opened = {} /\ attached = FALSE /\ secret \in Secrets
  BY <1>1 DEF Init
<1>3. DOMAIN <<>> = {} /\ <<>> \in Seq(Slots)
  OBVIOUS
<1>4. TypeOK
  BY <1>2, <1>3 DEF TypeOK, Slots
<1>5. NamesAreUnique(slots) /\ StatesAreSlots(slots, active_dbs) /\ UnitsArePlaced
  BY <1>2, <1>3 DEF NamesAreUnique, StatesAreSlots, UnitsArePlaced
<1>6. QED
  BY <1>2, <1>4, <1>5 DEF IInv

LEMMA UnitsStayPlaced ==
  ASSUME IInv, secret' = secret, NEW paths, paths \subseteq Paths \cup {GLOBAL_METADATA_PATH},
         Written(paths) \/ UNCHANGED units
  PROVE  UnitsArePlaced' /\ DOMAIN units' \subseteq Nat
<1>1. ASSUME NEW p PROVE PlacementOf(p)' = PlacementOf(p)
  BY DEF PlacementOf, GetReclaimUnitHandleOrDefault, Keys, ruhs_to_phids, Ruhs, fdp_mapping
<1>2. CASE UNCHANGED units
  <2>1. UnitsArePlaced /\ DOMAIN units \subseteq Nat
    BY DEF IInv, TypeOK
  <2>2. QED
    BY <1>1, <1>2, <2>1 DEF UnitsArePlaced
<1>3. CASE Written(paths) /\ secret.use_fdp
  <2>1. units' = [h \in DOMAIN units \cup {PlacementOf(p) : p \in paths} |->
                    (IF h \in DOMAIN units THEN units[h] ELSE {})
                        \cup {p \in paths : PlacementOf(p) = h}]
    BY <1>3 DEF Written
  <2>2. ASSUME NEW h \in DOMAIN units', NEW p \in units'[h]
        PROVE  p \in Paths \cup {GLOBAL_METADATA_PATH} /\ PlacementOf(p) = h
    BY <2>1, <2>2 DEF IInv, UnitsArePlaced
  <2>3. DOMAIN units' \subseteq Nat
    <3>1. \A p \in paths : PlacementOf(p) \in Nat
      BY PlacementIsANumber DEF IInv, TypeOK
    <3>2. QED
      BY <2>1, <3>1 DEF IInv, TypeOK
  <2>4. QED
    BY <1>1, <2>2, <2>3 DEF UnitsArePlaced
<1>4. QED
  BY <1>2, <1>3 DEF Written

LEMMA AttachedIsSound ==
  ASSUME IInv, NEW path \in Paths, NEW s \in Attached(path),
         NEW states, states = IF attached THEN active_dbs ELSE StatesOf(s)
  PROVE  /\ s \in Seq(Slots) /\ Fits(s) /\ NamesAreUnique(s)
         /\ StatesAreSlots(s, states)
         /\ \/ slots = <<>> /\ \A n \in DOMAIN s : IsSizedBy(secret.db_configs, s[n])
            \/ slots # <<>> /\ s = slots
<1>1. secret \in Secrets /\ slots \in Seq(Slots) /\ NamesAreUnique(slots) /\ StatesAreSlots(slots, active_dbs)
  BY DEF IInv, TypeOK, Slots
<1>2. CASE slots # <<>>
  <2>1. s = slots
    BY <1>2 DEF Attached
  <2>2. Fits(slots)
    BY <1>2 DEF IInv, TypeOK
  <2>3. StatesAreSlots(s, states)
    <3>1. CASE attached
      BY <1>1, <2>1, <3>1
    <3>2. CASE ~attached
      BY <1>1, <2>1, <3>2, LoadedStatesAreSlots
    <3>3. QED
      BY <3>1, <3>2
  <2>4. QED
    BY <1>1, <1>2, <2>1, <2>2, <2>3
<1>3. CASE slots = <<>>
  <2>1. s \in Registered(ExtractDatabaseName(path)) /\ Fits(s)
    BY <1>3 DEF Attached
  <2>2. ExtractDatabaseName(path) \in Seq(STRING)
    BY PathsAssumption, DatabaseNameIsAName
  <2>3. /\ s \in Seq(Slots) /\ NamesAreUnique(s)
        /\ \A n \in DOMAIN s : IsSizedBy(secret.db_configs, s[n])
    BY <1>1, <2>1, <2>2, RegisteredIsSound
  <2>4. StatesAreSlots(s, states)
    <3>1. CASE attached
      <4>1. states = active_dbs
        BY <3>1
      <4>2. DOMAIN <<>> = {}
        OBVIOUS
      <4>3. DOMAIN active_dbs = {}
        BY <1>1, <1>3, <4>2 DEF StatesAreSlots
      <4>4. QED
        BY <4>1, <4>3 DEF StatesAreSlots
    <3>2. CASE ~attached
      BY <2>3, <3>2, LoadedStatesAreSlots
    <3>3. QED
      BY <3>1, <3>2
  <2>5. QED
    BY <1>3, <2>1, <2>3, <2>4
<1>4. QED
  BY <1>2, <1>3

\* What OpenFile does to the layout, to the states and to the history.
OpenMeans(path) ==
    /\ secret' = secret /\ attached' = TRUE
    /\ slots' \in Seq(Slots) /\ Fits(slots') /\ NamesAreUnique(slots')
    /\ StatesAreSlots(slots', active_dbs')
    /\ Extends(slots, slots')
    /\ \A n \in DOMAIN slots' \ DOMAIN slots : IsSizedBy(secret.db_configs, slots'[n])
    /\ Written({GLOBAL_METADATA_PATH}) \/ UNCHANGED units
    /\ handles' \subseteq handles \cup Handles(path, slots', active_dbs')
    /\ opened' \subseteq opened \cup {h \in Handles(path, slots', active_dbs') : h.slot # 0}

LEMMA OpenFileMeans ==
  ASSUME IInv, NEW path \in Paths, NEW create \in BOOLEAN, OpenFile(path, create)
  PROVE  OpenMeans(path)
<1> DEFINE name == ExtractDatabaseName(path)
           StatesBy(s) == IF attached THEN active_dbs ELSE StatesOf(s)
           new(s) == /\ GetRegionForPath(s, name) = 0
                     /\ create /\ GetFileType(path) \in {"DATABASE", "WAL"}
           allocated(s) == AllocateNewDatabaseRegion(s, StatesBy(s), name)
<1>1. PICK s \in Attached(path) :
        \/ /\ Attach(s, StatesBy(s))
           /\ UNCHANGED <<handles, opened>>
        \/ /\ ~new(s)
           /\ Attach(s, StatesBy(s))
           /\ handles' = handles \cup Handles(path, s, StatesBy(s))
           /\ opened' = opened \cup {h \in Handles(path, s, StatesBy(s)) : h.slot # 0}
        \/ /\ new(s) /\ Fits(allocated(s).slots)
           /\ Attach(allocated(s).slots, allocated(s).states)
           /\ handles' = handles \cup Handles(path, allocated(s).slots, allocated(s).states)
           /\ opened' = opened \cup {h \in Handles(path, allocated(s).slots, allocated(s).states) : h.slot # 0}
  BY DEF OpenFile
<1> DEFINE states == StatesBy(s)
           grown == allocated(s)
<1>2. /\ s \in Seq(Slots) /\ Fits(s) /\ NamesAreUnique(s)
      /\ StatesAreSlots(s, states)
      /\ \/ slots = <<>> /\ \A n \in DOMAIN s : IsSizedBy(secret.db_configs, s[n])
         \/ slots # <<>> /\ s = slots
  BY AttachedIsSound
<1>3. secret \in Secrets /\ name \in Seq(STRING) /\ slots \in Seq(Slots)
  BY PathsAssumption, DatabaseNameIsAName DEF IInv, TypeOK, Slots
<1>4. Extends(slots, s) /\ \A n \in DOMAIN s \ DOMAIN slots : IsSizedBy(secret.db_configs, s[n])
  BY <1>2 DEF Extends
<1>5. ASSUME NEW t, NEW u, Attach(t, u)
      PROVE  /\ slots' = t /\ active_dbs' = u /\ attached' = TRUE /\ secret' = secret
             /\ Written({GLOBAL_METADATA_PATH}) \/ UNCHANGED units
  BY <1>5 DEF Attach
<1> HIDE DEF StatesBy, allocated, states
<1>6. CASE Attach(s, states) /\ UNCHANGED <<handles, opened>>
  BY <1>2, <1>4, <1>5, <1>6 DEF OpenMeans
<1>7. CASE /\ Attach(s, states)
           /\ handles' = handles \cup Handles(path, s, states)
           /\ opened' = opened \cup {h \in Handles(path, s, states) : h.slot # 0}
  BY <1>2, <1>4, <1>5, <1>7 DEF OpenMeans
<1>8. CASE /\ new(s) /\ Fits(grown.slots)
           /\ Attach(grown.slots, grown.states)
           /\ handles' = handles \cup Handles(path, grown.slots, grown.states)
           /\ opened' = opened \cup {h \in Handles(path, grown.slots, grown.states) : h.slot # 0}
  <2>1. /\ grown.slots \in Seq(Slots) /\ NamesAreUnique(grown.slots)
        /\ StatesAreSlots(grown.slots, grown.states)
        /\ \E slot \in Slots : grown.slots = Append(s, slot) /\ IsSizedBy(secret.db_configs, slot)
    BY <1>2, <1>3, <1>8, AllocationIsSound DEF allocated, states
  <2>2. PICK slot \in Slots : grown.slots = Append(s, slot) /\ IsSizedBy(secret.db_configs, slot)
    BY <2>1
  <2>3. Extends(slots, grown.slots)
    BY <1>2, <2>2 DEF Extends
  <2>4. \A n \in DOMAIN grown.slots \ DOMAIN slots : IsSizedBy(secret.db_configs, grown.slots[n])
    <3>1. \A n \in DOMAIN grown.slots :
            \/ n \in DOMAIN s /\ grown.slots[n] = s[n]
            \/ grown.slots[n] = slot
      BY <1>2, <2>2
    <3>2. QED
      BY <1>4, <2>2, <3>1
  <2> HIDE DEF grown
  <2>5. QED
    BY <1>5, <1>8, <2>1, <2>3, <2>4 DEF OpenMeans
<1>9. QED
  BY <1>1, <1>6, <1>7, <1>8 DEF states

LEMMA OpenFileHolds ==
  ASSUME IInv, NEW path \in Paths, OpenMeans(path)
  PROVE  IInv'
<1>1. /\ secret' = secret /\ attached' = TRUE
      /\ slots' \in Seq(Slots) /\ Fits(slots') /\ NamesAreUnique(slots')
      /\ StatesAreSlots(slots', active_dbs')
      /\ Extends(slots, slots')
      /\ Written({GLOBAL_METADATA_PATH}) \/ UNCHANGED units
      /\ handles' \subseteq handles \cup Handles(path, slots', active_dbs')
      /\ opened' \subseteq opened \cup {h \in Handles(path, slots', active_dbs') : h.slot # 0}
  BY DEF OpenMeans
<1>2. /\ slots \in Seq(Slots) /\ secret \in Secrets
      /\ \A h \in handles \cup opened : h.path \in Paths /\ {h.slot, h.state} \subseteq {0} \cup DOMAIN slots
      /\ \A h \in opened : IsFoundAgain(h)
  BY DEF IInv, TypeOK, Slots
<1>3. UnitsArePlaced' /\ DOMAIN units' \subseteq Nat
  BY <1>1, UnitsStayPlaced
<1>4. DOMAIN slots \subseteq DOMAIN slots'
  BY <1>1, <1>2, ExtensionIsLonger
<1>5. ASSUME NEW h \in Handles(path, slots', active_dbs')
      PROVE  /\ h.path = path /\ {h.slot, h.state} \subseteq {0} \cup DOMAIN slots'
             /\ h.slot # 0 => IsFoundAgain(h)'
  <2> DEFINE name == ExtractDatabaseName(path)
             region == GetRegionForPath(slots', name)
  <2>1. \/ h = [path |-> path, slot |-> 0, state |-> 0]
        \/ /\ GetFileType(path) \in {"DATABASE", "WAL"} /\ region # 0 /\ name \in DOMAIN active_dbs'
           /\ h = [path |-> path, slot |-> region, state |-> active_dbs'[name]]
    BY DEF Handles
  <2>2. CASE h = [path |-> path, slot |-> 0, state |-> 0]
    BY <2>2
  <2>3. CASE /\ GetFileType(path) \in {"DATABASE", "WAL"} /\ region # 0 /\ name \in DOMAIN active_dbs'
             /\ h = [path |-> path, slot |-> region, state |-> active_dbs'[name]]
    <3>1. IsRegionOf(slots', name, region)
      BY <1>1, <2>3, RegionIsFirst
    <3>2. active_dbs'[name] \in DOMAIN slots' /\ (name \notin Cuts => active_dbs'[name] = region)
      BY <1>1, <2>3, <3>1 DEF StatesAreSlots
    <3> HIDE DEF region
    <3>3. h.path = path /\ h.slot = region /\ h.state = active_dbs'[name]
      BY <2>3
    <3>4. region \in DOMAIN slots'
      BY <3>1 DEF IsRegionOf
    <3>5. IsFoundAgain(h)'
      BY <2>3, <3>1, <3>2, <3>3 DEF IsFoundAgain
    <3>6. QED
      BY <3>2, <3>3, <3>4, <3>5
  <2>4. QED
    BY <2>1, <2>2, <2>3
<1>6. ASSUME NEW h \in opened PROVE IsFoundAgain(h)'
  <2>1. IsRegionOf(slots, ExtractDatabaseName(h.path), h.slot)
    BY <1>2 DEF IsFoundAgain
  <2>2. IsRegionOf(slots', ExtractDatabaseName(h.path), h.slot)
    BY <1>1, <1>2, <2>1, RegionIsKept
  <2>3. QED
    BY <1>2, <2>2 DEF IsFoundAgain
<1>7. TypeOK'
  <2>1. \A name \in DOMAIN active_dbs' : active_dbs'[name] \in DOMAIN slots'
    BY <1>1 DEF StatesAreSlots
  <2>2. \A h \in (handles \cup opened)' :
            h.path \in Paths /\ {h.slot, h.state} \subseteq {0} \cup DOMAIN slots'
    BY <1>1, <1>2, <1>4, <1>5
  <2>3. UNION {units'[h] : h \in DOMAIN units'} \subseteq Paths \cup {GLOBAL_METADATA_PATH}
    BY <1>3 DEF UnitsArePlaced
  <2>4. QED
    BY <1>1, <1>2, <1>3, <2>1, <2>2, <2>3 DEF TypeOK, Slots
<1>8. \A h \in opened' : IsFoundAgain(h)'
  BY <1>1, <1>5, <1>6
<1>9. QED
  BY <1>1, <1>3, <1>7, <1>8 DEF IInv

LEMMA StepHolds == IInv /\ [Next]_vars => IInv'
<1>1. SUFFICES ASSUME IInv, [Next]_vars PROVE IInv'
  OBVIOUS
<1>2. /\ secret \in Secrets
      /\ \A h \in handles : h.path \in Paths
  BY <1>1 DEF IInv, TypeOK
<1>3. ASSUME NEW path \in Paths, NEW create \in BOOLEAN, OpenFile(path, create) PROVE IInv'
  BY <1>1, <1>3, OpenFileMeans, OpenFileHolds
\* Only the handles and the placement of what is written change.
<1>4. ASSUME UNCHANGED <<secret, slots, attached, active_dbs, opened>>, handles' \subseteq handles,
             NEW paths, paths \subseteq Paths \cup {GLOBAL_METADATA_PATH},
             Written(paths) \/ UNCHANGED units
      PROVE  IInv'
  <2>1. UnitsArePlaced' /\ DOMAIN units' \subseteq Nat
    BY <1>1, <1>4, UnitsStayPlaced
  <2>2. UNION {units'[h] : h \in DOMAIN units'} \subseteq Paths \cup {GLOBAL_METADATA_PATH}
    BY <2>1 DEF UnitsArePlaced
  <2>3. TypeOK'
    <3>1. (Fits(slots) \/ slots = <<>>)'
      BY <1>1, <1>4 DEF IInv, TypeOK
    <3>2. QED
      BY <1>1, <1>4, <2>1, <2>2, <3>1 DEF IInv, TypeOK
  <2>4. \A h \in opened' : IsFoundAgain(h)'
    BY <1>1, <1>4 DEF IInv, IsFoundAgain
  <2>5. QED
    BY <1>1, <1>4, <2>1, <2>3, <2>4 DEF IInv
<1>5. ASSUME NEW h \in handles, Close(h) PROVE IInv'
  BY <1>4, <1>5 DEF Close
<1>6. ASSUME NEW h \in handles, Write(h) PROVE IInv'
  <2>1. {h.path} \subseteq Paths \cup {GLOBAL_METADATA_PATH}
    BY <1>2
  <2>2. QED
    BY <1>4, <1>6, <2>1 DEF Write
<1>7. CASE FileSync
  BY <1>4, <1>7 DEF FileSync
<1>8. CASE Restart
  <2>1. /\ secret' \in Secrets /\ attached' = FALSE /\ active_dbs' = <<>> /\ handles' = {}
        /\ units' = <<>> /\ slots' = slots /\ opened' = opened
    BY <1>8 DEF Restart
  <2>2. DOMAIN <<>> = {}
    OBVIOUS
  <2>3. TypeOK'
    <3>1. (Fits(slots) \/ slots = <<>>)'
      BY <1>1, <2>1 DEF IInv, TypeOK
    <3>2. QED
      BY <1>1, <2>1, <2>2, <3>1 DEF IInv, TypeOK
  <2>4. StatesAreSlots(slots', active_dbs') /\ UnitsArePlaced'
    BY <2>1, <2>2 DEF StatesAreSlots, UnitsArePlaced
  <2>5. \A h \in opened' : IsFoundAgain(h)'
    BY <1>1, <2>1 DEF IInv, IsFoundAgain
  <2>6. QED
    BY <1>1, <2>1, <2>3, <2>4, <2>5 DEF IInv
<1>9. CASE UNCHANGED vars
  BY <1>4, <1>9 DEF vars
<1>10. QED
  BY <1>1, <1>3, <1>5, <1>6, <1>7, <1>8, <1>9 DEF Next

\* In every reachable state the slots, the runtime states, the history and the
\* placement of what is written fit together.
THEOREM InvariantHolds == Spec => []IInv
BY InitHolds, StepHolds, PTL DEF Spec

\* Every secret, path, name and size gives a layout that fits the device, with
\* runtime states, handles and placement handles that exist.
THEOREM PlacementIsTyped == Spec => []TypeOK
<1>1. IInv => TypeOK
  BY DEF IInv
<1>2. QED
  BY <1>1, InvariantHolds, PTL

\* A path is opened with one region in every order of calls and after every
\* restart, and two paths with the same region exactly if they name the same
\* database; a name that is not a cut one also has the runtime state of it.
THEOREM RegionsAreKept == Spec => []DatabasesKeepTheirRegions
<1>1. IInv => DatabasesKeepTheirRegions
  <2>1. SUFFICES ASSUME IInv, NEW h \in opened, NEW g \in opened
                 PROVE  /\ h.slot = g.slot <=> DatabaseOf(h.path) = DatabaseOf(g.path)
                        /\ DatabaseOf(h.path) \notin Cuts => h.state = h.slot
    BY DEF DatabasesKeepTheirRegions, Cuts
  <2>2. slots \in Seq(Slots) /\ IsFoundAgain(h) /\ IsFoundAgain(g)
    BY <2>1 DEF IInv, TypeOK, Slots
  <2>3. ASSUME NEW o, IsFoundAgain(o)
        PROVE  /\ IsRegionOf(slots, DatabaseOf(o.path), o.slot)
               /\ DatabaseOf(o.path) \notin Cuts => o.state = o.slot
    <3>1. o.path \in Seq(STRING) /\ IsDatabasePath(o.path)
      BY <2>3, PathsAssumption DEF IsFoundAgain
    <3>2. ExtractDatabaseName(o.path) = DatabaseOf(o.path)
      BY <3>1, NameOfPath
    <3>3. QED
      BY <2>3, <3>2 DEF IsFoundAgain
  <2>4. ASSUME h.slot = g.slot PROVE DatabaseOf(h.path) = DatabaseOf(g.path)
    BY <2>2, <2>3, <2>4 DEF IsRegionOf
  <2>5. ASSUME DatabaseOf(h.path) = DatabaseOf(g.path) PROVE h.slot = g.slot
    <3>1. IsRegionOf(slots, DatabaseOf(g.path), h.slot) /\ IsRegionOf(slots, DatabaseOf(g.path), g.slot)
      BY <2>2, <2>3, <2>5
    <3>2. QED
      BY <2>2, <3>1, RegionIsUnique
  <2>6. QED
    BY <2>2, <2>3, <2>4, <2>5
<1>2. QED
  BY <1>1, InvariantHolds, PTL

\* For any fdp_mapping two files share a placement handle exactly if they are
\* mapped to one RUH, as far as their RUHs fit the uint8_t.
THEOREM HandlesSeparateRuhs == Spec => []UnitsAreSeparate
<1>1. IInv => UnitsAreSeparate
  <2>1. SUFFICES ASSUME IInv, NEW h \in DOMAIN units, NEW g \in DOMAIN units,
                        NEW p \in units[h], NEW q \in units[g],
                        MappedRuh(p) < RuhRange, MappedRuh(q) < RuhRange
                 PROVE  h = g <=> MappedRuh(p) = MappedRuh(q)
    BY DEF UnitsAreSeparate
  <2>2. /\ secret \in Secrets
        /\ p \in Paths \cup {GLOBAL_METADATA_PATH} /\ PlacementOf(p) = h
        /\ q \in Paths \cup {GLOBAL_METADATA_PATH} /\ PlacementOf(q) = g
    BY <2>1 DEF IInv, TypeOK, UnitsArePlaced
  <2>3. /\ MappedRuh(p) \in Ruhs \cup {0} /\ PlacementOf(p) = ruhs_to_phids[MappedRuh(p)]
        /\ MappedRuh(q) \in Ruhs \cup {0} /\ PlacementOf(q) = ruhs_to_phids[MappedRuh(q)]
    BY <2>1, <2>2, MappedIsPlaced
  <2>4. QED
    BY <2>2, <2>3, HandlesDiffer
<1>2. QED
  BY <1>1, InvariantHolds, PTL

\* A call adds slots behind those there are; each new one has a name that no
\* other has and the size that the secret asks for, cut names excepted.
THEOREM SlotsFollowTheSecret == Spec => SlotsAreMadeAsConfigured
<1>1. ASSUME IInv, IInv', [Next]_vars
      PROVE  /\ IsPrefix(slots, slots')
             /\ \A n \in Len(slots) + 1 .. Len(slots') :
                    IsSizedBy(secret.db_configs, slots'[n])
  <2>1. slots \in Seq(Slots) /\ slots' \in Seq(Slots)
    BY <1>1 DEF IInv, TypeOK, Slots
  <2>2. CASE slots' = slots
    <3>1. Len(slots) \in Nat /\ IsPrefix(slots, slots)
      BY <2>1, ExtensionIsLonger DEF Extends
    <3>2. QED
      BY <2>2, <3>1
  <2>3. ASSUME NEW path \in Paths, OpenMeans(path)
        PROVE  /\ IsPrefix(slots, slots')
               /\ \A n \in Len(slots) + 1 .. Len(slots') : IsSizedBy(secret.db_configs, slots'[n])
    <3>1. IsPrefix(slots, slots')
      BY <2>1, <2>3, ExtensionIsLonger DEF OpenMeans
    <3>2. \A n \in Len(slots) + 1 .. Len(slots') : n \in DOMAIN slots' \ DOMAIN slots
      BY <2>1
    <3>3. QED
      BY <2>3, <3>1, <3>2 DEF OpenMeans
  <2>4. ASSUME NEW path \in Paths, NEW create \in BOOLEAN, OpenFile(path, create) PROVE OpenMeans(path)
    BY <1>1, <2>4, OpenFileMeans
  <2>5. QED
    BY <1>1, <2>2, <2>3, <2>4 DEF Next, Close, Write, FileSync, Restart, vars
<1> DEFINE IsMade(n) ==
        LET name == slots'[n].name
            entries == secret.db_configs
            mine == {e \in DOMAIN entries : Lower(entries[e].name) = Lower(name)}
        IN  name \notin {CutNames[long] : long \in DOMAIN CutNames} =>
            /\ \A m \in 1 .. n - 1 : slots'[m].name # name
            /\ mine = {} => slots'[n].size = DefaultLbas
            /\ mine # {} /\ Lower(name) = name =>
                \E e \in mine : slots'[n].size = entries[e].size
<1>2. ASSUME IInv, IInv', [Next]_vars
      PROVE  /\ IsPrefix(slots, slots')
             /\ \A n \in Len(slots) + 1 .. Len(slots') : IsMade(n)
  <2>1. SUFFICES ASSUME NEW n \in Len(slots) + 1 .. Len(slots') PROVE IsMade(n)
    BY <1>1, <1>2
  <2>2. IsSizedBy(secret.db_configs, slots'[n])
    BY <1>1, <1>2
  <2>3. slots \in Seq(Slots) /\ slots' \in Seq(Slots) /\ NamesAreUnique(slots')
    BY <1>2 DEF IInv, TypeOK, Slots
  <2>4. n \in DOMAIN slots'
    BY <2>1, <2>3
  <2>5. QED
    BY <2>2, <2>3, <2>4 DEF IsSizedBy, NamesAreUnique, Cuts
<1>3. QED
  BY <1>2, InvariantHolds, PTL DEF Spec, SlotsAreMadeAsConfigured

=============================================================================
