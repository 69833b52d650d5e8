----------------------- MODULE NvmeFileSystemProofs -----------------------
(***************************************************************************)
(* Theorems about NvmeFileSystem, for every device size, every set of      *)
(* names and every configuration that its assumptions admit.               *)
(***************************************************************************)
EXTENDS NvmeFileSystem, SequenceTheorems, TLAPS

-----------------------------------------------------------------------------
(* Lemmas about the operators of the model.                                *)

States(states) ==
    /\ DOMAIN states \subseteq Names
    /\ states \in [DOMAIN states -> Locations]

\* Sums that stay below 2^64 are sums.
LEMMA PlusIsSum ==
    ASSUME NEW x \in Nat, NEW y \in Nat, x + y < Word
    PROVE  Plus(x, y) = x + y
  BY DEF Plus

LEMMA TmpStartInDevice == TmpStart \in 0 .. LbaCount
  BY SizesAssumption DEF TmpStart, Minus

LEMMA BlankIsMetadata == Blank \in GlobalMetadata /\ Separate(Blank)
  BY SizesAssumption DEF Blank, GlobalMetadata, Separate

\* What laying out a region of n at LBA start does to md.
Appended(md, n, start, lbas) ==
    LET r == NewRegion(n, start, lbas)
        new == [md EXCEPT !.databases = Append(@, r)]
    IN  /\ r \in Region
        /\ r.db_path = n /\ r.db_start = start /\ r.wal_start = start + lbas
        /\ r.wal_end = start + lbas + MaxWalLbas
        /\ r.db_location = start /\ r.wal_location = start + lbas
        /\ new \in GlobalMetadata
        /\ Separate(new)
        /\ new.tmp_start = md.tmp_start
        /\ Len(new.databases) = Len(md.databases) + 1
        /\ DOMAIN new.databases = 1 .. Len(md.databases) + 1
        /\ \A i \in DOMAIN md.databases : new.databases[i] = md.databases[i]
        /\ new.databases[Len(md.databases) + 1] = r

\* A region laid out at the end of all others keeps the layout sound.
LEMMA AppendRegion ==
    ASSUME NEW md \in GlobalMetadata, Separate(md),
           NEW n \in Names, NEW start \in Nat \ {0}, NEW lbas \in Nat,
           \A i \in DOMAIN md.databases :
                md.databases[i].wal_end <= start /\ md.databases[i].db_path # n,
           start + lbas + MaxWalLbas < Word,
           start + lbas + MaxWalLbas < md.tmp_start
    PROVE  Appended(md, n, start, lbas)
  <1> DEFINE r == NewRegion(n, start, lbas)
             new == [md EXCEPT !.databases = Append(@, r)]
  <1>1. MaxWalLbas \in Nat
    BY SizesAssumption
  <1>2. Plus(start, lbas) = start + lbas /\ Plus(start + lbas, MaxWalLbas) = start + lbas + MaxWalLbas
    BY <1>1, WordAssumption DEF Plus
  <1>3. /\ r \in Region
        /\ r.db_path = n /\ r.db_start = start /\ r.wal_start = start + lbas
        /\ r.wal_end = start + lbas + MaxWalLbas
        /\ r.db_location = start /\ r.wal_location = start + lbas
    BY <1>1, <1>2 DEF NewRegion, Region
  <1>4. md.databases \in Seq(Region) /\ md.tmp_start \in Nat
    BY DEF GlobalMetadata
  <1>5. /\ new.databases = Append(md.databases, r)
        /\ new.tmp_start = md.tmp_start
        /\ new \in GlobalMetadata
    BY <1>3, <1>4 DEF GlobalMetadata
  <1>6. /\ Len(md.databases) \in Nat
        /\ DOMAIN md.databases = 1 .. Len(md.databases)
        /\ DOMAIN new.databases = 1 .. Len(md.databases) + 1
        /\ Len(new.databases) = Len(md.databases) + 1
        /\ \A i \in DOMAIN md.databases : new.databases[i] = md.databases[i]
        /\ new.databases[Len(md.databases) + 1] = r
    BY <1>3, <1>4, <1>5
  <1>7. \A i \in DOMAIN md.databases : md.databases[i] \in Region
    BY <1>4
  <1>8. Separate(new)
    <2> HIDE DEF r, new
    <2>1. \A i \in DOMAIN new.databases :
            \/ i \in DOMAIN md.databases /\ new.databases[i] = md.databases[i]
            \/ i = Len(md.databases) + 1 /\ new.databases[i] = r
      BY <1>6
    <2>2. new.tmp_start <= LbaCount
      BY <1>5 DEF Separate
    <2>3. ASSUME NEW i \in DOMAIN new.databases
          PROVE  LET q == new.databases[i]
                 IN  /\ 1 <= q.db_start /\ q.wal_end < new.tmp_start
                     /\ q.db_start <= q.db_location /\ q.db_location <= q.wal_start
                     /\ q.wal_start <= q.wal_location /\ q.wal_location <= q.wal_end
      BY <1>1, <1>3, <1>5, <2>1 DEF Separate
    <2>4. ASSUME NEW i \in DOMAIN new.databases, NEW j \in DOMAIN new.databases, i < j
          PROVE  /\ new.databases[i].wal_end <= new.databases[j].db_start
                 /\ new.databases[i].db_path # new.databases[j].db_path
      <3>1. i \in DOMAIN md.databases /\ new.databases[i] = md.databases[i]
        BY <1>6, <2>4
      <3>2. CASE j \in DOMAIN md.databases
        BY <1>6, <2>4, <3>1, <3>2 DEF Separate
      <3>3. CASE new.databases[j] = r
        BY <1>3, <3>1, <3>3
      <3> QED
        BY <2>1, <3>2, <3>3
    <2> QED
      BY <2>2, <2>3, <2>4 DEF Separate
  <1> QED
    BY <1>3, <1>5, <1>6, <1>8 DEF Appended

\* WriteMetadata changes the locations and nothing else of the layout.
LEMMA WithLocationsKeepsLayout ==
    ASSUME NEW md \in GlobalMetadata, NEW states, States(states),
           Separate(md), Placed(md, states)
    PROVE  LET new == WithLocations(md, states)
           IN  /\ new \in GlobalMetadata
               /\ SameLayout(md, new)
               /\ Separate(new)
               /\ Placed(new, states)
  <1> DEFINE dbs == md.databases
             stored(i) == WithLocation(dbs[i], states)
             new == WithLocations(md, states)
  <1>1. /\ dbs \in Seq(Region)
        /\ DOMAIN dbs = 1 .. Len(dbs) /\ Len(dbs) \in Nat
        /\ \A i \in DOMAIN dbs : dbs[i] \in Region
    BY DEF GlobalMetadata
  <1>2. \A i \in DOMAIN dbs : dbs[i].db_path \in DOMAIN states /\ states[dbs[i].db_path] \in Locations
    BY DEF Placed, States
  <1>3. /\ new.databases = [i \in DOMAIN dbs |-> stored(i)]
        /\ new.tmp_start = md.tmp_start
        /\ new = [tmp_start |-> md.tmp_start, databases |-> [i \in DOMAIN dbs |-> stored(i)]]
    BY DEF WithLocations, GlobalMetadata
  <1>4. \A i \in DOMAIN dbs :
            /\ stored(i) \in Region
            /\ stored(i).db_path = dbs[i].db_path
            /\ stored(i).db_start = dbs[i].db_start
            /\ stored(i).wal_start = dbs[i].wal_start
            /\ stored(i).wal_end = dbs[i].wal_end
            /\ stored(i).db_location = states[dbs[i].db_path].db_location
            /\ stored(i).wal_location = states[dbs[i].db_path].wal_location
    BY <1>1, <1>2 DEF Region, Locations, WithLocation
  <1> HIDE DEF stored
  <1>5. [i \in DOMAIN dbs |-> stored(i)] \in Seq(Region)
    <2>1. [i \in 1 .. Len(dbs) |-> stored(i)] \in [1 .. Len(dbs) -> Region]
      BY <1>1, <1>4
    <2> QED
      BY <1>1, <2>1, SeqDef
  <1>6. new \in GlobalMetadata
    BY <1>3, <1>5 DEF GlobalMetadata
  <1>7. /\ DOMAIN new.databases = DOMAIN dbs
        /\ \A i \in DOMAIN dbs : new.databases[i] = stored(i)
    BY <1>3
  <1> HIDE DEF new
  <1>8. SameLayout(md, new)
    BY <1>3, <1>4, <1>7 DEF SameLayout
  <1>9. Separate(new)
    <2>1. new.tmp_start <= LbaCount
      BY <1>3 DEF Separate
    <2>2. ASSUME NEW i \in DOMAIN new.databases
          PROVE  LET q == new.databases[i]
                 IN  /\ 1 <= q.db_start /\ q.wal_end < new.tmp_start
                     /\ q.db_start <= q.db_location /\ q.db_location <= q.wal_start
                     /\ q.wal_start <= q.wal_location /\ q.wal_location <= q.wal_end
      BY <1>3, <1>4, <1>7 DEF Separate, Placed
    <2>3. ASSUME NEW i \in DOMAIN new.databases, NEW j \in DOMAIN new.databases, i < j
          PROVE  /\ new.databases[i].wal_end <= new.databases[j].db_start
                 /\ new.databases[i].db_path # new.databases[j].db_path
      BY <1>4, <1>7, <2>3 DEF Separate
    <2> QED
      BY <2>1, <2>2, <2>3 DEF Separate
  <1>10. Placed(new, states)
    BY <1>4, <1>7 DEF Placed
  <1> QED
    BY <1>6, <1>8, <1>9, <1>10 DEF new

\* The state of a region's name is made of its locations.
LEMMA StatesOfSlot ==
    ASSUME NEW md \in GlobalMetadata, Separate(md), NEW i \in DOMAIN md.databases
    PROVE  /\ md.databases[i].db_path \in DOMAIN StatesOf(md.databases)
           /\ StatesOf(md.databases)[md.databases[i].db_path] =
                [db_location |-> md.databases[i].db_location,
                 wal_location |-> md.databases[i].wal_location]
  <1> DEFINE dbs == md.databases
             slot(n) == CHOOSE j \in DOMAIN dbs : dbs[j].db_path = n
  <1>1. DOMAIN dbs = 1 .. Len(dbs) /\ Len(dbs) \in Nat
    BY DEF GlobalMetadata
  <1>2. \A j, k \in DOMAIN dbs : dbs[j].db_path = dbs[k].db_path => j = k
    BY <1>1 DEF Separate
  <1>3. slot(dbs[i].db_path) = i
    BY <1>2
  <1> QED
    BY <1>3 DEF StatesOf

\* What TryLoadMetadata and InitializeMetadata put into active_dbs.
LEMMA StatesOfPlaced ==
    ASSUME NEW md \in GlobalMetadata, Separate(md)
    PROVE  States(StatesOf(md.databases)) /\ Placed(md, StatesOf(md.databases))
  <1> DEFINE dbs == md.databases
             states == StatesOf(dbs)
             slot(n) == CHOOSE j \in DOMAIN dbs : dbs[j].db_path = n
  <1>1. /\ DOMAIN dbs = 1 .. Len(dbs) /\ Len(dbs) \in Nat
        /\ \A i \in DOMAIN dbs : dbs[i] \in Region
    BY DEF GlobalMetadata
  <1>2. \A i, j \in DOMAIN dbs : dbs[i].db_path = dbs[j].db_path => i = j
    BY <1>1 DEF Separate
  <1>3. \A i \in DOMAIN dbs : slot(dbs[i].db_path) = i
    BY <1>2
  <1>4. DOMAIN states = {dbs[i].db_path : i \in DOMAIN dbs}
    BY DEF StatesOf
  <1>5. \A i \in DOMAIN dbs :
            states[dbs[i].db_path] = [db_location |-> dbs[i].db_location,
                                      wal_location |-> dbs[i].wal_location]
    BY <1>3 DEF StatesOf
  <1>6. states = [n \in DOMAIN states |-> states[n]]
    BY DEF StatesOf
  <1> HIDE DEF states, slot
  <1>7. States(states)
    <2>1. ASSUME NEW n \in DOMAIN states
          PROVE  n \in Names /\ states[n] \in Locations
      <3>1. PICK i \in DOMAIN dbs : n = dbs[i].db_path
        BY <1>4
      <3>2. dbs[i] \in Region
        BY <1>1
      <3>3. states[n] = [db_location |-> dbs[i].db_location,
                         wal_location |-> dbs[i].wal_location]
        BY <1>5, <3>1
      <3> QED
        BY <3>1, <3>2, <3>3 DEF Region, Locations
    <2> QED
      BY <1>6, <2>1 DEF States
  <1>8. Placed(md, states)
    <2>1. ASSUME NEW i \in DOMAIN dbs
          PROVE  /\ dbs[i].db_path \in DOMAIN states
                 /\ states[dbs[i].db_path].db_location = dbs[i].db_location
                 /\ states[dbs[i].db_path].wal_location = dbs[i].wal_location
      <3>1. dbs[i].db_path \in DOMAIN states
        BY <1>4
      <3>2. states[dbs[i].db_path] = [db_location |-> dbs[i].db_location,
                                      wal_location |-> dbs[i].wal_location]
        BY <1>5
      <3> QED
        BY <3>1, <3>2
    <2> QED
      BY <2>1 DEF Placed, Separate
  <1> QED
    BY <1>7, <1>8 DEF states

-----------------------------------------------------------------------------
(* The inductive invariant.                                                *)

\* The metadata InitializeMetadata is building: its regions end at or before
\* current_lba and carry the names of the registrations done so far.
Building ==
    init.running =>
        /\ ~attached /\ media[0] # MetaLba
        /\ init.global.tmp_start = TmpStart
        /\ init.current_lba \in 1 .. LbaCount
        /\ init.global.databases = <<>> => init.current_lba = 1
        /\ \A i \in DOMAIN init.global.databases :
            /\ init.global.databases[i].wal_end <= init.current_lba
            /\ init.global.databases[i].db_path = RegisteredName(init.first, i)

\* Before the first metadata has reached the device there is none to load.
Unwritten == media[0] # MetaLba => disk = Blank

\* The temporary space begins where the configuration puts it, and since the
\* first metadata has a region, not at LBA 0.
TemporarySpace ==
    /\ media[0] = MetaLba => disk.tmp_start = TmpStart
    /\ attached => metadata.tmp_start = TmpStart
    /\ attached \/ media[0] = MetaLba => TmpStart >= 1

IInv ==
    /\ TypeOK
    /\ RegionsSeparate
    /\ LocationsInRegion
    /\ LayoutIsDurable
    /\ Building
    /\ Unwritten
    /\ TemporarySpace

\* Extends and SameLayout as relations.
LEMMA ExtendsItself ==
    ASSUME NEW d
    PROVE  Extends(d, d) /\ SameLayout(d, d)
  BY DEF Extends, SameLayout

LEMMA SameLayoutExtends ==
    ASSUME NEW d, NEW e, NEW f, Extends(d, e), SameLayout(e, f)
    PROVE  Extends(d, f)
  BY DEF Extends, SameLayout

LEMMA SameIsExtended ==
    ASSUME NEW d, NEW e, SameLayout(d, e)
    PROVE  Extends(d, e) /\ Extends(e, d) /\ SameLayout(e, d)
  BY DEF Extends, SameLayout

LEMMA InitImpliesIInv == Init => IInv
  <1> SUFFICES ASSUME Init PROVE IInv
    OBVIOUS
  <1> USE DEF Init
  <1>1. Blank.tmp_start = 0 /\ Blank.databases = <<>>
    BY DEF Blank
  <1>2. TypeOK
    <2>1. media \in [Lbas -> Content]
      BY DEF Content, BlankLba
    <2>2. active_dbs \in [DOMAIN active_dbs -> Locations] /\ DOMAIN active_dbs = {}
      BY EmptySeq, LenProperties
    <2> QED
      BY <2>1, <2>2, BlankIsMetadata DEF TypeOK
  <1>3. ~init.running /\ ~attached
    BY DEF NoInit
  <1>4. media[0] = BlankLba /\ BlankLba # MetaLba
    BY SizesAssumption DEF Lbas, BlankLba, MetaLba
  <1> QED
    BY <1>2, <1>3, <1>4, BlankIsMetadata
    DEF IInv, RegionsSeparate, LocationsInRegion, LayoutIsDurable, Building, Unwritten,
        TemporarySpace

\* Memory has every region of the device.
LEMMA MemoryExtendsDisk ==
    ASSUME IInv, attached
    PROVE  Extends(disk, metadata)
  BY SameIsExtended DEF IInv, LayoutIsDurable

\* What a successful TryLoadMetadata has in hand.
LEMMA Loading ==
    ASSUME IInv, CanLoad
    PROVE  /\ LoadedMetadata \in GlobalMetadata
           /\ Separate(LoadedMetadata)
           /\ States(LoadedStates)
           /\ Placed(LoadedMetadata, LoadedStates)
           /\ Extends(disk, LoadedMetadata)
           /\ LoadedMetadata.tmp_start = TmpStart /\ TmpStart >= 1
           /\ ~init.running
  <1>1. /\ disk \in GlobalMetadata /\ Separate(disk) /\ ~init.running /\ TmpStart >= 1
    BY DEF IInv, TypeOK, RegionsSeparate, Building, TemporarySpace, CanLoad
  <1>2. CASE attached
    <2>1. /\ LoadedMetadata = metadata /\ LoadedStates = active_dbs
          /\ metadata \in GlobalMetadata /\ Separate(metadata)
          /\ States(active_dbs) /\ Placed(metadata, active_dbs)
          /\ metadata.tmp_start = TmpStart
      BY <1>2 DEF IInv, TypeOK, RegionsSeparate, LocationsInRegion, TemporarySpace, States,
                  LoadedMetadata, LoadedStates
    <2> QED
      BY <1>1, <1>2, <2>1, MemoryExtendsDisk
  <1>3. CASE ~attached
    <2>1. LoadedMetadata = disk /\ LoadedStates = StatesOf(disk.databases) /\ media[0] = MetaLba
      BY <1>3 DEF CanLoad, LoadedMetadata, LoadedStates
    <2>2. disk.tmp_start = TmpStart
      BY <2>1 DEF IInv, TemporarySpace
    <2> QED
      BY <1>1, <2>1, <2>2, StatesOfPlaced, ExtendsItself
  <1> QED
    BY <1>2, <1>3

\* A call that leaves the device alone, loads the metadata and has sound states
\* of it keeps the invariant.
LEMMA LoadedKeepsIInv ==
    ASSUME IInv, CanLoad, metadata' = LoadedMetadata, attached' = TRUE,
           States(active_dbs'), Placed(LoadedMetadata, active_dbs'),
           UNCHANGED <<media, disk, init, saved>>
    PROVE  IInv'
  <1> USE Loading
  <1>1. TypeOK'
    BY DEF IInv, TypeOK, States
  <1>2. RegionsSeparate' /\ LocationsInRegion'
    BY DEF IInv, RegionsSeparate, LocationsInRegion
  <1>3. LayoutIsDurable'
    <2>1. CASE attached
      BY <2>1 DEF IInv, LayoutIsDurable, LoadedMetadata, Extends, SameLayout
    <2>2. CASE ~attached
      <3>1. LoadedMetadata = disk /\ media[0] = MetaLba
        BY <2>2 DEF CanLoad, LoadedMetadata
      <3> QED
        BY <3>1, ExtendsItself DEF LayoutIsDurable, Extends, SameLayout
    <2> QED
      BY <2>1, <2>2
  <1>4. Building' /\ Unwritten' /\ TemporarySpace'
    BY DEF IInv, Building, Unwritten, TemporarySpace
  <1> QED
    BY <1>1, <1>2, <1>3, <1>4 DEF IInv

LEMMA LoadKeepsIInv ==
    ASSUME IInv, Load
    PROVE  IInv'
  BY Loading, LoadedKeepsIInv DEF Load

\* Saving a sound layout keeps the invariant.
LEMMA SaveKeepsIInv ==
    ASSUME IInv, NEW md \in GlobalMetadata, NEW states, Separate(md),
           md.tmp_start = TmpStart, TmpStart >= 1,
           States(states), Placed(md, states), WriteMetadata(md, states),
           attached' = TRUE, active_dbs' = states, init' = NoInit, saved' \in BOOLEAN
    PROVE  IInv'
  <1> DEFINE new == WithLocations(md, states)
  <1>1. /\ new \in GlobalMetadata /\ Separate(new) /\ Placed(new, states)
        /\ new.tmp_start = TmpStart
    BY WithLocationsKeepsLayout DEF SameLayout
  <1>2. metadata' = new /\ disk' = new
    BY DEF WriteMetadata
  <1> HIDE DEF new
  <1>3. media' \in [Lbas -> Content]
    BY DEF WriteMetadata, Overwrite, IInv, TypeOK, Content, MetaLba
  <1>4. media'[0] = MetaLba
    BY SizesAssumption DEF WriteMetadata, Overwrite, Transfer, Lbas
  <1>5. ~init'.running
    BY DEF NoInit
  <1>6. TypeOK'
    BY <1>1, <1>2, <1>3 DEF TypeOK, States
  <1>7. RegionsSeparate'
    BY <1>1, <1>2, <1>5 DEF RegionsSeparate
  <1>8. LocationsInRegion'
    BY <1>1, <1>2 DEF LocationsInRegion
  <1>9. LayoutIsDurable'
    BY <1>2, <1>4 DEF LayoutIsDurable, SameLayout, Extends
  <1>10. Building' /\ Unwritten' /\ TemporarySpace'
    BY <1>1, <1>2, <1>4, <1>5 DEF Building, Unwritten, TemporarySpace, TmpStart
  <1> QED
    BY <1>6, <1>7, <1>8, <1>9, <1>10 DEF IInv

\* So does a save that fails, of a layout that has the regions of the device, if
\* the failure is noted or no region is new.
LEMMA FailedSaveKeepsIInv ==
    ASSUME IInv, NEW md \in GlobalMetadata, NEW states, Separate(md),
           md.tmp_start = TmpStart, TmpStart >= 1,
           States(states), Placed(md, states), WriteMetadataFails(md, states),
           attached' = TRUE, active_dbs' = states, init' = NoInit, saved' \in BOOLEAN,
           Extends(disk, md), saved' => media[0] = MetaLba /\ SameLayout(md, disk)
    PROVE  IInv'
  <1> DEFINE new == WithLocations(md, states)
  <1>1. /\ new \in GlobalMetadata /\ Separate(new) /\ Placed(new, states)
        /\ SameLayout(md, new) /\ new.tmp_start = TmpStart
    BY WithLocationsKeepsLayout DEF SameLayout
  <1>2. metadata' = new /\ UNCHANGED <<disk, media>>
    BY DEF WriteMetadataFails
  <1> HIDE DEF new
  <1>3. ~init'.running
    BY DEF NoInit
  <1>4. TypeOK'
    BY <1>1, <1>2 DEF IInv, TypeOK, States
  <1>5. RegionsSeparate' /\ LocationsInRegion'
    BY <1>1, <1>2, <1>3 DEF IInv, RegionsSeparate, LocationsInRegion
  <1>6. LayoutIsDurable'
    <2>1. Extends(disk, new)
      BY <1>1, SameLayoutExtends
    <2>2. saved' => media[0] = MetaLba /\ SameLayout(new, disk)
      BY <1>1 DEF SameLayout
    <2> QED
      BY <1>2, <2>1, <2>2 DEF LayoutIsDurable, Extends, SameLayout
  <1>7. Building' /\ Unwritten' /\ TemporarySpace'
    BY <1>1, <1>2, <1>3 DEF IInv, Building, Unwritten, TemporarySpace, TmpStart
  <1> QED
    BY <1>4, <1>5, <1>6, <1>7 DEF IInv

LEMMA SaveNewLayoutKeepsIInv ==
    ASSUME IInv, NEW md \in GlobalMetadata, NEW states, Separate(md),
           md.tmp_start = TmpStart, TmpStart >= 1,
           States(states), Placed(md, states), SaveNewLayout(md, states),
           attached' = TRUE, active_dbs' = states, init' = NoInit, Extends(disk, md)
    PROVE  IInv'
  <1>1. CASE WriteMetadata(md, states) /\ saved' = TRUE
    BY <1>1, SaveKeepsIInv
  <1>2. CASE WriteMetadataFails(md, states) /\ saved' = FALSE
    BY <1>2, FailedSaveKeepsIInv
  <1> QED
    BY <1>1, <1>2 DEF SaveNewLayout

\* The search for the last active region starts from LBA 1 and stays below the
\* temporary space.
LEMMA HighestIsOnDevice ==
    ASSUME NEW md \in GlobalMetadata, Separate(md), NEW h \in HighestLba(md)
    PROVE  h \in Nat \ {0} /\ h <= LbaCount
  <1>1. LbaCount \in Nat /\ 1 <= LbaCount
    BY SizesAssumption
  <1>2. CASE h = 1
    BY <1>1, <1>2
  <1>3. CASE h # 1
    <2>1. PICK i \in DOMAIN md.databases : h = md.databases[i].wal_end
      BY <1>3 DEF HighestLba
    <2>2. md.databases[i] \in Region /\ md.tmp_start \in Nat
      BY <2>1 DEF GlobalMetadata
    <2>3. md.databases[i].wal_end \in Nat
      BY <2>2 DEF Region
    <2>4. h < md.tmp_start /\ md.tmp_start <= LbaCount
      BY <2>1 DEF Separate
    <2>5. h >= 1
      BY DEF HighestLba
    <2> QED
      BY <1>1, <2>1, <2>2, <2>3, <2>4, <2>5
  <1> QED
    BY <1>2, <1>3

\* What AllocateNewDatabaseRegion has made of the metadata and the states: a
\* layout with one region more, that of n, which is empty.
Allocated(n, r, new, states) ==
    /\ new \in GlobalMetadata /\ Separate(new) /\ new.tmp_start = LoadedMetadata.tmp_start
    /\ States(states) /\ Placed(new, states)
    /\ SaveNewLayout(new, states) /\ active_dbs' = states
    /\ r.db_path = n
    /\ states[n] = [db_location |-> r.db_start, wal_location |-> r.wal_start]
    /\ \A m \in DOMAIN LoadedStates : m # n => states[m] = LoadedStates[m]
    /\ DOMAIN new.databases = 1 .. Len(LoadedMetadata.databases) + 1
    /\ \A i \in DOMAIN LoadedMetadata.databases :
        new.databases[i] = LoadedMetadata.databases[i] /\ new.databases[i].db_path # n
    /\ new.databases[Len(LoadedMetadata.databases) + 1] = r

LEMMA AllocatedIsSound ==
    ASSUME IInv, NEW n \in Names, NEW type \in FileTypes, AllocateNewDatabaseRegion(n, type)
    PROVE  \E r, new, states : Allocated(n, r, new, states)
  <1> DEFINE md == LoadedMetadata
             lbas == RequestedLbas(n)
  <1>1. /\ md \in GlobalMetadata /\ Separate(md)
        /\ States(LoadedStates) /\ Placed(md, LoadedStates)
    BY Loading DEF AllocateNewDatabaseRegion
  <1>2. PICK h \in HighestLba(md) :
            LET r == NewRegion(n, h, lbas)
                new == [md EXCEPT !.databases = Append(@, r)]
                states == [m \in DOMAIN LoadedStates \cup {n} |->
                            IF m = n THEN [db_location |-> r.db_start, wal_location |-> r.wal_start]
                            ELSE LoadedStates[m]]
            IN  /\ Plus(Plus(h, lbas), MaxWalLbas) < md.tmp_start
                /\ active_dbs' = states
                /\ SaveNewLayout(new, states)
    BY DEF AllocateNewDatabaseRegion
  <1> DEFINE r == NewRegion(n, h, lbas)
             new == [md EXCEPT !.databases = Append(@, r)]
             states == [m \in DOMAIN LoadedStates \cup {n} |->
                            IF m = n THEN [db_location |-> r.db_start, wal_location |-> r.wal_start]
                            ELSE LoadedStates[m]]
  <1>3. /\ DOMAIN md.databases = 1 .. Len(md.databases) /\ Len(md.databases) \in Nat
        /\ \A i \in DOMAIN md.databases : md.databases[i] \in Region
        /\ md.tmp_start \in Nat /\ md.tmp_start <= LbaCount
    BY <1>1 DEF GlobalMetadata, Separate
  <1>4. h \in Nat \ {0} /\ h <= LbaCount
    <2> HIDE DEF md
    <2> QED
      BY <1>1, HighestIsOnDevice
  <1>5. lbas \in Nat /\ MaxWalLbas \in Nat /\ h + lbas + MaxWalLbas < Word
    BY <1>4, SizesAssumption, ConfigAssumption, WordAssumption DEF RequestedLbas
  <1>6. h + lbas + MaxWalLbas < md.tmp_start
    <2>1. Plus(h, lbas) = h + lbas /\ Plus(h + lbas, MaxWalLbas) = h + lbas + MaxWalLbas
      BY <1>4, <1>5, WordAssumption DEF Plus
    <2> QED
      BY <1>2, <2>1
  <1>7. \A i \in DOMAIN md.databases :
            md.databases[i].wal_end <= h /\ md.databases[i].db_path # n
    BY DEF AllocateNewDatabaseRegion, HighestLba, SlotsOf
  <1>8. /\ r \in Region
        /\ r.db_path = n /\ r.db_start = h /\ r.wal_start = h + lbas
        /\ r.wal_end = h + lbas + MaxWalLbas
        /\ r.db_location = h /\ r.wal_location = h + lbas
        /\ new \in GlobalMetadata
        /\ Separate(new)
        /\ new.tmp_start = md.tmp_start
        /\ DOMAIN new.databases = 1 .. Len(md.databases) + 1
        /\ \A i \in DOMAIN md.databases : new.databases[i] = md.databases[i]
        /\ new.databases[Len(md.databases) + 1] = r
    <2> HIDE DEF md, lbas
    <2>1. Appended(md, n, h, lbas)
      BY <1>1, <1>4, <1>5, <1>6, <1>7, AppendRegion
    <2> QED
      BY <2>1 DEF Appended
  <1>9. SaveNewLayout(new, states) /\ active_dbs' = states
    BY <1>2
  <1> HIDE DEF md, lbas, r, new
  <1>10. States(states)
    <2>1. [db_location |-> r.db_start, wal_location |-> r.wal_start] \in Locations
      BY <1>4, <1>5, <1>8 DEF Locations
    <2>2. DOMAIN states = DOMAIN LoadedStates \cup {n}
      OBVIOUS
    <2>3. \A m \in DOMAIN states : m \in Names /\ states[m] \in Locations
      BY <1>1, <2>1 DEF States
    <2> QED
      BY <2>2, <2>3 DEF States
  <1>11. Placed(new, states)
    <2>1. ASSUME NEW i \in DOMAIN md.databases
          PROVE  /\ md.databases[i].db_path \in DOMAIN states
                 /\ states[md.databases[i].db_path] = LoadedStates[md.databases[i].db_path]
      BY <1>1, <1>7 DEF Placed
    <2>2. states[n] = [db_location |-> r.db_start, wal_location |-> r.wal_start]
      OBVIOUS
    <2>3. ASSUME NEW i \in DOMAIN new.databases
          PROVE  LET q == new.databases[i]
                 IN  /\ q.db_path \in DOMAIN states
                     /\ q.db_start <= states[q.db_path].db_location
                     /\ states[q.db_path].db_location <= q.wal_start
                     /\ q.wal_start <= states[q.db_path].wal_location
                     /\ states[q.db_path].wal_location <= q.wal_end
      <3>1. CASE i \in DOMAIN md.databases
        BY <1>1, <1>8, <2>1, <3>1 DEF Placed
      <3>2. CASE i = Len(md.databases) + 1
        <4>1. new.databases[i] = r
          BY <1>8, <3>2
        <4>2. states[n].db_location = h /\ states[n].wal_location = h + lbas
          BY <1>8, <2>2
        <4> HIDE DEF states
        <4>3. n \in DOMAIN states
          BY DEF states
        <4> QED
          BY <1>4, <1>5, <1>8, <4>1, <4>2, <4>3
      <3> QED
        BY <1>3, <1>8, <3>1, <3>2
    <2> QED
      BY <2>3 DEF Placed
  <1>12. /\ states[n] = [db_location |-> r.db_start, wal_location |-> r.wal_start]
         /\ \A m \in DOMAIN LoadedStates : m # n => states[m] = LoadedStates[m]
    OBVIOUS
  <1> HIDE DEF states
  <1>13. Allocated(n, r, new, states)
    BY <1>1, <1>7, <1>8, <1>9, <1>10, <1>11, <1>12 DEF Allocated, md
  <1> QED
    BY <1>13

\* The layout with one region more has those of the old one.
LEMMA AllocatedExtends ==
    ASSUME NEW n, NEW r, NEW new, NEW states, Allocated(n, r, new, states),
           LoadedMetadata \in GlobalMetadata
    PROVE  /\ Extends(LoadedMetadata, new)
           /\ \A d : Extends(d, LoadedMetadata) => Extends(d, new)
  <1>1. /\ new.tmp_start = LoadedMetadata.tmp_start
        /\ DOMAIN LoadedMetadata.databases \subseteq DOMAIN new.databases
        /\ \A i \in DOMAIN LoadedMetadata.databases :
            new.databases[i] = LoadedMetadata.databases[i]
    BY DEF Allocated, GlobalMetadata
  <1> QED
    BY <1>1 DEF Extends

LEMMA AllocateKeepsIInv ==
    ASSUME IInv, NEW n \in Names, NEW type \in FileTypes, AllocateNewDatabaseRegion(n, type)
    PROVE  IInv'
  <1>1. PICK r, new, states : Allocated(n, r, new, states)
    BY AllocatedIsSound
  <1>2. init' = NoInit /\ attached' = TRUE
    BY DEF AllocateNewDatabaseRegion, Idle, IInv, TypeOK, NoInit
  <1>3. /\ Extends(disk, new) /\ new.tmp_start = TmpStart /\ TmpStart >= 1
    BY <1>1, AllocatedExtends, Loading DEF AllocateNewDatabaseRegion, Allocated
  <1> QED
    BY <1>1, <1>2, <1>3, SaveNewLayoutKeepsIInv DEF Allocated

\* The sizes of the registrations are numbers, and the single registration of
\* a configuration without db_configs always ends exactly at tmp_start.
LEMMA RegisteredLbasType ==
    ASSUME NEW first \in Names, NEW k \in Nat \ {0}
    PROVE  RegisteredLbas(first, k) \in Nat
  <1>1. CASE k <= Len(ConfigOrder)
    <2>1. ConfigOrder \in Seq(Names) /\ k \in DOMAIN ConfigOrder
      BY <1>1, ConfigAssumption
    <2>2. ConfigOrder[k] \in Configured
      BY <2>1 DEF Configured, Range
    <2> QED
      BY <1>1, <2>2, ConfigAssumption DEF RegisteredLbas
  <1>2. CASE ~(k <= Len(ConfigOrder))
    BY <1>2, TmpStartInDevice, SizesAssumption, WordAssumption DEF RegisteredLbas, Minus
  <1> QED
    BY <1>1, <1>2

LEMMA WithoutConfig ==
    ASSUME ConfigOrder = <<>>, NEW first \in Names, NEW k \in Nat \ {0}
    PROVE  Plus(Plus(1, RegisteredLbas(first, k)), MaxWalLbas) = TmpStart
  <1>1. RegisteredLbas(first, k) = Minus(Minus(TmpStart, 1), MaxWalLbas)
    BY DEF RegisteredLbas
  <1>2. TmpStart \in Nat /\ TmpStart < Word /\ MaxWalLbas \in Nat /\ MaxWalLbas < Word
    BY TmpStartInDevice, SizesAssumption, WordAssumption
  <1> QED
    BY <1>1, <1>2, WordAssumption DEF Minus, Plus

LEMMA RegisterKeepsIInv ==
    ASSUME IInv, RegisterDB
    PROVE  IInv'
  <1> DEFINE md == init.global
             k == NextRegistration
             n == RegisteredName(init.first, k)
             lbas == RegisteredLbas(init.first, k)
             start == init.current_lba
  <1>0. /\ init.running /\ k <= NrRegistrations(init.first) /\ RegistrationEnd < md.tmp_start
        /\ init' = [init EXCEPT !.current_lba = RegistrationEnd,
                                !.global.databases = Append(@, NewRegion(n, start, lbas))]
        /\ UNCHANGED <<media, disk, attached, metadata, active_dbs, saved>>
    BY DEF RegisterDB
  <1>1. /\ init \in [running : {TRUE}, first : Names, current_lba : Nat, global : GlobalMetadata]
        /\ Separate(md)
        /\ md.tmp_start = TmpStart
        /\ start \in 1 .. LbaCount
        /\ md.databases = <<>> => start = 1
        /\ \A i \in DOMAIN md.databases :
            md.databases[i].wal_end <= start
            /\ md.databases[i].db_path = RegisteredName(init.first, i)
    <2>1. init # NoInit
      BY <1>0 DEF NoInit
    <2> QED
      BY <1>0, <2>1 DEF IInv, TypeOK, RegionsSeparate, Building
  <1>2. md \in GlobalMetadata /\ md.databases \in Seq(Region)
    BY <1>1 DEF GlobalMetadata
  <1>3. /\ DOMAIN md.databases = 1 .. Len(md.databases) /\ Len(md.databases) \in Nat
        /\ k = Len(md.databases) + 1
    BY <1>2 DEF NextRegistration
  <1>4. /\ Len(ConfigOrder) \in Nat
        /\ \A i \in 1 .. Len(ConfigOrder) : ConfigOrder[i] \in Configured /\ ConfigOrder[i] \in Names
    BY ConfigAssumption DEF Configured, Range
  <1>5. n \in Names
    BY <1>1, <1>3, <1>4 DEF RegisteredName
  <1>6. lbas \in Nat
    BY <1>1, <1>3, RegisteredLbasType
  <1>7. \A i \in DOMAIN md.databases : md.databases[i].db_path # n
    <2>1. SUFFICES ASSUME NEW i \in 1 .. Len(md.databases)
                   PROVE  RegisteredName(init.first, i) # RegisteredName(init.first, k)
      BY <1>1, <1>3
    <2>2. k <= NrRegistrations(init.first) /\ i < k
      BY <1>0, <1>3
    <2>3. CASE k <= Len(ConfigOrder)
      <3>1. i \in DOMAIN ConfigOrder /\ k \in DOMAIN ConfigOrder /\ i # k
        BY <1>3, <1>4, <2>2, <2>3, ConfigAssumption
      <3> QED
        BY <2>2, <2>3, <3>1, ConfigAssumption DEF RegisteredName
    <2>4. CASE ~(k <= Len(ConfigOrder))
      <3>1. k = Len(ConfigOrder) + 1 /\ i <= Len(ConfigOrder) /\ init.first \notin Configured
        BY <1>3, <1>4, <2>2, <2>4 DEF NrRegistrations
      <3> QED
        BY <1>4, <2>4, <3>1 DEF RegisteredName
    <2> QED
      BY <2>3, <2>4
  <1>8. start + lbas + MaxWalLbas < Word
    <2>1. CASE k <= Len(ConfigOrder)
      BY <1>1, <1>3, <1>4, <2>1, SizesAssumption, ConfigAssumption, WordAssumption DEF RegisteredLbas
    <2>2. CASE ~(k <= Len(ConfigOrder)) /\ ConfigOrder # <<>>
      BY <1>1, <1>3, <2>2, SizesAssumption, WordAssumption DEF RegisteredLbas
    <2>3. CASE ConfigOrder = <<>>
      <3>1. md.databases = <<>>
        <4>1. k <= 1
          BY <1>0, <2>3 DEF NrRegistrations
        <4> QED
          BY <1>2, <1>3, <4>1, EmptySeq
      <3>2. RegistrationEnd = TmpStart
        BY <1>1, <1>3, <2>3, <3>1, WithoutConfig DEF RegistrationEnd
      <3> QED
        BY <1>0, <1>1, <3>2, TmpStartInDevice
    <2> QED
      BY <2>1, <2>2, <2>3
  <1>9. RegistrationEnd = start + lbas + MaxWalLbas
    BY <1>1, <1>6, <1>8, SizesAssumption, WordAssumption DEF RegistrationEnd, Plus
  <1> DEFINE new == [md EXCEPT !.databases = Append(@, NewRegion(n, start, lbas))]
  <1>10. Appended(md, n, start, lbas)
    <2>1. /\ start \in Nat \ {0} /\ start + lbas + MaxWalLbas < md.tmp_start
          /\ \A i \in DOMAIN md.databases :
                md.databases[i].wal_end <= start /\ md.databases[i].db_path # n
      BY <1>0, <1>1, <1>7, <1>9
    <2> HIDE DEF md, n, lbas, start
    <2>2. md \in GlobalMetadata /\ Separate(md) /\ n \in Names /\ lbas \in Nat
      BY <1>1, <1>2, <1>5, <1>6
    <2> QED
      BY <1>8, <2>1, <2>2, AppendRegion
  <1>11. init' = [init EXCEPT !.current_lba = RegistrationEnd, !.global = new]
    BY <1>0, <1>1 DEF GlobalMetadata
  <1>12. /\ init'.running /\ init'.first = init.first
         /\ init'.current_lba = start + lbas + MaxWalLbas
         /\ init'.global = new
         /\ init' \in [running : {TRUE}, first : Names, current_lba : Nat, global : GlobalMetadata]
    <2>1. new \in GlobalMetadata /\ start + lbas + MaxWalLbas \in Nat
      BY <1>1, <1>6, <1>10, SizesAssumption DEF Appended
    <2> HIDE DEF new, lbas, start
    <2> QED
      BY <1>0, <1>1, <1>9, <1>11, <2>1
  <1>13. /\ Separate(new) /\ new.tmp_start = TmpStart
         /\ DOMAIN new.databases = 1 .. k
         /\ \A i \in DOMAIN md.databases : new.databases[i] = md.databases[i]
         /\ new.databases[k].db_path = n
         /\ new.databases[k].wal_end = start + lbas + MaxWalLbas
    BY <1>1, <1>3, <1>10 DEF Appended
  <1>14. Building'
    <2>1. new.tmp_start = TmpStart /\ start + lbas + MaxWalLbas \in 1 .. LbaCount
      BY <1>0, <1>1, <1>6, <1>9, <1>13, SizesAssumption, TmpStartInDevice
    <2>2. new.databases # <<>>
      <3>1. 1 \in DOMAIN new.databases
        BY <1>3, <1>13
      <3> HIDE DEF new
      <3>2. DOMAIN <<>> = {}
        OBVIOUS
      <3> QED
        BY <3>1, <3>2
    <2>3. ASSUME NEW i \in DOMAIN new.databases
          PROVE  /\ new.databases[i].wal_end <= start + lbas + MaxWalLbas
                 /\ new.databases[i].db_path = RegisteredName(init.first, i)
      <3>1. CASE i = k
        BY <1>3, <1>6, <1>13, <3>1, <1>1, SizesAssumption
      <3>2. CASE i \in DOMAIN md.databases
        <4>1. md.databases[i] \in Region
          BY <1>2, <1>3, <3>2, ElementOfSeq
        <4>2. md.databases[i].wal_end \in Nat
          BY <4>1 DEF Region
        <4>3. md.databases[i].wal_end <= start /\ md.databases[i].db_path = RegisteredName(init.first, i)
          BY <1>1, <3>2
        <4>4. new.databases[i] = md.databases[i]
          BY <1>13, <3>2
        <4> HIDE DEF md, new, lbas, start
        <4>5. start \in Nat /\ lbas \in Nat /\ MaxWalLbas \in Nat
          BY <1>1, <1>6, SizesAssumption
        <4> QED
          BY <4>2, <4>3, <4>4, <4>5
      <3> QED
        BY <1>3, <1>13, <3>1, <3>2
    <2> HIDE DEF new, lbas, start, n
    <2> QED
      BY <1>0, <1>12, <2>1, <2>2, <2>3 DEF Building, IInv
  <1> HIDE DEF new
  <1>15. TypeOK'
    BY <1>0, <1>12 DEF IInv, TypeOK
  <1>16. RegionsSeparate'
    BY <1>0, <1>12, <1>13 DEF IInv, RegionsSeparate
  <1>17. LocationsInRegion' /\ LayoutIsDurable' /\ Unwritten' /\ TemporarySpace'
    BY <1>0 DEF IInv, LocationsInRegion, LayoutIsDurable, Unwritten, TemporarySpace
  <1> QED
    BY <1>14, <1>15, <1>16, <1>17 DEF IInv

\* What InitializeMetadata has built: at least one registration was asked for.
LEMMA PublishedIsSound ==
    ASSUME IInv, PublishMetadata
    PROVE  /\ init.global \in GlobalMetadata /\ Separate(init.global)
           /\ 1 \in DOMAIN init.global.databases
           /\ init.global.tmp_start = TmpStart /\ TmpStart >= 1
           /\ ~attached /\ disk = Blank
  <1> DEFINE md == init.global
  <1>1. init.running /\ NextRegistration > NrRegistrations(init.first)
    BY DEF PublishMetadata
  <1>2. init # NoInit
    BY <1>1 DEF NoInit
  <1>3. md \in GlobalMetadata /\ Separate(md)
    BY <1>1, <1>2 DEF IInv, TypeOK, RegionsSeparate
  <1>4. /\ DOMAIN md.databases = 1 .. Len(md.databases) /\ Len(md.databases) \in Nat
        /\ md.tmp_start \in Nat
    BY <1>3 DEF GlobalMetadata
  <1>5. Len(ConfigOrder) \in Nat /\ (Len(ConfigOrder) = 0 => ConfigOrder = <<>>)
    BY ConfigAssumption, EmptySeq
  <1>6. NrRegistrations(init.first) >= 1
    BY <1>5 DEF NrRegistrations
  <1>7. 1 \in DOMAIN md.databases
    BY <1>1, <1>4, <1>5, <1>6 DEF NextRegistration, NrRegistrations
  <1>8. md.databases[1] \in Region
    BY <1>3, <1>4, <1>7, ElementOfSeq DEF GlobalMetadata
  <1>9. md.tmp_start >= 1
    BY <1>3, <1>4, <1>7, <1>8 DEF Separate, Region
  <1>10. md.tmp_start = TmpStart /\ ~attached /\ disk = Blank
    BY <1>1 DEF IInv, Building, Unwritten
  <1> QED
    BY <1>3, <1>7, <1>9, <1>10

LEMMA PublishKeepsIInv ==
    ASSUME IInv, PublishMetadata
    PROVE  IInv'
  <1> DEFINE md == init.global
  <1>1. /\ SaveNewLayout(md, StatesOf(md.databases))
        /\ attached' = TRUE /\ active_dbs' = StatesOf(md.databases)
        /\ init' = NoInit
    BY DEF PublishMetadata
  <1>2. /\ md \in GlobalMetadata /\ Separate(md) /\ md.tmp_start = TmpStart /\ TmpStart >= 1
        /\ disk = Blank
    BY PublishedIsSound
  <1>3. States(StatesOf(md.databases)) /\ Placed(md, StatesOf(md.databases))
    BY <1>2, StatesOfPlaced
  <1>4. Extends(disk, md)
    <2>1. DOMAIN disk.databases = {}
      BY <1>2 DEF Blank
    <2> QED
      BY <1>2, <2>1 DEF Extends
  <1> QED
    BY <1>1, <1>2, <1>3, <1>4, SaveNewLayoutKeepsIInv

\* A location set inside its file keeps every location in its region.
LEMMA SetLocationPlaced ==
    ASSUME NEW md \in GlobalMetadata, Separate(md),
           NEW states, States(states), Placed(md, states),
           NEW n, NEW type \in FileTypes, NEW i \in SlotsOf(md, n), NEW lba \in Nat,
           FirstLba(md.databases[i], type) <= lba, lba <= EndLba(md.databases[i], type)
    PROVE  LET new == IF type = "DATABASE" THEN [states EXCEPT ![n].db_location = lba]
                      ELSE [states EXCEPT ![n].wal_location = lba]
           IN  States(new) /\ Placed(md, new)
  <1> DEFINE new == IF type = "DATABASE" THEN [states EXCEPT ![n].db_location = lba]
                    ELSE [states EXCEPT ![n].wal_location = lba]
  <1>1. /\ i \in DOMAIN md.databases /\ md.databases[i].db_path = n
        /\ DOMAIN md.databases = 1 .. Len(md.databases) /\ Len(md.databases) \in Nat
    BY DEF SlotsOf, GlobalMetadata
  <1>2. n \in DOMAIN states /\ \A m \in DOMAIN states : states[m] \in Locations
    BY <1>1 DEF Placed, States
  <1>3. /\ DOMAIN new = DOMAIN states
        /\ \A m \in DOMAIN states : m # n => new[m] = states[m]
        /\ new[n] \in Locations
        /\ type = "DATABASE" => new[n].db_location = lba /\ new[n].wal_location = states[n].wal_location
        /\ type = "WAL" => new[n].wal_location = lba /\ new[n].db_location = states[n].db_location
    BY <1>2 DEF Locations, FileTypes
  <1>4. States(new)
    <2>1. new = [m \in DOMAIN new |-> new[m]]
      BY DEF States
    <2> HIDE DEF new
    <2>2. \A m \in DOMAIN new : m \in Names /\ new[m] \in Locations
      BY <1>2, <1>3 DEF States
    <2> QED
      BY <2>1, <2>2 DEF States
  <1> HIDE DEF new
  <1>5. ASSUME NEW j \in DOMAIN md.databases
        PROVE  LET q == md.databases[j]
               IN  /\ q.db_path \in DOMAIN new
                   /\ q.db_start <= new[q.db_path].db_location
                   /\ new[q.db_path].db_location <= q.wal_start
                   /\ q.wal_start <= new[q.db_path].wal_location
                   /\ new[q.db_path].wal_location <= q.wal_end
    <2>1. CASE j = i
      BY <1>1, <1>2, <1>3, <2>1 DEF Placed, FirstLba, EndLba, FileTypes
    <2>2. CASE j # i
      <3>1. md.databases[j].db_path # n
        BY <1>1, <2>2 DEF Separate
      <3> QED
        BY <1>3, <3>1 DEF Placed
    <2> QED
      BY <2>1, <2>2
  <1> QED
    BY <1>4, <1>5 DEF Placed, new

\* What the handlers that work on an open file have in hand.
LEMMA Attached ==
    ASSUME IInv, attached
    PROVE  /\ metadata \in GlobalMetadata /\ Separate(metadata)
           /\ States(active_dbs) /\ Placed(metadata, active_dbs)
           /\ Extends(disk, metadata)
           /\ metadata.tmp_start = TmpStart /\ TmpStart >= 1
           /\ ~init.running /\ init = NoInit
           /\ LoadedMetadata = metadata /\ LoadedStates = active_dbs
  <1>1. ~init.running
    BY DEF IInv, Building
  <1> QED
    BY <1>1, MemoryExtendsDisk
    DEF IInv, TypeOK, RegionsSeparate, LocationsInRegion, States, TemporarySpace, LoadedMetadata,
        LoadedStates

LEMMA RegionOf ==
    ASSUME NEW md \in GlobalMetadata, Separate(md), NEW n, NEW type \in FileTypes,
           NEW i \in SlotsOf(md, n)
    PROVE  /\ md.databases[i] \in Region
           /\ FirstLba(md.databases[i], type) \in Nat \ {0}
           /\ EndLba(md.databases[i], type) \in Nat
           /\ FirstLba(md.databases[i], type) <= EndLba(md.databases[i], type)
  <1>1. i \in DOMAIN md.databases /\ md.databases[i] \in Region
    BY DEF SlotsOf, GlobalMetadata
  <1> QED
    BY <1>1 DEF Separate, Region, FirstLba, EndLba, FileTypes

\* A call on an open handle that moves one location inside its file, and may
\* write data, but not at LBA 0.
LEMMA HandleCallKeepsIInv ==
    ASSUME IInv, attached, Idle, States(active_dbs'), Placed(metadata, active_dbs'),
           media' \in [Lbas -> Content], media'[0] = media[0],
           UNCHANGED <<disk, attached, metadata, init, saved>>
    PROVE  IInv'
  <1> USE Attached
  <1>1. TypeOK'
    BY DEF IInv, TypeOK, States
  <1>2. RegionsSeparate' /\ Building'
    BY DEF IInv, RegionsSeparate, Building, Idle
  <1>3. LocationsInRegion' /\ LayoutIsDurable' /\ Unwritten' /\ TemporarySpace'
    BY DEF IInv, LocationsInRegion, LayoutIsDurable, Unwritten, TemporarySpace, SameLayout, Extends
  <1> QED
    BY <1>1, <1>2, <1>3 DEF IInv

\* LBA 0 is in no region.
LEMMA WriteDataIsSound ==
    ASSUME IInv, NEW n \in Names, NEW type \in FileTypes, NEW start \in Nat \ {0}, NEW count \in Nat,
           WriteData(n, type, start, count)
    PROVE  media' \in [Lbas -> Content] /\ media'[0] = media[0]
  <1>1. PICK lbas \in SUBSET Transfer(start, count) :
            media' = Overwrite(media, lbas, FileLba(type, n))
    BY DEF WriteData
  <1>2. media \in [Lbas -> Content] /\ FileLba(type, n) \in Content
    BY DEF IInv, TypeOK, Content, FileLba
  <1>3. 0 \in Lbas /\ 0 \notin lbas
    BY SizesAssumption DEF Lbas, Transfer
  <1> QED
    BY <1>1, <1>2, <1>3 DEF Overwrite

\* Write, also where it fails, transfers inside its region.
LEMMA WriteInRegion ==
    ASSUME IInv, attached, NEW n \in Names, NEW type \in FileTypes, NEW offset \in Nat,
           NEW count \in Nat \ {0}, NEW i \in SlotsOf(metadata, n),
           IsLBAInRange(metadata.databases[i], type,
                        FirstLba(metadata.databases[i], type) + offset, count)
    PROVE  LET r == metadata.databases[i]
               start == FirstLba(r, type) + offset
           IN  /\ start \in Nat \ {0} /\ FirstLba(r, type) \in Nat /\ EndLba(r, type) \in Nat
               /\ FirstLba(r, type) <= start /\ start + count <= EndLba(r, type)
  BY Attached, RegionOf DEF IsLBAInRange

LEMMA WriteKeepsIInv ==
    ASSUME IInv, NEW n \in Names, NEW type \in FileTypes, NEW offset \in Nat, NEW count \in Nat \ {0},
           Write(n, type, offset, count)
    PROVE  IInv'
  <1>1. attached /\ Idle /\ UNCHANGED <<disk, attached, metadata, init, saved>>
    BY DEF Write, HasFile
  <1>2. PICK i \in SlotsOf(metadata, n) :
            LET r == metadata.databases[i]
                start == FirstLba(r, type) + offset
            IN  /\ IsLBAInRange(r, type, start, count)
                /\ WriteData(n, type, start, count)
                /\ IF start + count < Location(n, type) THEN UNCHANGED active_dbs
                   ELSE SetLocation(n, type, start + count)
    BY DEF Write
  <1> DEFINE r == metadata.databases[i]
             start == FirstLba(r, type) + offset
  <1>3. /\ start \in Nat \ {0} /\ start + count \in Nat
        /\ FirstLba(r, type) <= start + count /\ start + count <= EndLba(r, type)
    BY <1>1, <1>2, WriteInRegion
  <1> HIDE DEF r, start
  <1>4. /\ WriteData(n, type, start, count)
        /\ \/ UNCHANGED active_dbs
           \/ SetLocation(n, type, start + count)
    BY <1>2 DEF r, start
  <1>5. media' \in [Lbas -> Content] /\ media'[0] = media[0]
    BY <1>3, <1>4, WriteDataIsSound
  <1>6. States(active_dbs') /\ Placed(metadata, active_dbs')
    <2>1. CASE UNCHANGED active_dbs
      BY <1>1, <2>1, Attached
    <2>2. CASE SetLocation(n, type, start + count)
      BY <1>1, <1>3, <2>2, Attached, SetLocationPlaced DEF SetLocation, r
    <2> QED
      BY <1>4, <2>1, <2>2
  <1> QED
    BY <1>1, <1>5, <1>6, HandleCallKeepsIInv

LEMMA WriteFailsKeepsIInv ==
    ASSUME IInv, NEW n \in Names, NEW type \in FileTypes, NEW offset \in Nat, NEW count \in Nat \ {0},
           WriteFails(n, type, offset, count)
    PROVE  IInv'
  <1>1. attached /\ Idle /\ UNCHANGED <<disk, attached, metadata, active_dbs, init, saved>>
    BY DEF WriteFails, HasFile
  <1>2. PICK i \in SlotsOf(metadata, n) :
            LET r == metadata.databases[i]
                start == FirstLba(r, type) + offset
            IN  IsLBAInRange(r, type, start, count) /\ WriteData(n, type, start, count)
    BY DEF WriteFails
  <1>3. FirstLba(metadata.databases[i], type) + offset \in Nat \ {0}
    BY <1>1, <1>2, WriteInRegion
  <1>4. media' \in [Lbas -> Content] /\ media'[0] = media[0]
    BY <1>2, <1>3, WriteDataIsSound
  <1> QED
    BY <1>1, <1>4, Attached, HandleCallKeepsIInv

LEMMA WriteTemporaryKeepsIInv ==
    ASSUME IInv, NEW lba \in Lbas, WriteTemporary(lba)
    PROVE  IInv'
  <1> USE DEF WriteTemporary
  <1>1. media' \in [Lbas -> Content] /\ media'[0] = media[0]
    <2>1. media \in [Lbas -> Content] /\ TempLba \in Content
      BY DEF IInv, TypeOK, Content, TempLba
    <2>2. 0 \in Lbas /\ lba # 0
      BY Attached, SizesAssumption DEF Lbas, GlobalMetadata
    <2> QED
      BY <2>1, <2>2 DEF Overwrite
  <1> QED
    BY <1>1, Attached, HandleCallKeepsIInv

LEMMA TruncateKeepsIInv ==
    ASSUME IInv, NEW n \in Names, NEW type \in FileTypes, NEW size \in Nat, Truncate(n, type, size)
    PROVE  IInv'
  <1>1. /\ attached /\ Idle /\ n \in DOMAIN active_dbs
        /\ UNCHANGED <<media, disk, attached, metadata, init, saved>>
    BY DEF Truncate, HasFile
  <1>2. PICK i \in SlotsOf(metadata, n) :
            LET new == FirstLba(metadata.databases[i], type) + size
            IN  new <= EndLba(metadata.databases[i], type) /\ SetLocation(n, type, new)
    BY DEF Truncate
  <1> DEFINE new == FirstLba(metadata.databases[i], type) + size
  <1>3. new \in Nat /\ FirstLba(metadata.databases[i], type) <= new
    BY <1>1, <1>2, Attached, RegionOf
  <1>4. States(active_dbs') /\ Placed(metadata, active_dbs')
    BY <1>1, <1>2, <1>3, Attached, SetLocationPlaced DEF SetLocation
  <1>5. media \in [Lbas -> Content]
    BY DEF IInv, TypeOK
  <1> QED
    BY <1>1, <1>4, <1>5, HandleCallKeepsIInv

LEMMA RemoveWalKeepsIInv ==
    ASSUME IInv, NEW n \in Names, RemoveWal(n)
    PROVE  IInv'
  <1> USE Loading
  <1>1. /\ CanLoad /\ attached' = TRUE /\ metadata' = LoadedMetadata
        /\ UNCHANGED <<media, disk, init, saved>>
    BY DEF RemoveWal
  <1>2. PICK i \in SlotsOf(LoadedMetadata, n) :
            active_dbs' = [LoadedStates EXCEPT
                            ![n].wal_location = LoadedMetadata.databases[i].wal_start]
    BY DEF RemoveWal
  <1>3. States(active_dbs') /\ Placed(LoadedMetadata, active_dbs')
    <2>1. /\ FirstLba(LoadedMetadata.databases[i], "WAL") = LoadedMetadata.databases[i].wal_start
          /\ FirstLba(LoadedMetadata.databases[i], "WAL") \in Nat
          /\ FirstLba(LoadedMetadata.databases[i], "WAL")
                <= EndLba(LoadedMetadata.databases[i], "WAL")
      BY <1>1, RegionOf DEF FirstLba, FileTypes
    <2>2. "WAL" \in FileTypes /\ "WAL" # "DATABASE"
      BY DEF FileTypes
    <2> DEFINE lba == LoadedMetadata.databases[i].wal_start
    <2>3. lba \in Nat /\ FirstLba(LoadedMetadata.databases[i], "WAL") <= lba
      BY <2>1
    <2>4. active_dbs' = [LoadedStates EXCEPT ![n].wal_location = lba]
      BY <1>2
    <2>5. lba <= EndLba(LoadedMetadata.databases[i], "WAL")
      BY <2>1
    <2> HIDE DEF lba
    <2>6. active_dbs' = IF "WAL" = "DATABASE" THEN [LoadedStates EXCEPT ![n].db_location = lba]
                        ELSE [LoadedStates EXCEPT ![n].wal_location = lba]
      BY <2>2, <2>4
    <2> QED
      BY <1>1, <2>2, <2>3, <2>5, <2>6, SetLocationPlaced
  <1> QED
    BY <1>1, <1>3, LoadedKeepsIInv

LEMMA FileSyncKeepsIInv ==
    ASSUME IInv, FileSync
    PROVE  IInv'
  <1>1. attached /\ attached' = TRUE /\ active_dbs' = active_dbs /\ init' = NoInit
    BY Attached DEF FileSync, IInv, TypeOK
  <1>2. CASE WriteMetadata(metadata, active_dbs) /\ saved' = TRUE
    BY <1>1, <1>2, Attached, SaveKeepsIInv
  <1>3. CASE WriteMetadataFails(metadata, active_dbs) /\ UNCHANGED saved
    <2>1. saved => media[0] = MetaLba /\ SameLayout(metadata, disk)
      BY <1>1 DEF IInv, LayoutIsDurable
    <2>2. saved' \in BOOLEAN
      BY <1>3 DEF IInv, TypeOK
    <2> QED
      BY <1>1, <1>3, <2>1, <2>2, Attached, FailedSaveKeepsIInv
  <1> QED
    BY <1>2, <1>3 DEF FileSync

\* Whatever the process leaves behind, a new one starts from the device.
LEMMA ForgetKeepsIInv ==
    ASSUME IInv, Forget, media' \in [Lbas -> Content], disk' \in GlobalMetadata,
           Separate(disk'), Unwritten', TemporarySpace'
    PROVE  IInv'
  <1>1. /\ ~attached' /\ attached' \in BOOLEAN /\ ~init'.running /\ init' = NoInit
        /\ metadata' = Blank /\ saved' \in BOOLEAN
    BY DEF Forget, NoInit
  <1>2. active_dbs' \in [DOMAIN active_dbs' -> Locations] /\ DOMAIN active_dbs' = {}
    BY EmptySeq, LenProperties DEF Forget
  <1>3. TypeOK'
    BY <1>1, <1>2, BlankIsMetadata DEF TypeOK
  <1> QED
    BY <1>1, <1>3, BlankIsMetadata
    DEF IInv, RegionsSeparate, LocationsInRegion, LayoutIsDurable, Building

LEMMA CrashKeepsIInv ==
    ASSUME IInv, Crash
    PROVE  IInv'
  <1>1. /\ Forget /\ ~attached' /\ UNCHANGED disk
        /\ media' = [l \in Lbas |->
                IF media[l].type \in FileTypes /\ SlotsOf(disk, media[l].db) = {} THEN BlankLba
                ELSE media[l]]
    BY DEF Crash, Forget
  <1>2. media' \in [Lbas -> Content]
    BY <1>1 DEF IInv, TypeOK, Content, BlankLba
  <1>3. media'[0] = MetaLba <=> media[0] = MetaLba
    <2>1. 0 \in Lbas /\ BlankLba # MetaLba /\ MetaLba.type \notin FileTypes
      BY SizesAssumption DEF Lbas, BlankLba, MetaLba, FileTypes
    <2> QED
      BY <1>1, <2>1
  <1>4. Unwritten' /\ TemporarySpace'
    BY <1>1, <1>3 DEF IInv, Unwritten, TemporarySpace, TmpStart
  <1> QED
    BY <1>1, <1>2, <1>4, ForgetKeepsIInv DEF IInv, TypeOK, RegionsSeparate

LEMMA RestartKeepsIInv ==
    ASSUME IInv, Restart
    PROVE  IInv'
  <1>1. CASE attached
    <2> DEFINE new == WithLocations(metadata, active_dbs)
    <2>1. /\ disk' = new /\ media' = Overwrite(media, Transfer(0, MetadataLbas), MetaLba)
          /\ Forget /\ ~attached'
      BY <1>1 DEF Restart, Forget
    <2>2. new \in GlobalMetadata /\ Separate(new) /\ new.tmp_start = TmpStart /\ TmpStart >= 1
      BY <1>1, Attached, WithLocationsKeepsLayout DEF SameLayout
    <2> HIDE DEF new
    <2>3. media' \in [Lbas -> Content] /\ media'[0] = MetaLba
      BY <2>1, SizesAssumption DEF Overwrite, Transfer, IInv, TypeOK, Content, MetaLba, Lbas
    <2>4. Unwritten' /\ TemporarySpace'
      BY <2>1, <2>2, <2>3 DEF Unwritten, TemporarySpace, TmpStart
    <2> QED
      BY <2>1, <2>2, <2>3, <2>4, ForgetKeepsIInv
  <1>2. CASE ~attached
    <2>1. Forget /\ ~attached' /\ UNCHANGED <<disk, media>>
      BY <1>2 DEF Restart, Forget
    <2>2. Unwritten' /\ TemporarySpace'
      BY <2>1 DEF IInv, Unwritten, TemporarySpace, TmpStart
    <2> QED
      BY <2>1, <2>2, ForgetKeepsIInv DEF IInv, TypeOK, RegionsSeparate
  <1> QED
    BY <1>1, <1>2

LEMMA InitializeKeepsIInv ==
    ASSUME IInv, NEW n \in Names, InitializeMetadata(n)
    PROVE  IInv'
  <1> DEFINE md == [tmp_start |-> TmpStart, databases |-> <<>>]
  <1>1. /\ ~CanLoad
        /\ init' = [running |-> TRUE, first |-> n, current_lba |-> 1, global |-> md]
        /\ UNCHANGED <<media, disk, attached, metadata, active_dbs, saved>>
    BY DEF InitializeMetadata
  <1>2. md \in GlobalMetadata /\ Separate(md) /\ md.databases = <<>>
    BY TmpStartInDevice DEF GlobalMetadata, Separate
  <1>3. /\ init'.running /\ init'.first = n /\ init'.current_lba = 1
        /\ init'.global = md /\ md.tmp_start = TmpStart
        /\ init' \in [running : {TRUE}, first : Names, current_lba : Nat, global : GlobalMetadata]
    BY <1>1, <1>2
  <1> HIDE DEF md
  <1>4. TypeOK'
    BY <1>1, <1>3 DEF IInv, TypeOK
  <1>5. RegionsSeparate'
    BY <1>1, <1>2, <1>3 DEF IInv, RegionsSeparate
  <1>6. Building'
    <2>1. 1 \in 1 .. LbaCount
      BY SizesAssumption
    <2>2. DOMAIN md.databases = {}
      BY <1>2
    <2> QED
      BY <1>1, <1>2, <1>3, <2>1, <2>2 DEF Building, CanLoad
  <1>7. LocationsInRegion' /\ LayoutIsDurable' /\ Unwritten' /\ TemporarySpace'
    BY <1>1 DEF IInv, LocationsInRegion, LayoutIsDurable, Unwritten, TemporarySpace
  <1> QED
    BY <1>4, <1>5, <1>6, <1>7 DEF IInv

\* Calls that throw without a trace.
LEMMA RefusedKeepsIInv ==
    ASSUME IInv, UNCHANGED <<media, disk, attached, metadata, active_dbs, saved>>,
           init' = init \/ init' = NoInit
    PROVE  IInv'
  <1>1. CASE init' = init
    BY <1>1 DEF IInv, TypeOK, RegionsSeparate, LocationsInRegion, LayoutIsDurable, Building,
                Unwritten, TemporarySpace
  <1>2. CASE init' = NoInit
    <2>1. ~init'.running
      BY <1>2 DEF NoInit
    <2> QED
      BY <1>2, <2>1 DEF IInv, TypeOK, RegionsSeparate, LocationsInRegion, LayoutIsDurable, Building,
                Unwritten, TemporarySpace
  <1> QED
    BY <1>1, <1>2

LEMMA NextKeepsIInv == IInv /\ [Next]_vars => IInv'
  <1> SUFFICES ASSUME IInv, [Next]_vars PROVE IInv'
    OBVIOUS
  <1>1. ASSUME NEW n \in Names, NEW type \in PathTypes, OpenExisting(n, type) PROVE IInv'
    BY <1>1, LoadKeepsIInv DEF OpenExisting
  <1>2. ASSUME NEW n \in Names, NEW type \in PathTypes, NEW create \in BOOLEAN,
               OpenMissing(n, type, create)
        PROVE  IInv'
    BY <1>2, LoadKeepsIInv DEF OpenMissing
  <1>3. ASSUME NEW n \in Names, NEW type \in FileTypes, AllocateNewDatabaseRegion(n, type) PROVE IInv'
    BY <1>3, AllocateKeepsIInv
  <1>4. ASSUME NEW n \in Names, NEW type \in FileTypes, AllocationRefused(n, type) PROVE IInv'
    BY <1>4, LoadKeepsIInv DEF AllocationRefused
  <1>5. ASSUME NEW type \in PathTypes, OpenUnattached(type) PROVE IInv'
    BY <1>5, RefusedKeepsIInv DEF OpenUnattached, vars
  <1>6. ASSUME NEW n \in Names, InitializeMetadata(n) PROVE IInv'
    BY <1>6, InitializeKeepsIInv
  <1>7. CASE RegisterDB
    BY <1>7, RegisterKeepsIInv
  <1>8. CASE RegistrationRefused
    BY <1>8, RefusedKeepsIInv DEF RegistrationRefused
  <1>9. CASE PublishMetadata
    BY <1>9, PublishKeepsIInv
  <1>10. ASSUME NEW n \in Names, NEW type \in FileTypes, NEW offset \in 0 .. MaxIoLbas,
                NEW count \in 1 .. MaxIoLbas, Write(n, type, offset, count)
         PROVE  IInv'
    BY <1>10, WriteKeepsIInv
  <1>11. ASSUME NEW n \in Names, NEW type \in FileTypes, NEW offset \in 0 .. MaxIoLbas,
                NEW count \in 1 .. MaxIoLbas, WriteRefused(n, type, offset, count)
         PROVE  IInv'
    BY <1>11, RefusedKeepsIInv DEF WriteRefused, vars
  <1>12. ASSUME NEW lba \in Lbas, WriteTemporary(lba) PROVE IInv'
    BY <1>12, WriteTemporaryKeepsIInv
  <1>13. ASSUME NEW n \in Names, NEW type \in FileTypes, NEW size \in 0 .. MaxIoLbas,
                Truncate(n, type, size)
         PROVE  IInv'
    BY <1>13, TruncateKeepsIInv
  <1>14. CASE FileSync
    BY <1>14, FileSyncKeepsIInv
  <1>15. ASSUME NEW n \in Names, RemoveWal(n) PROVE IInv'
    BY <1>15, RemoveWalKeepsIInv
  <1>16. CASE LoadMetadata
    BY <1>16, LoadKeepsIInv DEF LoadMetadata
  <1>17. CASE Restart
    BY <1>17, RestartKeepsIInv
  <1>18. CASE Crash
    BY <1>18, CrashKeepsIInv
  <1>19. CASE UNCHANGED vars
    BY <1>19, RefusedKeepsIInv DEF vars
  <1>20. CASE LoadFails
    BY <1>20, RefusedKeepsIInv DEF LoadFails, vars
  <1>21. ASSUME NEW n \in Names, NEW type \in FileTypes, NEW offset \in 0 .. MaxIoLbas,
                NEW count \in 1 .. MaxIoLbas, WriteFails(n, type, offset, count)
         PROVE  IInv'
    BY <1>21, WriteFailsKeepsIInv
  <1> QED
    BY <1>1, <1>2, <1>3, <1>4, <1>5, <1>6, <1>7, <1>8, <1>9, <1>10, <1>11, <1>12, <1>13, <1>14,
       <1>15, <1>16, <1>17, <1>18, <1>19, <1>20, <1>21
    DEF Next, OpenFile, HandleCall

LEMMA Invariance == Spec => []IInv
  <1> QED
    BY InitImpliesIInv, NextKeepsIInv, PTL DEF Spec

-----------------------------------------------------------------------------
\* Every variable keeps its type: no call stores a location or a region
\* that the structs of nvmefs.hpp could not hold.
THEOREM TypeCorrect == Spec => []TypeOK
  BY Invariance, PTL DEF IInv

\* On every device and with every configuration the regions on the device, in
\* memory and under construction are separate, in order, below tmp_start, and
\* no two carry the same name.
THEOREM LayoutIsSound == Spec => []RegionsSeparate
  BY Invariance, PTL DEF IInv

\* The size of every file is at least zero and at most its region's, through
\* writes, truncations, removals, crashes and reloads.
THEOREM LocationsAreSound == Spec => []LocationsInRegion
  BY Invariance, PTL DEF IInv

\* What a crash leaves of the layout in use: all of it, if no metadata write of a
\* new region has failed since the last that has not (nvmefs.cpp:129 and :572 throw
\* with the region in use), and else all but regions at its end, never another
\* layout.
THEOREM LayoutSurvives == Spec => []LayoutIsDurable
  BY Invariance, PTL DEF IInv

-----------------------------------------------------------------------------
(* The layout on the device only grows.                                    *)

LEMMA LayoutGrows ==
    ASSUME IInv, [Next]_vars
    PROVE  Extends(disk, disk')
  <1>1. CASE UNCHANGED disk
    BY <1>1, ExtendsItself
  <1>2. ASSUME NEW md \in GlobalMetadata, NEW states, Separate(md), States(states),
               Placed(md, states), Extends(disk, md), disk' = WithLocations(md, states)
        PROVE  Extends(disk, disk')
    BY <1>2, WithLocationsKeepsLayout, SameLayoutExtends
  <1>3. ASSUME NEW n \in Names, NEW type \in FileTypes, AllocateNewDatabaseRegion(n, type)
        PROVE  Extends(disk, disk')
    <2>1. PICK r, new, states : Allocated(n, r, new, states)
      BY <1>3, AllocatedIsSound
    <2>2. Extends(disk, new)
      BY <1>3, <2>1, AllocatedExtends, Loading DEF AllocateNewDatabaseRegion
    <2>3. UNCHANGED disk \/ disk' = WithLocations(new, states)
      BY <2>1 DEF Allocated, SaveNewLayout, WriteMetadata, WriteMetadataFails
    <2> QED
      BY <1>1, <1>2, <2>1, <2>2, <2>3 DEF Allocated
  <1>4. CASE PublishMetadata
    <2>1. disk = Blank /\ DOMAIN disk.databases = {}
      BY <1>4, PublishedIsSound DEF Blank
    <2> QED
      BY <2>1 DEF Extends
  <1>5. CASE attached /\ disk' = WithLocations(metadata, active_dbs)
    BY <1>2, <1>5, Attached
  <1>6. CASE OpenFile
    <2>1. (\E n \in Names, type \in FileTypes : AllocateNewDatabaseRegion(n, type))
          \/ PublishMetadata \/ UNCHANGED disk
      BY <1>6 DEF OpenFile, OpenExisting, OpenMissing, AllocationRefused, OpenUnattached, LoadFails,
                  InitializeMetadata, RegisterDB, RegistrationRefused, Load, vars
    <2> QED
      BY <1>1, <1>3, <1>4, <2>1
  <1>7. CASE HandleCall
    <2>1. ASSUME NEW n, NEW type, NEW offset, NEW count,
                 Write(n, type, offset, count) \/ WriteFails(n, type, offset, count)
                 \/ WriteRefused(n, type, offset, count)
          PROVE  UNCHANGED disk
      BY <2>1 DEF Write, WriteFails, WriteRefused, vars
    <2>2. ASSUME NEW n, NEW type, NEW size, Truncate(n, type, size)
          PROVE  UNCHANGED disk
      BY <2>2 DEF Truncate
    <2>3. ASSUME NEW lba, WriteTemporary(lba)
          PROVE  UNCHANGED disk
      BY <2>3 DEF WriteTemporary
    <2>4. ASSUME FileSync
          PROVE  UNCHANGED disk \/ (attached /\ disk' = WithLocations(metadata, active_dbs))
      BY <2>4 DEF FileSync, WriteMetadata, WriteMetadataFails
    <2>5. UNCHANGED disk \/ (attached /\ disk' = WithLocations(metadata, active_dbs))
      BY <1>7, <2>1, <2>2, <2>3, <2>4 DEF HandleCall
    <2> QED
      BY <1>1, <1>5, <2>5
  <1>8. CASE Restart
    BY <1>1, <1>5, <1>8 DEF Restart
  <1>9. CASE (\E n \in Names : RemoveWal(n)) \/ LoadMetadata \/ Crash \/ UNCHANGED vars
    BY <1>1, <1>9 DEF RemoveWal, LoadMetadata, Load, Crash, vars
  <1> QED
    BY <1>6, <1>7, <1>8, <1>9 DEF Next

\* No region on the device ever moves, shrinks, changes hands or disappears, also
\* when writes of the metadata fail: see the property.
THEOREM LayoutOnlyGrows == Spec => RegionsNeverMove
  <1>1. IInv /\ [Next]_vars => [Extends(disk, disk')]_vars
    BY LayoutGrows
  <1> QED
    BY <1>1, Invariance, PTL DEF Spec, RegionsNeverMove

-----------------------------------------------------------------------------
(* With LBAs of 4 KiB the metadata fits LBA 0, and no file reaches another. *)

\* What is in the temporary space stays there between two processes, also when
\* the device has no metadata yet.
TempInPlace == \A l \in Lbas : media[l].type = "TEMP" => TmpStart <= l

OwnedAt(c, l, md) ==
    /\ c.type = "META" => l < MetadataLbas
    /\ c.type = "TEMP" => md.tmp_start <= l
    /\ c.type \in FileTypes =>
        \E i \in DOMAIN md.databases :
            /\ md.databases[i].db_path = c.db
            /\ FirstLba(md.databases[i], c.type) <= l
            /\ l < EndLba(md.databases[i], c.type)

LEMMA OwnedEverywhere ==
    ASSUME NEW m, NEW md
    PROVE  Owned(m, md) <=> \A l \in Lbas : OwnedAt(m[l], l, md)
  BY DEF Owned, OwnedAt

LEMMA OwnedExtends ==
    ASSUME NEW m, NEW d, NEW e, Owned(m, d), Extends(d, e), e.tmp_start = d.tmp_start
    PROVE  Owned(m, e)
  <1>1. ASSUME NEW l \in Lbas, m[l].type \in FileTypes
        PROVE  \E i \in DOMAIN e.databases :
                    /\ e.databases[i].db_path = m[l].db
                    /\ FirstLba(e.databases[i], m[l].type) <= l
                    /\ l < EndLba(e.databases[i], m[l].type)
    <2>1. PICK i \in DOMAIN d.databases :
                    /\ d.databases[i].db_path = m[l].db
                    /\ FirstLba(d.databases[i], m[l].type) <= l
                    /\ l < EndLba(d.databases[i], m[l].type)
      BY <1>1 DEF Owned
    <2>2. /\ i \in DOMAIN e.databases
          /\ e.databases[i].db_path = m[l].db
          /\ FirstLba(e.databases[i], m[l].type) = FirstLba(d.databases[i], m[l].type)
          /\ EndLba(e.databases[i], m[l].type) = EndLba(d.databases[i], m[l].type)
      BY <2>1 DEF Extends, FirstLba, EndLba
    <2> QED
      BY <2>1, <2>2
  <1> QED
    BY <1>1 DEF Owned

LEMMA OverwriteOwned ==
    ASSUME NEW m, NEW md, Owned(m, md), NEW lbas, NEW content,
           \A l \in Lbas : l \in lbas => OwnedAt(content, l, md)
    PROVE  Owned(Overwrite(m, lbas, content), md)
  <1> DEFINE new == Overwrite(m, lbas, content)
  <1>1. \A l \in Lbas : new[l] = IF l \in lbas THEN content ELSE m[l]
    BY DEF Overwrite
  <1> HIDE DEF new
  <1>2. \A l \in Lbas : OwnedAt(new[l], l, md)
    BY <1>1, OwnedEverywhere
  <1> QED
    BY <1>2, OwnedEverywhere DEF new

LEMMA OverwriteKeepsTemp ==
    ASSUME TempInPlace, NEW lbas, NEW content, media' = Overwrite(media, lbas, content),
           \A l \in Lbas : l \in lbas /\ content.type = "TEMP" => TmpStart <= l
    PROVE  TempInPlace'
  BY DEF TempInPlace, Overwrite, TmpStart, Lbas

LEMMA MetadataWriteOwned ==
    ASSUME MetadataLbas = 1, NEW m, NEW md, Owned(m, md)
    PROVE  Owned(Overwrite(m, Transfer(0, MetadataLbas), MetaLba), md)
  <1>1. \A l \in Lbas : l \in Transfer(0, MetadataLbas) => OwnedAt(MetaLba, l, md)
    BY DEF Transfer, OwnedAt, MetaLba, FileTypes
  <1> QED
    BY <1>1, OverwriteOwned

\* Ownership as it is kept from step to step.
Ownership == Owned(media, Layout) /\ TempInPlace

LEMMA OwnershipSuffices ==
    ASSUME IInv, Ownership, MetadataLbas = 1
    PROVE  EveryLbaHasItsOwner
  <1>1. disk = Blank \/ media[0] = MetaLba
    BY DEF IInv, Unwritten
  <1>2. \A l \in 0 .. MetadataLbas - 1 : l = 0
    OBVIOUS
  <1> QED
    BY <1>1, <1>2 DEF EveryLbaHasItsOwner, Ownership

LEMMA OwnershipInit ==
    ASSUME Init
    PROVE  Ownership
  BY DEF Init, Ownership, TempInPlace, Owned, BlankLba, FileTypes

LEMMA LayoutIsLoaded == CanLoad => Layout = LoadedMetadata
  BY DEF Layout, LoadedMetadata

\* The device stays as it is and the layout is the one that is, or gets, loaded.
LEMMA LoadedKeepsOwnership ==
    ASSUME Ownership, UNCHANGED media, Layout' = Layout
    PROVE  Ownership'
  BY DEF Ownership, TempInPlace, TmpStart

\* A save, whether it succeeds or not, of a layout the media agrees with.
LEMMA SaveKeepsOwnership ==
    ASSUME MetadataLbas = 1, NEW md \in GlobalMetadata, NEW states, Separate(md), States(states),
           Placed(md, states), Owned(media, md), TempInPlace, attached' = TRUE,
           WriteMetadata(md, states) \/ WriteMetadataFails(md, states)
    PROVE  Ownership'
  <1> DEFINE new == WithLocations(md, states)
  <1>1. SameLayout(md, new)
    BY WithLocationsKeepsLayout
  <1>2. Layout' = new
    BY DEF Layout, WriteMetadata, WriteMetadataFails
  <1> HIDE DEF new
  <1>3. Extends(md, new) /\ new.tmp_start = md.tmp_start
    BY <1>1, SameIsExtended DEF SameLayout
  <1>4. CASE WriteMetadata(md, states)
    <2>1. media' = Overwrite(media, Transfer(0, MetadataLbas), MetaLba)
      BY <1>4 DEF WriteMetadata
    <2>2. Owned(media', md)
      BY <2>1, MetadataWriteOwned
    <2>3. TempInPlace'
      BY <2>1, OverwriteKeepsTemp DEF MetaLba
    <2> QED
      BY <1>2, <1>3, <2>2, <2>3, OwnedExtends DEF Ownership
  <1>5. CASE WriteMetadataFails(md, states)
    <2>1. media' = media
      BY <1>5 DEF WriteMetadataFails
    <2>2. TempInPlace'
      BY <2>1 DEF TempInPlace, TmpStart
    <2> QED
      BY <1>2, <1>3, <2>1, <2>2, OwnedExtends DEF Ownership
  <1> QED
    BY <1>4, <1>5

LEMMA AllocateKeepsOwnership ==
    ASSUME IInv, Ownership, MetadataLbas = 1, NEW n \in Names, NEW type \in FileTypes,
           AllocateNewDatabaseRegion(n, type)
    PROVE  Ownership'
  <1>1. PICK r, new, states : Allocated(n, r, new, states)
    BY AllocatedIsSound
  <1>2. Owned(media, LoadedMetadata) /\ LoadedMetadata \in GlobalMetadata
    BY LayoutIsLoaded, Loading DEF AllocateNewDatabaseRegion, Ownership
  <1>3. Extends(LoadedMetadata, new) /\ new.tmp_start = LoadedMetadata.tmp_start
    BY <1>1, <1>2, AllocatedExtends DEF Allocated
  <1>4. Owned(media, new)
    BY <1>2, <1>3, OwnedExtends
  <1>5. attached' = TRUE /\ (WriteMetadata(new, states) \/ WriteMetadataFails(new, states))
    BY <1>1 DEF AllocateNewDatabaseRegion, Allocated, SaveNewLayout
  <1> QED
    BY <1>1, <1>4, <1>5, SaveKeepsOwnership DEF Allocated, Ownership

LEMMA PublishKeepsOwnership ==
    ASSUME IInv, Ownership, MetadataLbas = 1, PublishMetadata
    PROVE  Ownership'
  <1> DEFINE md == init.global
  <1>1. /\ md \in GlobalMetadata /\ Separate(md) /\ md.tmp_start = TmpStart
        /\ ~attached /\ disk = Blank
    BY PublishedIsSound
  <1>2. States(StatesOf(md.databases)) /\ Placed(md, StatesOf(md.databases))
    BY <1>1, StatesOfPlaced
  <1>3. attached' = TRUE /\ (WriteMetadata(md, StatesOf(md.databases))
                             \/ WriteMetadataFails(md, StatesOf(md.databases)))
    BY DEF PublishMetadata, SaveNewLayout
  <1> HIDE DEF md
  <1>4. Owned(media, md)
    <2>1. Owned(media, Blank) /\ DOMAIN Blank.databases = {}
      BY <1>1 DEF Ownership, Layout, Blank
    <2>2. \A l \in Lbas : media[l].type \notin FileTypes
      BY <2>1 DEF Owned
    <2>3. \A l \in Lbas : media[l].type = "META" => l < MetadataLbas
      BY <2>1 DEF Owned
    <2> QED
      BY <1>1, <2>2, <2>3 DEF Owned, Ownership, TempInPlace
  <1> QED
    BY <1>1, <1>2, <1>3, <1>4, SaveKeepsOwnership DEF Ownership

\* Data in the range of its own file.
LEMMA WriteDataKeepsOwnership ==
    ASSUME IInv, Ownership, attached, NEW n \in Names, NEW type \in FileTypes, NEW offset \in Nat,
           NEW count \in Nat \ {0}, NEW i \in SlotsOf(metadata, n),
           IsLBAInRange(metadata.databases[i], type,
                        FirstLba(metadata.databases[i], type) + offset, count),
           WriteData(n, type, FirstLba(metadata.databases[i], type) + offset, count),
           UNCHANGED <<attached, metadata>>
    PROVE  Ownership'
  <1> DEFINE r == metadata.databases[i]
             start == FirstLba(r, type) + offset
  <1>1. /\ start \in Nat \ {0} /\ FirstLba(r, type) \in Nat /\ EndLba(r, type) \in Nat
        /\ FirstLba(r, type) <= start /\ start + count <= EndLba(r, type)
    BY WriteInRegion
  <1>2. i \in DOMAIN metadata.databases /\ r.db_path = n
    BY DEF SlotsOf
  <1> HIDE DEF start
  <1>3. PICK lbas \in SUBSET Transfer(start, count) :
            media' = Overwrite(media, lbas, FileLba(type, n))
    BY DEF WriteData, start
  <1>4. /\ FileLba(type, n).type = type /\ FileLba(type, n).db = n
        /\ type # "META" /\ type # "TEMP"
    BY DEF FileLba, FileTypes
  <1>5. \A l \in Lbas : l \in lbas => FirstLba(r, type) <= l /\ l < EndLba(r, type)
    BY <1>1, <1>3 DEF Transfer, Lbas
  <1>6. \A l \in Lbas : l \in lbas => OwnedAt(FileLba(type, n), l, metadata)
    BY <1>2, <1>4, <1>5 DEF OwnedAt
  <1>7. Layout' = metadata /\ Layout = metadata
    BY DEF Layout
  <1>8. Owned(media', metadata)
    BY <1>3, <1>6, <1>7, OverwriteOwned DEF Ownership
  <1>9. TempInPlace'
    BY <1>3, <1>4, OverwriteKeepsTemp DEF Ownership
  <1> QED
    BY <1>7, <1>8, <1>9 DEF Ownership

LEMMA WriteTemporaryKeepsOwnership ==
    ASSUME IInv, Ownership, NEW lba \in Lbas, WriteTemporary(lba)
    PROVE  Ownership'
  <1>1. /\ attached /\ metadata.tmp_start <= lba /\ UNCHANGED <<attached, metadata>>
        /\ media' = Overwrite(media, {lba}, TempLba)
    BY DEF WriteTemporary
  <1>2. Layout' = metadata /\ Layout = metadata
    BY <1>1 DEF Layout
  <1>3. \A l \in Lbas : l \in {lba} => OwnedAt(TempLba, l, metadata) /\ TmpStart <= l
    BY <1>1, Attached DEF OwnedAt, TempLba, FileTypes
  <1>4. Owned(media', metadata)
    BY <1>1, <1>2, <1>3, OverwriteOwned DEF Ownership
  <1>5. TempInPlace'
    BY <1>1, <1>3, OverwriteKeepsTemp DEF Ownership
  <1> QED
    BY <1>2, <1>4, <1>5 DEF Ownership

LEMMA FileSyncKeepsOwnership ==
    ASSUME IInv, Ownership, MetadataLbas = 1, FileSync
    PROVE  Ownership'
  <1>1. /\ attached /\ attached' = TRUE
        /\ WriteMetadata(metadata, active_dbs) \/ WriteMetadataFails(metadata, active_dbs)
    BY DEF FileSync
  <1>2. Owned(media, metadata)
    BY <1>1 DEF Ownership, Layout
  <1> QED
    BY <1>1, <1>2, Attached, SaveKeepsOwnership DEF Ownership

LEMMA RestartKeepsOwnership ==
    ASSUME IInv, Ownership, MetadataLbas = 1, Restart
    PROVE  Ownership'
  <1>1. CASE attached
    <2> DEFINE new == WithLocations(metadata, active_dbs)
    <2>1. /\ disk' = new /\ ~attached'
          /\ media' = Overwrite(media, Transfer(0, MetadataLbas), MetaLba)
      BY <1>1 DEF Restart, Forget
    <2>2. SameLayout(metadata, new)
      BY <1>1, Attached, WithLocationsKeepsLayout
    <2> HIDE DEF new
    <2>3. Extends(metadata, new) /\ new.tmp_start = metadata.tmp_start
      BY <2>2, SameIsExtended DEF SameLayout
    <2>4. Owned(media', metadata)
      BY <1>1, <2>1, MetadataWriteOwned DEF Ownership, Layout
    <2>5. TempInPlace'
      BY <2>1, OverwriteKeepsTemp DEF Ownership, MetaLba
    <2>6. Layout' = new
      BY <2>1 DEF Layout
    <2> QED
      BY <2>3, <2>4, <2>5, <2>6, OwnedExtends DEF Ownership
  <1>2. CASE ~attached
    <2>1. UNCHANGED media /\ Layout' = Layout
      BY <1>2 DEF Restart, Forget, Layout
    <2> QED
      BY <2>1, LoadedKeepsOwnership
  <1> QED
    BY <1>1, <1>2

\* What is left after a crash lies in regions of the device, which have been in
\* the layout in use, under the same names, in the same place.
LEMMA CrashKeepsOwnership ==
    ASSUME IInv, Ownership, Crash
    PROVE  Ownership'
  <1>1. /\ Layout' = disk
        /\ media' = [l \in Lbas |->
                IF media[l].type \in FileTypes /\ SlotsOf(disk, media[l].db) = {} THEN BlankLba
                ELSE media[l]]
    BY DEF Crash, Forget, Layout
  <1>2. Extends(disk, Layout)
    BY MemoryExtendsDisk, ExtendsItself DEF Layout
  <1>3. disk \in GlobalMetadata /\ Layout \in GlobalMetadata /\ Separate(Layout)
    BY DEF IInv, TypeOK, RegionsSeparate, Layout
  <1>4. disk.tmp_start = 0 \/ disk.tmp_start = TmpStart
    BY DEF IInv, Unwritten, TemporarySpace, Blank
  <1>5. BlankLba.type \notin FileTypes \cup {"META", "TEMP"}
    BY DEF BlankLba, FileTypes
  <1>6. ASSUME NEW l \in Lbas PROVE OwnedAt(media'[l], l, disk)
    <2>1. CASE media'[l] = BlankLba
      BY <1>5, <2>1 DEF OwnedAt
    <2>2. CASE media'[l] = media[l] /\ media[l].type \notin FileTypes
      <3>1. media[l].type = "TEMP" => disk.tmp_start <= l
        BY <1>4 DEF Ownership, TempInPlace, Lbas
      <3>2. media[l].type = "META" => l < MetadataLbas
        BY DEF Ownership, Owned
      <3> QED
        BY <2>2, <3>1, <3>2 DEF OwnedAt
    <2>3. CASE /\ media'[l] = media[l] /\ media[l].type \in FileTypes
               /\ SlotsOf(disk, media[l].db) # {}
      <3>1. PICK i \in DOMAIN disk.databases : disk.databases[i].db_path = media[l].db
        BY <2>3 DEF SlotsOf
      <3>2. PICK j \in DOMAIN Layout.databases :
                /\ Layout.databases[j].db_path = media[l].db
                /\ FirstLba(Layout.databases[j], media[l].type) <= l
                /\ l < EndLba(Layout.databases[j], media[l].type)
        BY <2>3 DEF Ownership, Owned
      <3>3. i \in DOMAIN Layout.databases /\ Layout.databases[i].db_path = media[l].db
        BY <1>2, <3>1 DEF Extends
      <3>4. i = j
        <4>1. DOMAIN Layout.databases = 1 .. Len(Layout.databases) /\ Len(Layout.databases) \in Nat
          BY <1>3 DEF GlobalMetadata
        <4> QED
          BY <1>3, <3>2, <3>3, <4>1 DEF Separate
      <3>5. /\ FirstLba(disk.databases[i], media[l].type) <= l
            /\ l < EndLba(disk.databases[i], media[l].type)
        BY <1>2, <3>1, <3>2, <3>4 DEF Extends, FirstLba, EndLba
      <3>6. media[l].type # "META" /\ media[l].type # "TEMP"
        BY <2>3 DEF FileTypes
      <3> QED
        BY <2>3, <3>1, <3>5, <3>6 DEF OwnedAt
    <2> QED
      BY <1>1, <2>1, <2>2, <2>3
  <1>7. Owned(media', disk)
    BY <1>6, OwnedEverywhere
  <1>8. TempInPlace'
    BY <1>1, <1>5 DEF Ownership, TempInPlace, TmpStart
  <1> QED
    BY <1>1, <1>7, <1>8 DEF Ownership

LEMMA OwnershipStep ==
    ASSUME IInv, Ownership, MetadataLbas = 1, [Next]_vars
    PROVE  Ownership'
  <1>1. ASSUME CanLoad, UNCHANGED media, attached' = TRUE, metadata' = LoadedMetadata
        PROVE  Ownership'
    <2>1. Layout' = Layout
      BY <1>1, LayoutIsLoaded DEF Layout
    <2> QED
      BY <1>1, <2>1, LoadedKeepsOwnership
  <1>2. ASSUME UNCHANGED <<media, disk, attached, metadata>>
        PROVE  Ownership'
    <2>1. Layout' = Layout
      BY <1>2 DEF Layout
    <2> QED
      BY <1>2, <2>1, LoadedKeepsOwnership
  <1>3. ASSUME Load PROVE Ownership'
    BY <1>1, <1>3 DEF Load
  <1>4. CASE OpenFile
    <2>1. \/ \E n \in Names, type \in FileTypes : AllocateNewDatabaseRegion(n, type)
          \/ PublishMetadata \/ Load \/ UNCHANGED <<media, disk, attached, metadata>>
      BY <1>4 DEF OpenFile, OpenExisting, OpenMissing, AllocationRefused, OpenUnattached, LoadFails,
                  InitializeMetadata, RegisterDB, RegistrationRefused, vars
    <2> QED
      BY <1>2, <1>3, <2>1, AllocateKeepsOwnership, PublishKeepsOwnership
  <1>5. CASE HandleCall
    <2>1. ASSUME NEW n \in Names, NEW type \in FileTypes, NEW offset \in 0 .. MaxIoLbas,
                 NEW count \in 1 .. MaxIoLbas,
                 Write(n, type, offset, count) \/ WriteFails(n, type, offset, count)
          PROVE  Ownership'
      <3>1. attached /\ UNCHANGED <<attached, metadata>>
        BY <2>1 DEF Write, WriteFails, HasFile
      <3>2. PICK i \in SlotsOf(metadata, n) :
                LET r == metadata.databases[i]
                    start == FirstLba(r, type) + offset
                IN  IsLBAInRange(r, type, start, count) /\ WriteData(n, type, start, count)
        BY <2>1 DEF Write, WriteFails
      <3>3. offset \in Nat /\ count \in Nat \ {0}
        BY SizesAssumption
      <3> QED
        BY <3>1, <3>2, <3>3, WriteDataKeepsOwnership
    <2>2. ASSUME NEW n \in Names, NEW type \in FileTypes, NEW offset \in 0 .. MaxIoLbas,
                 NEW count \in 1 .. MaxIoLbas, WriteRefused(n, type, offset, count)
          PROVE  Ownership'
      BY <1>2, <2>2 DEF WriteRefused, vars
    <2>3. ASSUME NEW n \in Names, NEW type \in FileTypes, NEW size \in 0 .. MaxIoLbas,
                 Truncate(n, type, size)
          PROVE  Ownership'
      BY <1>2, <2>3 DEF Truncate
    <2> QED
      BY <1>5, <2>1, <2>2, <2>3, WriteTemporaryKeepsOwnership, FileSyncKeepsOwnership DEF HandleCall
  <1>6. ASSUME NEW n \in Names, RemoveWal(n) PROVE Ownership'
    BY <1>1, <1>6 DEF RemoveWal
  <1>7. CASE LoadMetadata
    BY <1>3, <1>7 DEF LoadMetadata
  <1>8. CASE UNCHANGED vars
    BY <1>2, <1>8 DEF vars
  <1> QED
    BY <1>4, <1>5, <1>6, <1>7, <1>8, RestartKeepsOwnership, CrashKeepsOwnership DEF Next

\* Isolation, the property the regions are for: whatever the calls, whichever
\* commands fail and wherever the process dies, no LBA of a region ever holds data
\* of another file, of the temporary space or of the metadata.
THEOREM FilesAreIsolated ==
    ASSUME MetadataLbas = 1
    PROVE  Spec => []EveryLbaHasItsOwner
  <1>1. Init => Ownership
    BY OwnershipInit
  <1>2. IInv /\ Ownership /\ [Next]_vars => Ownership'
    BY OwnershipStep
  <1>3. IInv /\ Ownership => EveryLbaHasItsOwner
    BY OwnershipSuffices
  <1> QED
    BY <1>1, <1>2, <1>3, Invariance, PTL DEF Spec

-----------------------------------------------------------------------------
(* Without db_configs no device can ever be initialised.                   *)

NothingOpened ==
    /\ media[0] # MetaLba
    /\ ~attached
    /\ init.running => init.global.databases = <<>> /\ init.first \in Names

\* Whatever the sizes of the device and of the configuration, a file system
\* without db_configs never gets its metadata: the one registration of
\* InitializeMetadata is given all LBAs up to tmp_start and refused for it.
THEOREM WithoutConfigNothingOpens ==
    ASSUME ConfigOrder = <<>>
    PROVE  Spec => []~attached
  <1>1. Init => NothingOpened
    BY SizesAssumption DEF Init, NothingOpened, Lbas, BlankLba, MetaLba, NoInit
  <1>2. ASSUME IInv, NothingOpened, [Next]_vars PROVE NothingOpened'
    <2> USE DEF NothingOpened
    <2>1. ~CanLoad
      BY <1>2 DEF CanLoad
    <2>2. ASSUME init.running
          PROVE  /\ NextRegistration = 1 /\ NrRegistrations(init.first) = 1
                 /\ RegistrationEnd = init.global.tmp_start
                 /\ init.global.tmp_start \in Nat
      <3>1. init.current_lba = 1 /\ init.global.tmp_start = TmpStart
        BY <1>2, <2>2 DEF IInv, Building
      <3>2. NextRegistration = 1 /\ Len(ConfigOrder) = 0
        BY <1>2, <2>2 DEF NextRegistration
      <3> QED
        BY <1>2, <2>2, <3>1, <3>2, WithoutConfig, TmpStartInDevice DEF RegistrationEnd, NrRegistrations
    <2>3. ~RegisterDB /\ ~PublishMetadata
      BY <2>2 DEF RegisterDB, PublishMetadata
    <2>4. CASE \E n \in Names : InitializeMetadata(n)
      <3>1. PICK n \in Names : InitializeMetadata(n)
        BY <2>4
      <3>2. /\ init'.global.databases = <<>> /\ init'.first = n
            /\ media' = media /\ attached' = attached
        BY <3>1 DEF InitializeMetadata
      <3> QED
        BY <1>2, <3>2
    <2>5. CASE RegistrationRefused
      <3>1. ~init'.running /\ media' = media /\ attached' = attached
        BY <2>5 DEF RegistrationRefused, NoInit
      <3> QED
        BY <1>2, <3>1
    <2>6. CASE Restart \/ Crash
      <3>1. 0 \in Lbas /\ BlankLba # MetaLba
        BY SizesAssumption DEF Lbas, BlankLba, MetaLba
      <3> QED
        BY <1>2, <2>6, <3>1 DEF Restart, Crash, Forget, NoInit
    <2>7. CASE UNCHANGED vars
      BY <1>2, <2>7 DEF vars
    <2>8. ~OpenFile \/ (\E n \in Names : InitializeMetadata(n))
          \/ RegistrationRefused \/ UNCHANGED vars
      BY <2>1, <2>3 DEF OpenFile, OpenExisting, OpenMissing, AllocateNewDatabaseRegion,
                        AllocationRefused, Load, OpenUnattached, LoadFails
    <2>9. ~HandleCall
      <3>1. \A n : ~HasFile(n)
        BY <1>2 DEF HasFile
      <3>2. \A n, type, offset, count :
                /\ ~Write(n, type, offset, count) /\ ~WriteFails(n, type, offset, count)
                /\ ~WriteRefused(n, type, offset, count)
        BY <3>1 DEF Write, WriteFails, WriteRefused
      <3>3. \A n, type, size : ~Truncate(n, type, size)
        BY <3>1 DEF Truncate
      <3>4. (\A lba : ~WriteTemporary(lba)) /\ ~FileSync
        BY <1>2 DEF WriteTemporary, FileSync
      <3> QED
        BY <3>2, <3>3, <3>4 DEF HandleCall
    <2>10. ~(\E n \in Names : RemoveWal(n)) /\ ~LoadMetadata
      BY <2>1 DEF RemoveWal, LoadMetadata, Load
    <2> QED
      BY <1>2, <2>4, <2>5, <2>6, <2>7, <2>8, <2>9, <2>10 DEF Next
  <1> QED
    BY <1>1, <1>2, Invariance, PTL DEF Spec, NothingOpened

-----------------------------------------------------------------------------
(* The refinement of DurableFiles.                                         *)

Now == IF attached THEN SizesIn(metadata, active_dbs) ELSE DurableSizes

\* The sizes of the two files of region r, at the locations of a runtime state.
FileSizes(r, state) ==
    [type \in FileTypes |->
        IF type = "DATABASE" THEN state.db_location - r.db_start
        ELSE state.wal_location - r.wal_start]

Databases(md) == {md.databases[i].db_path : i \in DOMAIN md.databases}

LEMMA NowIsLoaded == Now = SizesIn(LoadedMetadata, LoadedStates)
  BY DEF Now, LoadedMetadata, LoadedStates, DurableSizes

LEMMA NowIsUnchanged ==
    ASSUME LoadedMetadata' = LoadedMetadata, LoadedStates' = LoadedStates, UNCHANGED disk
    PROVE  Now' = Now /\ DurableSizes' = DurableSizes
  <1>1. Now' = SizesIn(LoadedMetadata', LoadedStates')
    BY DEF Now, LoadedMetadata, LoadedStates, DurableSizes
  <1> QED
    BY <1>1, NowIsLoaded DEF DurableSizes

\* The sizes of a layout whose names differ, slot by slot.
LEMMA SizesBySlot ==
    ASSUME NEW md \in GlobalMetadata, Separate(md), NEW states
    PROVE  /\ DOMAIN SizesIn(md, states) = Databases(md)
           /\ SizesIn(md, states) = [n \in Databases(md) |-> SizesIn(md, states)[n]]
           /\ \A i \in DOMAIN md.databases :
                SizesIn(md, states)[md.databases[i].db_path] =
                    FileSizes(md.databases[i], states[md.databases[i].db_path])
  <1> DEFINE dbs == md.databases
             region(n) == CHOOSE q \in Range(dbs) : q.db_path = n
  <1>1. /\ DOMAIN dbs = 1 .. Len(dbs) /\ Len(dbs) \in Nat
        /\ Range(dbs) = {dbs[i] : i \in DOMAIN dbs}
    BY DEF GlobalMetadata, Range
  <1>2. \A i, j \in DOMAIN dbs : dbs[i].db_path = dbs[j].db_path => i = j
    BY <1>1 DEF Separate
  <1>3. \A i \in DOMAIN dbs : region(dbs[i].db_path) = dbs[i]
    BY <1>1, <1>2
  <1>4. SizesIn(md, states) = [n \in Databases(md) |-> FileSizes(region(n), states[n])]
    BY DEF SizesIn, Databases, FileSizes
  <1> HIDE DEF region
  <1> QED
    BY <1>3, <1>4 DEF Databases

LEMMA SizeAt ==
    ASSUME NEW md \in GlobalMetadata, Separate(md), NEW states, NEW i \in DOMAIN md.databases
    PROVE  SizesIn(md, states)[md.databases[i].db_path]
                = FileSizes(md.databases[i], states[md.databases[i].db_path])
  BY SizesBySlot

\* Layouts that agree on where files begin and states that agree on how far they
\* reach give the same sizes.
LEMMA SameSizes ==
    ASSUME NEW a \in GlobalMetadata, NEW b \in GlobalMetadata, Separate(a), Separate(b),
           SameLayout(a, b), NEW s, NEW t,
           \A i \in DOMAIN a.databases :
                /\ s[a.databases[i].db_path].db_location = t[a.databases[i].db_path].db_location
                /\ s[a.databases[i].db_path].wal_location = t[a.databases[i].db_path].wal_location
    PROVE  SizesIn(a, s) = SizesIn(b, t)
  <1>1. Databases(a) = Databases(b)
    BY DEF Databases, SameLayout
  <1>2. ASSUME NEW n \in Databases(a)
        PROVE  SizesIn(a, s)[n] = SizesIn(b, t)[n]
    <2>1. PICK i \in DOMAIN a.databases : n = a.databases[i].db_path
      BY DEF Databases
    <2>2. i \in DOMAIN b.databases /\ n = b.databases[i].db_path
      BY <2>1 DEF SameLayout
    <2>3. /\ SizesIn(a, s)[n] = FileSizes(a.databases[i], s[n])
          /\ SizesIn(b, t)[n] = FileSizes(b.databases[i], t[n])
      <3>1. /\ SizesIn(a, s)[a.databases[i].db_path]
                    = FileSizes(a.databases[i], s[a.databases[i].db_path])
            /\ SizesIn(b, t)[b.databases[i].db_path]
                    = FileSizes(b.databases[i], t[b.databases[i].db_path])
        BY <2>2, SizeAt
      <3> QED
        BY <2>1, <2>2, <3>1
    <2>4. FileSizes(a.databases[i], s[n]) = FileSizes(b.databases[i], t[n])
      BY <2>1 DEF FileSizes, SameLayout
    <2> QED
      BY <2>3, <2>4
  <1>3. /\ SizesIn(a, s) = [n \in Databases(a) |-> SizesIn(a, s)[n]]
        /\ SizesIn(b, t) = [n \in Databases(b) |-> SizesIn(b, t)[n]]
    BY SizesBySlot
  <1> QED
    BY <1>1, <1>2, <1>3

\* What a load reads back is what a save has found in memory.
LEMMA SavedSizes ==
    ASSUME NEW md \in GlobalMetadata, NEW states, States(states), Separate(md), Placed(md, states)
    PROVE  LET new == WithLocations(md, states)
           IN  /\ SizesIn(new, states) = SizesIn(md, states)
               /\ SizesIn(new, StatesOf(new.databases)) = SizesIn(md, states)
  <1> DEFINE new == WithLocations(md, states)
  <1>1. new \in GlobalMetadata /\ Separate(new) /\ SameLayout(md, new)
    BY WithLocationsKeepsLayout
  <1>2. ASSUME NEW i \in DOMAIN md.databases
        PROVE  /\ new.databases[i].db_location = states[md.databases[i].db_path].db_location
               /\ new.databases[i].wal_location = states[md.databases[i].db_path].wal_location
    <2>1. md.databases[i] \in Region /\ md.databases[i].db_path \in DOMAIN states
      BY DEF GlobalMetadata, Placed
    <2>2. new.databases[i] = WithLocation(md.databases[i], states)
      BY DEF WithLocations, GlobalMetadata
    <2> HIDE DEF new
    <2> QED
      BY <2>1, <2>2 DEF WithLocation, Region
  <1> HIDE DEF new
  <1>3. ASSUME NEW i \in DOMAIN new.databases
        PROVE  StatesOf(new.databases)[new.databases[i].db_path] =
                    [db_location |-> new.databases[i].db_location,
                     wal_location |-> new.databases[i].wal_location]
    BY <1>1, StatesOfSlot
  <1>4. SizesIn(md, states) = SizesIn(new, states)
    BY <1>1, SameSizes
  <1>5. ASSUME NEW i \in DOMAIN md.databases
        PROVE  LET n == md.databases[i].db_path
               IN  /\ states[n].db_location = StatesOf(new.databases)[n].db_location
                   /\ states[n].wal_location = StatesOf(new.databases)[n].wal_location
    <2>1. i \in DOMAIN new.databases /\ md.databases[i].db_path = new.databases[i].db_path
      BY <1>1 DEF SameLayout
    <2>2. StatesOf(new.databases)[md.databases[i].db_path] =
                [db_location |-> new.databases[i].db_location,
                 wal_location |-> new.databases[i].wal_location]
      BY <1>3, <2>1
    <2> QED
      BY <1>2, <2>2
  <1>6. SizesIn(md, states) = SizesIn(new, StatesOf(new.databases))
    BY <1>1, <1>5, SameSizes
  <1> QED
    BY <1>4, <1>6 DEF new

\* One location moves: one size changes.
Moved(states, n, type, lba) ==
    IF type = "DATABASE" THEN [states EXCEPT ![n].db_location = lba]
    ELSE [states EXCEPT ![n].wal_location = lba]

Resized(sizes, n, type, size) == [sizes EXCEPT ![n][type] = size]

LEMMA OneSizeChanges ==
    ASSUME NEW md \in GlobalMetadata, Separate(md), NEW states, States(states), Placed(md, states),
           NEW n, NEW type \in FileTypes, NEW i \in SlotsOf(md, n), NEW lba
    PROVE  LET sizes == SizesIn(md, Moved(states, n, type, lba))
               size == lba - FirstLba(md.databases[i], type)
           IN  /\ n \in DOMAIN SizesIn(md, states)
               /\ sizes = Resized(SizesIn(md, states), n, type, size)
               /\ sizes[n][type] = size
  <1> DEFINE old == SizesIn(md, states)
             new == Moved(states, n, type, lba)
             size == lba - FirstLba(md.databases[i], type)
  <1>1. i \in DOMAIN md.databases /\ md.databases[i].db_path = n
    BY DEF SlotsOf
  <1>2. n \in DOMAIN states /\ states[n] \in Locations
    BY <1>1 DEF Placed, States
  <1>3. /\ \A m : m # n => new[m] = states[m]
        /\ new[n] = IF type = "DATABASE" THEN [states[n] EXCEPT !.db_location = lba]
                    ELSE [states[n] EXCEPT !.wal_location = lba]
    BY <1>2 DEF Moved
  <1> HIDE DEF new
  <1>4. FileSizes(md.databases[i], new[n]) =
            [FileSizes(md.databases[i], states[n]) EXCEPT ![type] = size]
    BY <1>2, <1>3 DEF FileSizes, FileTypes, Locations, FirstLba
  <1> HIDE DEF size
  <1>5. /\ DOMAIN old = Databases(md) /\ old = [m \in Databases(md) |-> old[m]]
        /\ DOMAIN SizesIn(md, new) = Databases(md)
        /\ SizesIn(md, new) = [m \in Databases(md) |-> SizesIn(md, new)[m]]
        /\ old[n] = FileSizes(md.databases[i], states[n])
        /\ SizesIn(md, new)[n] = FileSizes(md.databases[i], new[n])
        /\ n \in Databases(md)
    <2>1. /\ old[n] = FileSizes(md.databases[i], states[n])
          /\ SizesIn(md, new)[n] = FileSizes(md.databases[i], new[n])
      <3>1. /\ old[md.databases[i].db_path]
                    = FileSizes(md.databases[i], states[md.databases[i].db_path])
            /\ SizesIn(md, new)[md.databases[i].db_path]
                    = FileSizes(md.databases[i], new[md.databases[i].db_path])
        BY <1>1, SizeAt
      <3> QED
        BY <1>1, <3>1
    <2>2. n \in Databases(md)
      BY <1>1 DEF Databases
    <2> QED
      BY <2>1, <2>2, SizesBySlot
  <1>6. ASSUME NEW m \in Databases(md), m # n
        PROVE  SizesIn(md, new)[m] = old[m]
    <2>1. PICK j \in DOMAIN md.databases : m = md.databases[j].db_path
      BY DEF Databases
    <2>2. SizesIn(md, new)[m] = FileSizes(md.databases[j], new[m])
          /\ old[m] = FileSizes(md.databases[j], states[m])
      <3>1. /\ old[md.databases[j].db_path]
                    = FileSizes(md.databases[j], states[md.databases[j].db_path])
            /\ SizesIn(md, new)[md.databases[j].db_path]
                    = FileSizes(md.databases[j], new[md.databases[j].db_path])
        BY SizeAt
      <3> QED
        BY <2>1, <3>1
    <2> QED
      BY <1>3, <1>6, <2>2
  <1>7. SizesIn(md, new)[n][type] = size
    BY <1>4, <1>5 DEF FileSizes
  <1> HIDE DEF old
  <1>8. SizesIn(md, new) = Resized(old, n, type, size)
    BY <1>4, <1>5, <1>6 DEF Resized
  <1> QED
    BY <1>5, <1>7, <1>8 DEF old, new, size

\* The actions of DurableFiles on these sizes.
Saved == DurableSizes' = Now' /\ saved' = TRUE

LEMMA CreateMeans ==
    ASSUME NEW new
    PROVE  Promise!Create(new) <=>
                /\ new # {}
                /\ new \cap DOMAIN Now = {}
                /\ Now' = [n \in DOMAIN Now \cup new |->
                                IF n \in new THEN [type \in FileTypes |-> 0] ELSE Now[n]]
                /\ Saved \/ (saved' = FALSE /\ DurableSizes' = DurableSizes)
  BY DEF Promise!Create, Promise!Empty, Promise!Save, Now, Saved

LEMMA ResizeMeans ==
    ASSUME NEW n, NEW type, NEW size
    PROVE  Promise!Resize(n, type, size) <=>
                /\ n \in DOMAIN Now
                /\ Now' = Resized(Now, n, type, size)
                /\ DurableSizes' = DurableSizes /\ saved' = saved
  BY DEF Promise!Resize, Now, Resized

LEMMA StepMeans ==
    /\ Promise!Sync <=> Now' = Now /\ Saved
    /\ Promise!Crash <=> Now' = DurableSizes /\ saved' = TRUE /\ DurableSizes' = DurableSizes
    /\ UNCHANGED Promise!vars <=> Now' = Now /\ DurableSizes' = DurableSizes /\ saved' = saved
    /\ Promise!Next <=>
            \/ \E new \in SUBSET Names : Promise!Create(new)
            \/ \E n \in DOMAIN Now \cap DOMAIN Now', type \in FileTypes :
                    Promise!Resize(n, type, Now'[n][type])
            \/ Promise!Sync
            \/ Promise!Crash
  BY DEF Promise!Sync, Promise!Save, Promise!Crash, Promise!vars, Promise!Next, Now, Saved

\* A save makes what is in memory durable; one that fails leaves the sizes alone.
LEMMA SaveMakesDurable ==
    ASSUME NEW md \in GlobalMetadata, NEW states, States(states), Separate(md), Placed(md, states),
           attached' = TRUE, active_dbs' = states
    PROVE  /\ WriteMetadata(md, states) =>
                Now' = SizesIn(md, states) /\ DurableSizes' = SizesIn(md, states)
           /\ WriteMetadataFails(md, states) =>
                Now' = SizesIn(md, states) /\ DurableSizes' = DurableSizes
  <1> DEFINE new == WithLocations(md, states)
  <1>1. /\ WriteMetadata(md, states) => metadata' = new /\ disk' = new
        /\ WriteMetadataFails(md, states) => metadata' = new /\ disk' = disk
    BY DEF WriteMetadata, WriteMetadataFails
  <1>2. SizesIn(new, states) = SizesIn(md, states)
        /\ SizesIn(new, StatesOf(new.databases)) = SizesIn(md, states)
    BY SavedSizes
  <1> HIDE DEF new
  <1> QED
    BY <1>1, <1>2 DEF Now, DurableSizes

LEMMA SaveNewLayoutMeans ==
    ASSUME NEW md \in GlobalMetadata, NEW states, States(states), Separate(md), Placed(md, states),
           attached' = TRUE, active_dbs' = states, SaveNewLayout(md, states)
    PROVE  /\ Now' = SizesIn(md, states)
           /\ Saved \/ (saved' = FALSE /\ DurableSizes' = DurableSizes)
  BY SaveMakesDurable DEF SaveNewLayout, Saved

LEMMA LoadLeavesSizes ==
    ASSUME Load
    PROVE  UNCHANGED Promise!vars
  <1>1. LoadedMetadata' = LoadedMetadata /\ LoadedStates' = LoadedStates /\ UNCHANGED <<disk, saved>>
    BY DEF Load, LoadedMetadata, LoadedStates
  <1> QED
    BY <1>1, NowIsUnchanged, StepMeans

LEMMA OthersLeaveSizes ==
    ASSUME UNCHANGED <<disk, attached, metadata, active_dbs, saved>>
    PROVE  UNCHANGED Promise!vars
  BY StepMeans DEF Now, DurableSizes

\* Whatever moves one location inside the metadata that is, or gets, loaded.
LEMMA MovesOneSize ==
    ASSUME IInv, CanLoad, NEW n, NEW type \in FileTypes, NEW lba,
           NEW i \in SlotsOf(LoadedMetadata, n),
           active_dbs' = Moved(LoadedStates, n, type, lba), attached' = TRUE,
           metadata' = LoadedMetadata, UNCHANGED <<disk, saved>>
    PROVE  Promise!Next
  <1> DEFINE size == lba - FirstLba(LoadedMetadata.databases[i], type)
  <1>1. /\ LoadedMetadata \in GlobalMetadata /\ Separate(LoadedMetadata)
        /\ States(LoadedStates) /\ Placed(LoadedMetadata, LoadedStates)
    BY Loading
  <1>3. Now = SizesIn(LoadedMetadata, LoadedStates)
    BY NowIsLoaded
  <1>4. Now' = SizesIn(LoadedMetadata, Moved(LoadedStates, n, type, lba))
    BY DEF Now
  <1>5. /\ n \in DOMAIN SizesIn(LoadedMetadata, LoadedStates)
        /\ Now' = Resized(SizesIn(LoadedMetadata, LoadedStates), n, type, size)
        /\ Now'[n][type] = size
    BY <1>1, <1>4, OneSizeChanges
  <1> HIDE DEF size
  <1>2. n \in DOMAIN Now \cap DOMAIN Now'
    BY <1>3, <1>5 DEF Resized
  <1>6. DurableSizes' = DurableSizes
    BY DEF DurableSizes
  <1>7. Promise!Resize(n, type, Now'[n][type])
    BY <1>3, <1>5, <1>6, ResizeMeans
  <1> QED
    BY <1>2, <1>7, StepMeans

\* What InitializeMetadata lays out is empty.
BuiltEmpty ==
    init.running =>
        \A i \in DOMAIN init.global.databases :
            LET r == init.global.databases[i]
            IN  r.db_location = r.db_start /\ r.wal_location = r.wal_start

LEMMA BuiltEmptyKept ==
    ASSUME IInv, BuiltEmpty, [Next]_vars
    PROVE  BuiltEmpty'
  <1>1. CASE init' = init
    BY <1>1 DEF BuiltEmpty
  <1>2. CASE init' = NoInit
    BY <1>2 DEF BuiltEmpty, NoInit
  <1>3. CASE \E n \in Names : InitializeMetadata(n)
    <2>1. DOMAIN init'.global.databases = {}
      BY <1>3 DEF InitializeMetadata
    <2> QED
      BY <2>1 DEF BuiltEmpty
  <1>4. CASE RegisterDB
    <2>1. PICK n, lbas :
            init' = [init EXCEPT
                !.current_lba = RegistrationEnd,
                !.global.databases = Append(@, NewRegion(n, init.current_lba, lbas))]
      BY <1>4 DEF RegisterDB
    <2> DEFINE r == NewRegion(n, init.current_lba, lbas)
               dbs == init.global.databases
    <2>2. r.db_location = r.db_start /\ r.wal_location = r.wal_start
      BY DEF NewRegion
    <2> HIDE DEF r
    <2>3. init.running /\ init # NoInit
      BY <1>4 DEF RegisterDB, NoInit
    <2>4. init \in [running : {TRUE}, first : Names, current_lba : Nat, global : GlobalMetadata]
      BY <2>3 DEF IInv, TypeOK
    <2>5. dbs \in Seq(Region)
      BY <2>4 DEF GlobalMetadata
    <2>6. init'.global.databases = Append(dbs, r)
      BY <2>1, <2>4 DEF GlobalMetadata, r
    <2>7. \A i \in DOMAIN Append(dbs, r) : Append(dbs, r)[i] = r \/ (i \in DOMAIN dbs /\ Append(dbs, r)[i] = dbs[i])
      BY <2>5
    <2> QED
      BY <2>2, <2>3, <2>6, <2>7 DEF BuiltEmpty
  <1>5. \/ init' = init \/ init' = NoInit
        \/ (\E n \in Names : InitializeMetadata(n)) \/ RegisterDB
    <2>1. CASE OpenFile
      BY <2>1 DEF OpenFile, OpenExisting, OpenMissing, AllocateNewDatabaseRegion,
                  AllocationRefused, OpenUnattached, LoadFails, RegistrationRefused,
                  PublishMetadata, Load, vars
    <2>2. CASE HandleCall
      <3>1. \A n, type, offset, count :
                Write(n, type, offset, count) \/ WriteFails(n, type, offset, count)
                \/ WriteRefused(n, type, offset, count) => init' = init
        BY DEF Write, WriteFails, WriteRefused, vars
      <3>2. \A n, type, size : Truncate(n, type, size) => init' = init
        BY DEF Truncate
      <3>3. (\A lba : WriteTemporary(lba) => init' = init) /\ (FileSync => init' = init)
        BY DEF WriteTemporary, FileSync
      <3> QED
        BY <2>2, <3>1, <3>2, <3>3 DEF HandleCall
    <2>3. CASE (\E n \in Names : RemoveWal(n)) \/ LoadMetadata \/ Restart \/ Crash \/ UNCHANGED vars
      BY <2>3 DEF RemoveWal, LoadMetadata, Load, Restart, Crash, Forget, vars
    <2> QED
      BY <2>1, <2>2, <2>3 DEF Next
  <1> QED
    BY <1>1, <1>2, <1>3, <1>4, <1>5

\* AllocateNewDatabaseRegion creates one database.
LEMMA AllocateCreates ==
    ASSUME IInv, NEW n \in Names, NEW type \in FileTypes, AllocateNewDatabaseRegion(n, type)
    PROVE  Promise!Create({n})
  <1> DEFINE md == LoadedMetadata
             last == Len(md.databases) + 1
  <1>1. PICK r, new, states : Allocated(n, r, new, states)
    BY AllocatedIsSound
  <1>2. /\ md \in GlobalMetadata /\ Separate(md)
        /\ States(LoadedStates) /\ Placed(md, LoadedStates)
    BY Loading DEF AllocateNewDatabaseRegion
  <1>3. Len(md.databases) \in Nat /\ DOMAIN md.databases = 1 .. Len(md.databases)
    BY <1>2 DEF GlobalMetadata
  <1>4. new \in GlobalMetadata /\ Separate(new) /\ States(states) /\ Placed(new, states)
    BY <1>1 DEF Allocated
  <1>5. /\ DOMAIN new.databases = DOMAIN md.databases \cup {last} /\ last \notin DOMAIN md.databases
        /\ new.databases[last] = r /\ r.db_path = n
        /\ \A i \in DOMAIN md.databases :
            new.databases[i] = md.databases[i] /\ new.databases[i].db_path # n
        /\ states[n] = [db_location |-> r.db_start, wal_location |-> r.wal_start]
        /\ \A m \in DOMAIN LoadedStates : m # n => states[m] = LoadedStates[m]
    BY <1>1, <1>3 DEF Allocated
  <1> HIDE DEF last
  <1>6. Now = SizesIn(md, LoadedStates)
    BY NowIsLoaded
  <1> HIDE DEF md
  <1>7. /\ Now' = SizesIn(new, states)
        /\ Saved \/ (saved' = FALSE /\ DurableSizes' = DurableSizes)
    BY <1>1, <1>4, SaveNewLayoutMeans DEF Allocated, AllocateNewDatabaseRegion
  <1>8. DOMAIN Now = Databases(md) /\ DOMAIN Now' = Databases(new)
        /\ Now' = [m \in Databases(new) |-> Now'[m]]
    BY <1>2, <1>4, <1>6, <1>7, SizesBySlot
  <1>9. n \notin Databases(md) /\ Databases(new) = Databases(md) \cup {n}
    <2>1. \A i \in DOMAIN md.databases : new.databases[i].db_path = md.databases[i].db_path
      BY <1>5
    <2> QED
      BY <1>5, <2>1 DEF Databases
  <1>10. Now'[n] = [t \in FileTypes |-> 0]
    <2>1. Now'[new.databases[last].db_path]
            = FileSizes(new.databases[last], states[new.databases[last].db_path])
      BY <1>4, <1>5, <1>7, SizeAt
    <2>2. Now'[n] = FileSizes(r, states[n])
      BY <1>5, <2>1
    <2>3. r \in Region
      BY <1>4, <1>5 DEF GlobalMetadata
    <2> QED
      BY <1>5, <2>2, <2>3 DEF FileSizes, Region
  <1>11. ASSUME NEW m \in Databases(md)
         PROVE  Now'[m] = Now[m]
    <2>1. PICK i \in DOMAIN md.databases : m = md.databases[i].db_path
      BY DEF Databases
    <2>2. /\ Now[md.databases[i].db_path]
                = FileSizes(md.databases[i], LoadedStates[md.databases[i].db_path])
          /\ Now'[new.databases[i].db_path]
                = FileSizes(new.databases[i], states[new.databases[i].db_path])
      BY <1>2, <1>4, <1>5, <1>6, <1>7, SizeAt
    <2>3. m \in DOMAIN LoadedStates /\ m # n
      BY <1>2, <1>5, <2>1 DEF Placed
    <2> QED
      BY <1>5, <2>1, <2>2, <2>3
  <1>12. Now' = [m \in DOMAIN Now \cup {n} |->
                    IF m \in {n} THEN [t \in FileTypes |-> 0] ELSE Now[m]]
    BY <1>8, <1>9, <1>10, <1>11
  <1> QED
    BY <1>7, <1>8, <1>9, <1>12, CreateMeans

\* InitializeMetadata creates the databases it has registered, all at once.
LEMMA PublishCreates ==
    ASSUME IInv, BuiltEmpty, PublishMetadata
    PROVE  Promise!Next
  <1> DEFINE md == init.global
             states == StatesOf(md.databases)
             new == Databases(md)
  <1>1. md \in GlobalMetadata /\ Separate(md) /\ 1 \in DOMAIN md.databases
    BY PublishedIsSound
  <1>2. States(states) /\ Placed(md, states)
    BY <1>1, StatesOfPlaced
  <1>3. /\ Now' = SizesIn(md, states)
        /\ Saved \/ (saved' = FALSE /\ DurableSizes' = DurableSizes)
    BY <1>1, <1>2, SaveNewLayoutMeans DEF PublishMetadata
  <1>4. new # {} /\ new \subseteq Names
    <2>1. \A i \in DOMAIN md.databases : md.databases[i] \in Region
      BY <1>1 DEF GlobalMetadata
    <2>2. \A r \in Region : r.db_path \in Names
      BY DEF Region
    <2> QED
      BY <1>1, <2>1, <2>2 DEF Databases
  <1>5. DOMAIN Now = {}
    <2>1. ~attached /\ disk = Blank
      BY PublishedIsSound
    <2>2. DOMAIN Now = Databases(Blank)
      BY <2>1, BlankIsMetadata, SizesBySlot DEF Now, DurableSizes
    <2> QED
      BY <2>2 DEF Databases, Blank
  <1>6. ASSUME NEW n \in new
        PROVE  Now'[n] = [t \in FileTypes |-> 0]
    <2>1. PICK i \in DOMAIN md.databases : n = md.databases[i].db_path
      BY DEF Databases
    <2>2. Now'[md.databases[i].db_path]
            = FileSizes(md.databases[i], states[md.databases[i].db_path])
      BY <1>1, <1>3, SizeAt
    <2>3. states[md.databases[i].db_path] = [db_location |-> md.databases[i].db_location,
                                             wal_location |-> md.databases[i].wal_location]
      BY <1>1, StatesOfSlot
    <2>4. /\ md.databases[i] \in Region
          /\ md.databases[i].db_location = md.databases[i].db_start
          /\ md.databases[i].wal_location = md.databases[i].wal_start
      BY <1>1 DEF GlobalMetadata, BuiltEmpty, PublishMetadata
    <2> HIDE DEF states, md
    <2>5. FileSizes(md.databases[i], states[md.databases[i].db_path]) = [t \in FileTypes |-> 0]
      BY <2>3, <2>4 DEF FileSizes, Region
    <2> QED
      BY <2>1, <2>2, <2>5
  <1>7. Now' = [n \in new |-> Now'[n]]
    BY <1>1, <1>3, SizesBySlot
  <1> HIDE DEF new
  <1>8. Now' = [n \in DOMAIN Now \cup new |->
                    IF n \in new THEN [t \in FileTypes |-> 0] ELSE Now[n]]
    BY <1>5, <1>6, <1>7
  <1>9. Promise!Create(new)
    BY <1>3, <1>4, <1>5, <1>8, CreateMeans
  <1> QED
    BY <1>4, <1>9, StepMeans

LEMMA WriteResizes ==
    ASSUME IInv, NEW n \in Names, NEW type \in FileTypes, NEW offset \in Nat, NEW count \in Nat \ {0},
           Write(n, type, offset, count)
    PROVE  Promise!Next \/ UNCHANGED Promise!vars
  <1>1. /\ attached /\ attached' = TRUE /\ UNCHANGED <<disk, attached, metadata, saved>> /\ CanLoad
        /\ LoadedMetadata = metadata /\ LoadedStates = active_dbs
    BY DEF Write, HasFile, CanLoad, LoadedMetadata, LoadedStates
  <1>2. PICK i \in SlotsOf(metadata, n) :
            UNCHANGED active_dbs \/ \E lba : active_dbs' = Moved(active_dbs, n, type, lba)
    BY DEF Write, SetLocation, Moved
  <1> QED
    BY <1>1, <1>2, OthersLeaveSizes, MovesOneSize

LEMMA TruncateResizes ==
    ASSUME IInv, NEW n \in Names, NEW type \in FileTypes, NEW size \in Nat, Truncate(n, type, size)
    PROVE  Promise!Next
  <1>1. /\ attached /\ attached' = TRUE /\ UNCHANGED <<disk, attached, metadata, saved>> /\ CanLoad
        /\ LoadedMetadata = metadata /\ LoadedStates = active_dbs
    BY DEF Truncate, HasFile, CanLoad, LoadedMetadata, LoadedStates
  <1>2. PICK i \in SlotsOf(metadata, n) : \E lba : active_dbs' = Moved(active_dbs, n, type, lba)
    BY DEF Truncate, SetLocation, Moved
  <1> QED
    BY <1>1, <1>2, MovesOneSize

LEMMA RemoveWalResizes ==
    ASSUME IInv, NEW n \in Names, RemoveWal(n)
    PROVE  Promise!Next
  <1>1. CanLoad /\ attached' = TRUE /\ metadata' = LoadedMetadata /\ UNCHANGED <<disk, saved>>
    BY DEF RemoveWal
  <1>2. PICK i \in SlotsOf(LoadedMetadata, n) :
            \E lba : active_dbs' = Moved(LoadedStates, n, "WAL", lba)
    BY DEF RemoveWal, Moved
  <1>3. "WAL" \in FileTypes
    BY DEF FileTypes
  <1> QED
    BY <1>1, <1>2, <1>3, MovesOneSize

LEMMA FileSyncSyncs ==
    ASSUME IInv, FileSync
    PROVE  Promise!Sync \/ UNCHANGED Promise!vars
  <1>1. attached /\ attached' = TRUE /\ active_dbs' = active_dbs
    BY DEF FileSync, IInv, TypeOK
  <1>2. Now = SizesIn(metadata, active_dbs)
    BY <1>1 DEF Now
  <1>3. \/ WriteMetadata(metadata, active_dbs) /\ saved' = TRUE
        \/ WriteMetadataFails(metadata, active_dbs) /\ saved' = saved
    BY DEF FileSync
  <1> QED
    BY <1>1, <1>2, <1>3, Attached, SaveMakesDurable, StepMeans DEF Saved

LEMMA CrashCrashes ==
    ASSUME Crash
    PROVE  Promise!Crash
  BY StepMeans DEF Crash, Forget, Now, DurableSizes

\* A destructor that has metadata in memory saves it; without, it changes nothing.
LEMMA RestartSyncs ==
    ASSUME IInv, Restart
    PROVE  Promise!Sync \/ Promise!Crash
  <1>1. CASE attached
    <2>1. disk' = WithLocations(metadata, active_dbs) /\ ~attached' /\ saved' = TRUE
      BY <1>1 DEF Restart, Forget
    <2>2. DurableSizes' = SizesIn(metadata, active_dbs)
      BY <1>1, <2>1, Attached, SavedSizes DEF DurableSizes
    <2> QED
      BY <1>1, <2>1, <2>2, StepMeans DEF Now, Saved
  <1>2. CASE ~attached
    BY <1>2, StepMeans DEF Restart, Forget, Now, DurableSizes
  <1> QED
    BY <1>1, <1>2

LEMMA StepRefines ==
    ASSUME IInv, BuiltEmpty, [Next]_vars
    PROVE  [Promise!Next]_(Promise!vars)
  <1> DEFINE Goal == Promise!Next \/ UNCHANGED Promise!vars
  <1> SUFFICES Goal
    OBVIOUS
  <1>1. ASSUME NEW n \in Names, NEW type \in FileTypes, AllocateNewDatabaseRegion(n, type) PROVE Goal
    BY <1>1, AllocateCreates, StepMeans
  <1>2. CASE PublishMetadata
    BY <1>2, PublishCreates
  <1>3. ASSUME NEW n \in Names, NEW type \in FileTypes, NEW offset \in 0 .. MaxIoLbas,
               NEW count \in 1 .. MaxIoLbas, Write(n, type, offset, count)
        PROVE  Goal
    BY <1>3, WriteResizes
  <1>4. ASSUME NEW n \in Names, NEW type \in FileTypes, NEW size \in 0 .. MaxIoLbas,
               Truncate(n, type, size)
        PROVE  Goal
    BY <1>4, TruncateResizes
  <1>5. CASE \E n \in Names : RemoveWal(n)
    BY <1>5, RemoveWalResizes
  <1>6. CASE FileSync \/ Restart \/ Crash
    BY <1>6, FileSyncSyncs, RestartSyncs, CrashCrashes, StepMeans
  <1>7. ASSUME Load PROVE Goal
    BY <1>7, LoadLeavesSizes
  <1>8. ASSUME UNCHANGED <<disk, attached, metadata, active_dbs, saved>> PROVE Goal
    BY <1>8, OthersLeaveSizes
  <1> HIDE DEF Goal
  <1>9. CASE OpenFile
    <2>1. \/ \E n \in Names, type \in FileTypes : AllocateNewDatabaseRegion(n, type)
          \/ PublishMetadata
          \/ Load
          \/ UNCHANGED <<disk, attached, metadata, active_dbs, saved>>
      BY <1>9 DEF OpenFile, OpenExisting, OpenMissing, AllocationRefused, OpenUnattached, LoadFails,
                  InitializeMetadata, RegisterDB, RegistrationRefused, vars
    <2> QED
      BY <1>1, <1>2, <1>7, <1>8, <2>1
  <1>10. CASE HandleCall
    <2>1. ASSUME NEW n \in Names, NEW type \in FileTypes, NEW offset \in 0 .. MaxIoLbas,
                 NEW count \in 1 .. MaxIoLbas,
                 WriteRefused(n, type, offset, count) \/ WriteFails(n, type, offset, count)
          PROVE  Goal
      BY <1>8, <2>1 DEF WriteRefused, WriteFails, vars
    <2>2. ASSUME NEW lba \in Lbas, WriteTemporary(lba) PROVE Goal
      BY <1>8, <2>2 DEF WriteTemporary
    <2> QED
      BY <1>3, <1>4, <1>6, <1>10, <2>1, <2>2 DEF HandleCall
  <1>11. CASE LoadMetadata
    BY <1>7, <1>11 DEF LoadMetadata
  <1>12. CASE UNCHANGED vars
    BY <1>8, <1>12 DEF vars
  <1> QED
    BY <1>5, <1>6, <1>9, <1>10, <1>11, <1>12 DEF Next

LEMMA InitRefines == Init => Promise!Init
  <1> SUFFICES ASSUME Init PROVE Promise!Init
    OBVIOUS
  <1>1. ~attached /\ disk.databases = <<>>
    BY DEF Init, Blank
  <1>2. DurableSizes = [n \in {} |-> 0]
    <2>1. {disk.databases[i].db_path : i \in DOMAIN disk.databases} = {}
      BY <1>1
    <2> QED
      BY <2>1 DEF DurableSizes, SizesIn
  <1>3. [n \in {} |-> 0] = <<>>
    BY EmptySeq
  <1>4. (IF attached THEN SizesIn(metadata, active_dbs) ELSE DurableSizes) = <<>>
        /\ DurableSizes = <<>>
    BY <1>1, <1>2, <1>3
  <1>5. saved = TRUE
    BY DEF Init
  <1> QED
    BY <1>4, <1>5 DEF Promise!Init

\* What a user of the files relies on: a database appears empty, a call changes the
\* size of its own file only, a sync that succeeds makes all sizes durable and a crash
\* brings back the sizes of the last sync, creation or clean end that has reached the
\* device, through every load, save, failed write and refusal of the layout behind
\* it.  A database is lost only by a crash after the save that should have kept it
\* has failed, and its data with it.
THEOREM FileSystemImplementsDurableFiles == Spec => SizesAreDurable
  <1>1. Init => BuiltEmpty
    BY DEF Init, NoInit, BuiltEmpty
  <1>2. IInv /\ BuiltEmpty /\ [Next]_vars => BuiltEmpty'
    BY BuiltEmptyKept
  <1>3. Spec => []BuiltEmpty
    BY <1>1, <1>2, Invariance, PTL DEF Spec
  <1>4. IInv /\ BuiltEmpty /\ [Next]_vars => [Promise!Next]_(Promise!vars)
    BY StepRefines
  <1> QED
    BY <1>3, <1>4, InitRefines, Invariance, PTL DEF Spec, SizesAreDurable, Promise!Spec

=============================================================================
