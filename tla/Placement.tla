------------------------------- MODULE Placement -------------------------------
(***************************************************************************)
(* Which region and which placement handle a file gets, from its path and  *)
(* the secret: NvmeFileSystem::OpenFile with the names as they are, and the *)
(* placement of NvmeDevice.  Regions are in NvmeFileSystem; here a slot of  *)
(* GlobalMetadata is its name and its size, and the struct in memory is the *)
(* one on the device, which LayoutIsDurable says there of metadata writes  *)
(* that do not fail.                                                       *)
(***************************************************************************)
EXTENDS FileNames, FiniteSets

CONSTANTS
    Paths,
    Secrets,        \* [db_configs, fdp_mapping, use_fdp]
    MaxDatabases,   \* MAX_NVME_DATABASES
    TmpStart,       \* tmp_start
    WalLbas,        \* max_wal_size
    DefaultLbas,    \* default_db_size
    RuhRange,       \* of the uint8_t of GetReclaimUnitHandleOrDefault: 256
    MaxHandles,     \* bound: the handles that are open at a time
    MaxWritten      \* bound: the files that a process writes

ASSUME PlacementAssumption ==
    /\ MaxDatabases \in Nat
    /\ {TmpStart, WalLbas, DefaultLbas, MaxHandles, MaxWritten} \subseteq Nat
    /\ RuhRange \in Nat \ {0}

ASSUME SecretsAssumption ==
    \A s \in Secrets :
        /\ s.db_configs \in Seq([name : Seq(STRING), size : Nat])
        /\ s.fdp_mapping \in [DOMAIN s.fdp_mapping -> Nat]
        /\ s.use_fdp \in BOOLEAN

\* DuckDB names the WAL of a database and that of a checkpoint with suffixes to
\* the path of its file; the name itself has none of them.
FileSuffixes == {".db", ".wal", ".checkpoint"}

IsDatabasePath(path) ==
    /\ path # <<>> /\ path[1] = PATH_PREFIX
    /\ \E end \in 1 .. Len(path) :
        /\ \A n \in 2 .. end : path[n] \notin FileSuffixes
        /\ SubSeq(path, end + 1, Len(path)) \in
                {<<".db">>, <<".db", ".wal">>, <<".db", ".wal", ".checkpoint">>}

ASSUME PathsAssumption ==
    \A path \in Paths :
        /\ path \in Seq(STRING)
        /\ GetFileType(path) \in {"DATABASE", "WAL"} => IsDatabasePath(path)

VARIABLES
    secret,      \* of this process
    slots,       \* the databases of GlobalMetadata, in the order of their regions
    attached,    \* metadata # nullptr
    active_dbs,  \* for each name, the slot its runtime locations are of
    handles,     \* the open handles
    units,       \* the paths written with each placement handle by this process
    opened       \* history: the slot and runtime state of each path opened

vars == <<secret, slots, attached, active_dbs, handles, units, opened>>

db_configs == DbConfigs(secret.db_configs)
fdp_mapping == secret.fdp_mapping

Slot(name, size) == [name |-> Stored(name), size |-> size]

\* The first LBA behind the regions.
EndOf(s) == FoldLeft(LAMBDA lba, slot : lba + slot.size + WalLbas, 1, s)

\* Neither RegisterDB nor AllocateNewDatabaseRegion throws for the last of them.
Fits(s) == Len(s) <= MaxDatabases /\ EndOf(s) < TmpStart

\* Mutant: the name is cut before it is compared.
GetRegionForCutName(s, name) ==
    SelectInSeq(s, LAMBDA slot : slot.name = Stored(name))

\* 0 is nullptr.
GetRegionForPath(s, name) == SelectInSeq(s, LAMBDA slot : slot.name = name)

\* The runtime states made by TryLoadMetadata and by InitializeMetadata: of
\* slots of one name the last one's stays.
StatesOf(s) == [name \in {s[n].name : n \in DOMAIN s} |->
                    SelectLastInSeq(s, LAMBDA slot : slot.name = name)]

-----------------------------------------------------------------------------
(* Placement: NvmeDevice.                                                  *)

Suffix == [DATABASE |-> ".db", WAL |-> ".wal", TEMPORARY |-> ".tmp"]

\* The key of allocated_ruhs that applies to a path, if there is one.
Keys(path) ==
    LET type == GetFileType(path)
        name == ExtractDatabaseName(path)
        own == Append(name, Suffix[type])
    IN  IF type \notin DOMAIN Suffix THEN {}
        ELSE IF type # "TEMPORARY" /\ name # <<>> /\ own \in DOMAIN fdp_mapping THEN {own}
        ELSE {<<Suffix[type]>>} \cap DOMAIN fdp_mapping

GetReclaimUnitHandleOrDefault(path) ==
    IF Keys(path) = {} THEN 0
    ELSE (CHOOSE ruh \in {fdp_mapping[key] : key \in Keys(path)} : TRUE) % RuhRange

Ruhs == {fdp_mapping[key] : key \in DOMAIN fdp_mapping}

\* Mutant: RUH 0 has no handle of its own unless a file is mapped to it.
OnlyMappedHandles == [ruh \in Ruhs |-> Cardinality({other \in Ruhs : other < ruh})]

\* InitializePlacementHandles; RUH 0, for all other files, comes first.
ruhs_to_phids == [ruh \in Ruhs \cup {0} |-> Cardinality({other \in Ruhs \cup {0} : other < ruh})]

\* PrepareIOCmdContext: the DSPEC of a write.
PlacementOf(path) ==
    LET ruh == GetReclaimUnitHandleOrDefault(path)
    IN  IF ruh \in DOMAIN ruhs_to_phids THEN ruhs_to_phids[ruh] ELSE 0

Written(paths) ==
    IF secret.use_fdp
    THEN units' = [h \in DOMAIN units \cup {PlacementOf(p) : p \in paths} |->
            (IF h \in DOMAIN units THEN units[h] ELSE {})
                \cup {p \in paths : PlacementOf(p) = h}]
    ELSE UNCHANGED units

-----------------------------------------------------------------------------
Init ==
    /\ secret \in Secrets
    /\ slots = <<>>
    /\ attached = FALSE
    /\ active_dbs = <<>>
    /\ handles = {}
    /\ units = <<>>
    /\ opened = {}

\* InitializeMetadata goes through db_configs, an unordered map, and then adds
\* the first database if its name is not there; without db_configs it gives it
\* all the space, which is refused.
Registered(first) ==
    IF DOMAIN db_configs = {} THEN {<<Slot(first, TmpStart - 1 - WalLbas)>>}
    ELSE {LET configured == [n \in DOMAIN names |-> Slot(names[n], db_configs[names[n]])]
          IN  IF GetRegionForPath(configured, first) # 0 THEN configured
              ELSE Append(configured, Slot(first, DefaultLbas))
          : names \in SetToSeqs(DOMAIN db_configs)}

\* Mutant: RegisterDB does not look at the space that is left.
AttachedUnchecked(path) ==
    IF slots # <<>> THEN {slots}
    ELSE IF GetFileType(path) # "DATABASE" THEN {}
    ELSE Registered(ExtractDatabaseName(path))

\* What TryLoadMetadata or InitializeMetadata attach.
Attached(path) ==
    IF slots # <<>> THEN {slots}
    ELSE IF GetFileType(path) # "DATABASE" THEN {}
    ELSE {s \in Registered(ExtractDatabaseName(path)) : Fits(s)}

SizeOf(name) == IF name \in DOMAIN db_configs THEN db_configs[name] ELSE DefaultLbas

AllocateNewDatabaseRegion(s, states, name) ==
    [slots |-> Append(s, Slot(name, SizeOf(name))),
     states |-> [n \in DOMAIN states \cup {name} |-> IF n = name THEN Len(s) + 1 ELSE states[n]]]

\* FileStrategyFactory::GetStrategy, and the handle.
Handles(path, s, states) ==
    LET name == ExtractDatabaseName(path)
        type == GetFileType(path)
        region == GetRegionForPath(s, name)
    IN  IF type = "TEMPORARY" THEN {[path |-> path, slot |-> 0, state |-> 0]}
        ELSE IF type \in {"DATABASE", "WAL"} /\ region # 0 /\ name \in DOMAIN states
        THEN {[path |-> path, slot |-> region, state |-> states[name]]}
        ELSE {}     \* it throws

Attach(s, states) ==
    /\ slots' = s
    /\ active_dbs' = states
    /\ attached' = TRUE
    /\ IF s = slots THEN UNCHANGED units ELSE Written({GLOBAL_METADATA_PATH})
    /\ UNCHANGED secret

\* OpenFile, when it gets past TryLoadMetadata and InitializeMetadata; otherwise
\* it changes nothing.
OpenFile(path, create) ==
    /\ Cardinality(handles) < MaxHandles
    /\ \E s \in Attached(path) :
        LET name == ExtractDatabaseName(path)
            states == IF attached THEN active_dbs ELSE StatesOf(s)
            new == /\ GetRegionForPath(s, name) = 0
                   /\ create /\ GetFileType(path) \in {"DATABASE", "WAL"}
            grown == IF new THEN AllocateNewDatabaseRegion(s, states, name)
                     ELSE [slots |-> s, states |-> states]
        IN  \/ /\ new /\ ~Fits(grown.slots)
               /\ Attach(s, states)
               /\ UNCHANGED <<handles, opened>>
            \/ /\ new => Fits(grown.slots)
               /\ Attach(grown.slots, grown.states)
               /\ handles' = handles \cup Handles(path, grown.slots, grown.states)
               /\ opened' = opened \cup {h \in Handles(path, grown.slots, grown.states) : h.slot # 0}

Close(h) ==
    /\ handles' = handles \ {h}
    /\ UNCHANGED <<secret, slots, attached, active_dbs, units, opened>>

Write(h) ==
    /\ Cardinality(UNION {units[u] : u \in DOMAIN units} \ {GLOBAL_METADATA_PATH}) < MaxWritten
    /\ Written({h.path})
    /\ UNCHANGED <<secret, slots, attached, active_dbs, handles, opened>>

\* FileSync of any handle saves the metadata.
FileSync ==
    /\ handles # {}
    /\ Written({GLOBAL_METADATA_PATH})
    /\ UNCHANGED <<secret, slots, attached, active_dbs, handles, opened>>

\* The process ends and another one starts, with the same secret or another.
Restart ==
    /\ secret' \in Secrets
    /\ attached' = FALSE
    /\ active_dbs' = <<>>
    /\ handles' = {}
    /\ units' = <<>>
    /\ UNCHANGED <<slots, opened>>

Next ==
    \/ \E path \in Paths, create \in BOOLEAN : OpenFile(path, create)
    \/ \E h \in handles : Close(h) \/ Write(h)
    \/ FileSync
    \/ Restart

Spec == Init /\ [][Next]_vars

-----------------------------------------------------------------------------
TypeOK ==
    /\ secret \in Secrets
    /\ slots \in Seq([name : Seq(STRING), size : Nat])
    /\ Fits(slots) \/ slots = <<>>
    /\ attached \in BOOLEAN
    /\ \A name \in DOMAIN active_dbs : active_dbs[name] \in DOMAIN slots
    /\ \A h \in handles \cup opened :
        h.path \in Paths /\ {h.slot, h.state} \subseteq {0} \cup DOMAIN slots
    /\ DOMAIN units \subseteq Nat
    /\ UNION {units[h] : h \in DOMAIN units} \subseteq Paths \cup {GLOBAL_METADATA_PATH}

\* What is between the prefix and the first suffix of a path.
DatabaseOf(path) ==
    LET suffix == SelectInSeq(path, LAMBDA piece : piece \in FileSuffixes)
    IN  SubSeq(path, 2, IF suffix = 0 THEN Len(path) ELSE suffix - 1)

\* A database has one region, and no other has that one: the same for its file,
\* its WAL and the WAL of a checkpoint, in every order of opening them and after
\* every restart, whatever the names; and the sizes of its files are read from
\* the locations of that region, unless its name is as long as what is left of
\* a longer one.
DatabasesKeepTheirRegions ==
    \A h, g \in opened :
        /\ h.slot = g.slot <=> DatabaseOf(h.path) = DatabaseOf(g.path)
        /\ DatabaseOf(h.path) \notin {CutNames[name] : name \in DOMAIN CutNames} => h.state = h.slot

\* A slot is made for a name that has none and stays; a database that the
\* secret names, in any case, has the size given there if its own name is in
\* lower case, and one that is not named has the default size.  Only names cut
\* at 100 bytes are given one slot after another.
SlotsAreMadeAsConfigured ==
    [][/\ IsPrefix(slots, slots')
       /\ \A n \in Len(slots) + 1 .. Len(slots') :
            LET name == slots'[n].name
                entries == secret.db_configs
                mine == {e \in DOMAIN entries : Lower(entries[e].name) = Lower(name)}
            IN  name \notin {CutNames[long] : long \in DOMAIN CutNames} =>
                /\ \A m \in 1 .. n - 1 : slots'[m].name # name
                /\ mine = {} => slots'[n].size = DefaultLbas
                /\ mine # {} /\ Lower(name) = name =>
                    \E e \in mine : slots'[n].size = entries[e].size]_vars

\* The RUH that fdp_mapping gives a file: by its database, else by its type.
MappedRuh(path) ==
    LET type == GetFileType(path)
        own == Append(DatabaseOf(path), Suffix[type])
    IN  IF type \notin DOMAIN Suffix THEN 0
        ELSE IF type # "TEMPORARY" /\ own \in DOMAIN fdp_mapping THEN fdp_mapping[own]
        ELSE IF <<Suffix[type]>> \in DOMAIN fdp_mapping THEN fdp_mapping[<<Suffix[type]>>]
        ELSE 0

\* Two files are written with one placement handle if and only if they are
\* mapped to one RUH: none is mixed with the metadata or with files without an
\* entry, which have RUH 0.  Only of RUHs that a uint8_t can hold.
UnitsAreSeparate ==
    \A h, g \in DOMAIN units : \A p \in units[h], q \in units[g] :
        MappedRuh(p) < RuhRange /\ MappedRuh(q) < RuhRange =>
            (h = g <=> MappedRuh(p) = MappedRuh(q))
=============================================================================
