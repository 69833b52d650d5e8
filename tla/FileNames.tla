------------------------------- MODULE FileNames -------------------------------
(***************************************************************************)
(* NvmePathHandler and the names that NvmeConfigManager::LoadConfig reads.  *)
(* A path is the sequence of the pieces the code looks for and of the names *)
(* between them: nvmefs://main.db.wal is <<"nvmefs://", "main", ".db",      *)
(* ".wal">>.  A database name is a path without its prefix and suffixes.    *)
(***************************************************************************)
EXTENDS Integers, SequencesExt

CONSTANTS
    CutNames,    \* what strncpy leaves of each name longer than 100 bytes
    LowerCase    \* the lower case of each piece that has capital letters

ASSUME NamesAssumption ==
    /\ CutNames \in [DOMAIN CutNames -> Seq(STRING)]
    /\ LowerCase \in [DOMAIN LowerCase -> STRING]
    /\ \A piece \in DOMAIN LowerCase : LowerCase[piece] \notin DOMAIN LowerCase

PATH_PREFIX == "nvmefs://"
GLOBAL_METADATA_PATH == <<PATH_PREFIX, ".global_metadata">>

GetFileType(path) ==
    IF path = GLOBAL_METADATA_PATH THEN "GLOBAL_METADATA"
    ELSE IF Contains(path, ".wal") THEN "WAL"
    ELSE IF Contains(path, "/tmp") THEN "TEMPORARY"
    ELSE IF Contains(path, ".db") THEN "DATABASE"
    ELSE "UNKNOWN"

WithoutSuffix(name, suffix) ==
    IF name # <<>> /\ Last(name) = suffix THEN Front(name) ELSE name

Inner(path) == IF path # <<>> /\ Head(path) = PATH_PREFIX THEN Tail(path) ELSE path

ExtractDatabaseName(path) ==
    WithoutSuffix(WithoutSuffix(WithoutSuffix(Inner(path), ".checkpoint"), ".wal"), ".db")

\* db_path, as strncpy has left it.
Stored(name) == IF name \in DOMAIN CutNames THEN CutNames[name] ELSE name

\* StringUtil::Lower
Lower(name) == [n \in DOMAIN name |->
                    IF name[n] \in DOMAIN LowerCase THEN LowerCase[name[n]] ELSE name[n]]

\* What a secret says of its databases, a list of names and sizes: the last
\* entry of a name counts.
SizesBy(Key(_), entries) ==
    [name \in {Key(entries[n].name) : n \in DOMAIN entries} |->
        entries[CHOOSE n \in DOMAIN entries :
            /\ Key(entries[n].name) = name
            /\ \A m \in n + 1 .. Len(entries) : Key(entries[m].name) # name].size]

\* Mutant: the keys are taken as they are written.
DbConfigsAsWritten(entries) == LET AsWritten(name) == name IN SizesBy(AsWritten, entries)

\* db_configs; the keys of fdp_mapping are not lower-cased.
DbConfigs(entries) == SizesBy(Lower, entries)
=============================================================================
