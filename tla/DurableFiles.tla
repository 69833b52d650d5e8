----------------------------- MODULE DurableFiles -----------------------------
(***************************************************************************)
(* What the database and WAL files of an NvmeFileSystem promise, without   *)
(* a device: each database has two files with a size each; creating a      *)
(* database or syncing any file makes all sizes durable, unless the write  *)
(* fails, which leaves what was durable; a crash, or a new file system on  *)
(* the same device, finds the durable sizes; nothing else changes a size   *)
(* but a call on that very file, and no durable database is lost.          *)
(***************************************************************************)
EXTENDS Naturals

CONSTANTS Names, FileTypes

VARIABLES
    files,    \* the size of each file of each database, by name
    durable,  \* the sizes that a crash would leave
    saved     \* no database was created by a call whose write failed, or a later
              \* write has made it durable

vars == <<files, durable, saved>>

Init == files = <<>> /\ durable = <<>> /\ saved = TRUE

Empty == [type \in FileTypes |-> 0]

\* All sizes become durable.
Save == durable' = files' /\ saved' = TRUE

\* New databases appear, empty.  They are in use also when they could not be saved.
Create(new) ==
    /\ new # {}
    /\ new \cap DOMAIN files = {}
    /\ files' = [n \in DOMAIN files \cup new |-> IF n \in new THEN Empty ELSE files[n]]
    /\ Save \/ (saved' = FALSE /\ UNCHANGED durable)

\* A write, a truncation or a removal of one file, which may find the metadata
\* not loaded yet.
Resize(n, type, size) ==
    /\ n \in DOMAIN files
    /\ files' = [files EXCEPT ![n][type] = size]
    /\ UNCHANGED <<durable, saved>>

\* A sync whose write fails does nothing.
Sync == UNCHANGED files /\ Save

Crash == files' = durable /\ saved' = TRUE /\ UNCHANGED durable

Next ==
    \/ \E new \in SUBSET Names : Create(new)
    \/ \E n \in DOMAIN files \cap DOMAIN files', type \in FileTypes : Resize(n, type, files'[n][type])
    \/ Sync
    \/ Crash

Spec == Init /\ [][Next]_vars
===============================================================================
