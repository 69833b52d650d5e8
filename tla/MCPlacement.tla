------------------------------ MODULE MCPlacement ------------------------------
(* Placement for TLC.  RUHs from 4 on do not fit the scaled-down uint8_t. *)
EXTENDS Placement

Prefix == "nvmefs://"

\* Names of 100 bytes and more: two long ones are cut to the same third.
McCutNames == (<<"long-a">> :> <<"long-">>) @@ (<<"long-b">> :> <<"long-">>)
McLowerCase == "Main" :> "main"

McPaths == {
    <<Prefix, "main", ".db">>,
    <<Prefix, "main", ".db", ".wal">>,
    <<Prefix, "main", ".db", ".wal", ".checkpoint">>,
    <<Prefix, "Main", ".db">>,
    <<Prefix, "long-a", ".db">>,
    <<Prefix, "long-", ".db">>,
    <<Prefix, "/tmp", "file">>,
    <<Prefix, "notes">>}

Entry(name, size) == [name |-> name, size |-> size]

McSecrets == {
    [db_configs |-> <<>>, fdp_mapping |-> <<>>, use_fdp |-> FALSE],
    [db_configs |-> <<Entry(<<"Main">>, 3)>>,
     fdp_mapping |-> (<<".db">> :> 2) @@ (<<"main", ".wal">> :> 1) @@ (<<".tmp">> :> 5),
     use_fdp |-> TRUE],
    [db_configs |-> <<Entry(<<"long-a">>, 1), Entry(<<"main">>, 1)>>,
     fdp_mapping |-> (<<"main", ".db">> :> 3) @@ (<<".wal">> :> 3),
     use_fdp |-> TRUE]}
=============================================================================
