---------------------------- MODULE MCSecretSync ----------------------------
(* SecretSync with one operator's key. A key may be missing, empty, hold what *)
(* is wanted or something else; user, host and port go the way of the name.   *)
EXTENDS SecretSync

CONSTANT token

Target(engine, schema) ==
    [k \in ContractKeys |-> CASE k = "DB_TYPE" -> engine [] k = "DB_SCHEMA" -> schema
                              [] OTHER -> "new"]

MCTargets == {Target("postgres", "new"), Target("mysql", "")}

Free == {"DB_TYPE", "DB_NAME", "DB_PASSWORD", "DB_SCHEMA", token}

MCFolders ==
    {[k \in Keys |-> CASE k \notin Free -> f["DB_NAME"]
                    [] k = "DB_TYPE" /\ f[k] = "new" -> "postgres"
                    [] OTHER -> f[k]] :
        f \in [Free -> {Absent, "", "new", "old"}]}
=============================================================================
