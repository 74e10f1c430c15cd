----------------------------- MODULE MCReaders -----------------------------
(* Small instances of Readers: beside strict runs, and over any folder. *)
EXTENDS MCLifecycle, Readers

Reading(cmd, s) ==
    [cmd |-> cmd, site |-> s, online |-> TRUE, type |-> "", format |-> "table",
     copy |-> FALSE, key |-> "DB_PASSWORD"]
Conn(s, e, f) == [Reading("conn", s) EXCEPT !.type = e, !.format = f]

(* A reader of one app beside strict runs that race for it or for its names. *)
RacingReads == {Conn(s1, "", "uri")}

(* Every command line of the readers, and a rotation, over any folder. *)
AllReads ==
    {Conn(s1, e, f) : e \in Engines \cup {""}, f \in Formats}
    \cup {[Conn(s1, "", f) EXCEPT !.copy = TRUE] : f \in {"table", "uri"}}
    \cup {Reading(cmd, s1) : cmd \in {"test", "listApps", "list", "listKey"}}
    \cup {[Reading("test", s1) EXCEPT !.online = FALSE]}
AnyFolder ==
    {[k \in Keys |-> CASE k = "DB_TYPE" -> t [] k = "DB_NAME" -> n [] k = "DB_USER" -> u
                       [] k = "DB_PASSWORD" -> w [] k = "DB_HOST" -> h [] k = "DB_PORT" -> "mysql"
                       [] k = "DB_SCHEMA" -> c [] OTHER -> Absent] :
        t \in Engines \cup {"", "oracle", Absent}, n \in {d1, "1st", "", Absent}, u \in {u1, Absent},
        w \in {hand, "", Absent}, h \in {"mysql", Absent}, c \in {"public", Absent}}
FolderWorlds ==
    {[HandMade("mysql") EXCEPT !.secrets[s1] = f, !.folder[s1] = TRUE] : f \in AnyFolder}
=============================================================================
