---------------------------- MODULE MCLifecycle ----------------------------
(* Small instances of Lifecycle: command lines and first states of the stores. *)
EXTENDS Overlap, TLC

CONSTANTS p1, p2, p3, hand, s1, s2, d1, d2, u1, u2, token

Symmetry == Permutations(Invocations)

OneDb == [s \in Sites |-> d1]
OneUser == [s \in Sites |-> u1]

Req(cmd, s, e, adopt) ==
    [cmd |-> cmd, site |-> s, engine |-> e, adopt |-> adopt, online |-> TRUE,
     db |-> "", user |-> "", schema |-> ""]

----------------------------------------------------------------------------
(* First states. *)

None == [k \in Keys |-> Absent]
EmptyWorld ==
    [role |-> [e \in Engines |-> [u \in Users |-> Absent]],
     owner |-> [e \in Engines |-> [d \in Databases |-> Absent]],
     access |-> [e \in Engines |-> [d \in Databases |-> {}]],
     hardening |-> [e \in Engines |-> [d \in Databases |-> {}]],
     secrets |-> [s \in Sites |-> None],
     folder |-> [s \in Sites |-> FALSE]]

\* A database an administrator made by hand, with or without a user for it.
HandMadeDb(e) ==
    [EmptyWorld EXCEPT !.owner[e][d1] = Admin]
HandMade(e) ==
    [HandMadeDb(e) EXCEPT !.role[e][u1] = hand, !.access[e][d1] = {u1}]

\* An app provisioned earlier, with a key of the operator's in its folder.
RecordedSecrets(e) ==
    [k \in Keys |-> CASE k = "DB_TYPE" -> e [] k = "DB_NAME" -> d1 [] k = "DB_USER" -> u1
                      [] k = "DB_PASSWORD" -> hand [] k = "DB_HOST" -> e [] k = "DB_PORT" -> e
                      [] k = "DB_SCHEMA" -> IF e = "postgres" THEN "public" ELSE Absent
                      [] OTHER -> "tok"]
ProvisionedWorld(e) ==
    [HandMade(e) EXCEPT
        !.secrets[s1] = RecordedSecrets(e), !.folder[s1] = TRUE,
        !.owner[e][d1] = IF e = "postgres" THEN u1 ELSE Admin,
        !.hardening[e][d1] = IF e = "postgres" THEN Lockdown ELSE {}]

Without(w, k) == [w EXCEPT !.secrets[s1][k] = Absent]

\* A mysql app whose record predates DB_TYPE and kept a postgres schema.
StaleSchema == [Without(ProvisionedWorld("mysql"), "DB_TYPE") EXCEPT !.secrets[s1]["DB_SCHEMA"] = "public"]

\* An app whose delete dropped the database and then failed.
HalfDeleted ==
    [ProvisionedWorld("postgres") EXCEPT
        !.owner["postgres"][d1] = Absent, !.access["postgres"][d1] = {},
        !.hardening["postgres"][d1] = {}]

----------------------------------------------------------------------------
(* Strict runs that race: for the same names from two sites, and for the same
   site under different names. One folder is there, the other is not. *)
StrictRequests ==
    {Req("provision", s, e, FALSE) : s \in Sites, e \in Engines}
    \cup {[Req("provision", s1, "postgres", FALSE) EXCEPT !.db = d2, !.user = u2],
          [Req("provision", s2, "mysql", FALSE) EXCEPT !.db = d2]}
StrictWorlds == {[EmptyWorld EXCEPT !.folder[s1] = TRUE, !.secrets[s1][token] = "tok"]}

(* Any command, one operator at a time. *)
SerialRequests ==
    {Req("provision", s1, "postgres", FALSE)}
    \cup {Req("provision", s1, e, TRUE) : e \in Engines}
    \cup {Req("rotate", s1, "", FALSE), Req("delete", s1, "", FALSE)}
SerialWorlds ==
    {EmptyWorld, HandMade("postgres"), HandMadeDb("mysql"), ProvisionedWorld("postgres"),
     Without(ProvisionedWorld("postgres"), "DB_PASSWORD"), StaleSchema,
     [ProvisionedWorld("postgres") EXCEPT !.secrets[s1]["DB_TYPE"] = "oracle"]}

(* The commands that heal, from nothing, a lost password, a stale key
   or an interrupted delete. *)
ConvergeRequests == {r \in SerialRequests : r.cmd = "provision" => r.adopt}
ConvergeWorlds ==
    {EmptyWorld, Without(ProvisionedWorld("postgres"), "DB_PASSWORD"), StaleSchema, HalfDeleted}

(* Without adoption, on either engine, with or without the vault, and with
   schemas that are refused. *)
CleanRequests ==
    {Req("provision", s1, e, FALSE) : e \in Engines}
    \cup {[Req("provision", s1, e, FALSE) EXCEPT !.online = FALSE] : e \in Engines}
    \cup {[Req("provision", s1, "mysql", FALSE) EXCEPT !.schema = "public"],
          [Req("provision", s1, "postgres", FALSE) EXCEPT !.schema = "1st"]}
    \cup {Req("rotate", s1, "", FALSE), Req("delete", s1, "", FALSE)}

(* Commands on one recorded app, whose operators do not wait for each other. *)
OverlapRequests ==
    {Req("provision", s1, "postgres", TRUE), Req("rotate", s1, "", FALSE),
     Req("delete", s1, "", FALSE)}
OverlapWorlds ==
    {ProvisionedWorld("postgres"), ProvisionedWorld("mysql"),
     Without(HalfDeleted, "DB_PASSWORD")}

\* The first two operators differ in nothing but their names: of two commands,
\* the one that ranks lower is the first one's, whoever starts first.
Rank == [provision |-> 1, rotate |-> 2, delete |-> 3]
Named ==
    ~At(p1, "idle") /\ ~At(p2, "idle") => Rank[Request(p1).cmd] <= Rank[Request(p2).cmd]

\* The third operator comes when they are done.
HealNext ==
    \E p \in Invocations :
        \/ \E r \in Requests : (p = p3 => Undisturbed(p)) /\ Start(p, r) /\ Named'
        \/ Step(p)
        \/ Crash(p)
HealSpec == Init /\ [][HealNext]_vars /\ Fairness

(* One command each, for the runs that refute a statement. *)
DeleteRequests == {Req("delete", s1, "", FALSE)}
RotateRequests == {Req("rotate", s1, "", FALSE)}
RescueRequests == {Req("provision", s1, "postgres", FALSE), Req("provision", s2, "postgres", TRUE)}
EmptyPassword == {[ProvisionedWorld("postgres") EXCEPT !.secrets[s1]["DB_PASSWORD"] = ""]}
ProvisionedOnly == {ProvisionedWorld("postgres")}
EmptyOnly == {EmptyWorld}
=============================================================================
