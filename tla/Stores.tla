------------------------------- MODULE Stores -------------------------------
(***************************************************************************)
(* What the commands share: the database servers and the vault they change,*)
(* the invocations that change them, and how one remote call can end.      *)
(*                                                                         *)
(* An invocation is one run of the CLI: a process of its own, with no lock *)
(* and no local state that outlives it. Every SQL statement and every SDK  *)
(* call is one action, so calls of different invocations interleave and an *)
(* invocation can die between any two of its calls.                        *)
(*                                                                         *)
(* Each invocation generates at most one password, from 16 random bytes, so *)
(* no two are the same: it is named after the invocation that generated it. *)
(***************************************************************************)
EXTENDS Contract

CONSTANTS
    Invocations,    \* runs of the CLI, and the passwords they generate
    HandPasswords,  \* passwords set before the first run
    Sites,          \* the vault folders: an app in an environment
    Databases,      \* database names that pass the identifier allowlist
    Users,          \* user names that pass it
    Schemas,        \* schema names that pass it
    OtherStrings,   \* and strings that pass for none of them
    DefaultDb, DefaultUser,     \* the names derived from a site's app name
    Requests,       \* the command lines operators may type
    Worlds,         \* what the two stores may hold at first
    Admin,          \* the server's admin role, an owner of databases
    FaultKinds,     \* of "refused", "lost", "crash", those that may happen
    MaxFaults,      \* and how many of them
    Exclusive       \* TRUE if operators wait for each other

Passwords == Invocations \cup HandPasswords
Values == Engines \cup Databases \cup Users \cup Schemas \cup Passwords \cup OtherStrings \cup {""}

RequestType ==
    [cmd : {"provision", "rotate", "delete"}, site : Sites,
     engine : Engines \cup {""}, adopt : BOOLEAN, online : BOOLEAN,
     db : Values, user : Values, schema : Values]

\* What locking a postgres database down leaves behind, statement by statement.
Lockdown == {"connectRevoked", "publicReowned", "publicRevoked"}

SecretMaps == [Keys -> Values \cup {Absent}]
\* A role's password may be any string the vault once recorded for it.
Roles == [Engines -> [Users -> Values \cup {Absent}]]
Owners == [Engines -> [Databases -> Users \cup {Admin, Absent}]]
Accesses == [Engines -> [Databases -> SUBSET Users]]
Hardenings == [Engines -> [Databases -> SUBSET Lockdown]]

\* Only the engines of the registry can be provisioned on; for the other
\* commands "" is an absent --type.
ASSUME RequestsAssumption ==
    /\ Requests # {} /\ Requests \subseteq RequestType
    /\ \A r \in Requests : r.cmd = "provision" => r.engine \in Engines

ASSUME NamesAssumption ==
    /\ DefaultDb \in [Sites -> Values] /\ DefaultUser \in [Sites -> Values]
    /\ "public" \in Schemas
    /\ Invocations \cap HandPasswords = {}
    /\ Absent \notin Values /\ Admin \notin Users /\ Admin # Absent
    /\ "" \notin Users \cup Databases \cup Passwords

ASSUME WorldsAssumption ==
    Worlds \subseteq [role : Roles, owner : Owners, access : Accesses,
                      hardening : Hardenings,
                      secrets : [Sites -> SecretMaps], folder : [Sites -> BOOLEAN]]

\* At first, too, a postgres server keeps no ownership and no grant of a role
\* that is not there, nor a grant in a database that is not, and no role and no
\* record has a password that has not been generated yet.
ASSUME FirstStatesAssumption ==
    \A w \in Worlds :
        /\ \A d \in Databases, u \in Users :
            w.owner["postgres"][d] = u \/ u \in w.access["postgres"][d] =>
                w.role["postgres"][u] # Absent
        /\ \A d \in Databases :
            w.owner["postgres"][d] = Absent => w.access["postgres"][d] = {}
        /\ \A e \in Engines, u \in Users : w.role[e][u] \notin Invocations
        /\ \A s \in Sites : w.secrets[s]["DB_PASSWORD"] \notin Invocations

ASSUME FaultsAssumption ==
    /\ FaultKinds \subseteq {"refused", "lost", "crash"}
    /\ MaxFaults \in Nat
    /\ Exclusive \in BOOLEAN

VARIABLES
    role,       \* engine -> user -> its password, Absent if there is no such role
    owner,      \* engine -> database -> its owner, Absent if there is none
    access,     \* engine -> database -> the users with grants in it
    hardening,  \* engine -> database -> the lockdown statements applied to it
    secrets,    \* site -> the secrets in its folder
    folder,     \* site -> whether the folder exists
    pc,         \* invocation -> the call it makes next, or how it ended
    job,        \* invocation -> its request and local variables
    shown,      \* the passwords printed on some operator's terminal
    faults      \* faults so far

sqlVars == <<role, owner, access, hardening>>
vaultVars == <<secrets, folder>>
vars == <<role, owner, access, hardening, secrets, folder, pc, job, shown, faults>>

Finished == {"synced", "offline", "rotated", "unverified", "rolledBack",
             "deleted", "failed", "declined", "crashed"}

Job == [req : Requests, engine : Engines \cup {""}, seen : SecretMaps,
        left : SUBSET Keys,
        dbThere : BOOLEAN, userThere : BOOLEAN, dbMade : BOOLEAN, userMade : BOOLEAN]

NewJob(r) ==
    [req |-> r, engine |-> r.engine, seen |-> [k \in Keys |-> Absent], left |-> {},
     dbThere |-> FALSE, userThere |-> FALSE, dbMade |-> FALSE, userMade |-> FALSE]

Init ==
    /\ \E w \in Worlds :
        /\ role = w.role /\ owner = w.owner
        /\ access = w.access /\ hardening = w.hardening
        /\ secrets = w.secrets /\ folder = w.folder
    /\ pc = [p \in Invocations |-> "idle"]
    /\ job = [p \in Invocations |-> NewJob(CHOOSE r \in Requests : TRUE)]
    /\ shown = {}
    /\ faults = 0

----------------------------------------------------------------------------
(* Control.                                                                *)

At(p, step) == pc[p] = step
Active(p) == pc[p] \notin Finished \cup {"idle"}
Goto(p, step) == pc' = [pc EXCEPT ![p] = step] /\ UNCHANGED job
GotoWith(p, step, j) == pc' = [pc EXCEPT ![p] = step] /\ job' = [job EXCEPT ![p] = j]

Request(p) == job[p].req
Engine(p) == job[p].engine
Site(p) == job[p].req.site

Fault(kind) == kind \in FaultKinds /\ faults < MaxFaults /\ faults' = faults + 1

(* A call that changes a store ends in one of four ways: done and reported;  *)
(* done, but its answer lost (a timeout, a cancelled context, a dropped      *)
(* connection); rejected by a server that cannot do it; refused unseen.      *)
Call(possible, effect, idle, ok, bad) ==
    \/ possible /\ effect /\ ok /\ UNCHANGED faults
    \/ possible /\ effect /\ bad /\ Fault("lost")
    \/ ~possible /\ idle /\ bad /\ UNCHANGED faults
    \/ idle /\ bad /\ Fault("refused")

SqlCall(possible, effect, ok, bad) ==
    /\ Call(possible, effect, UNCHANGED sqlVars, ok, bad)
    /\ UNCHANGED <<secrets, folder, shown>>

VaultCall(possible, effect, ok, bad) ==
    /\ Call(possible, effect, UNCHANGED vaultVars, ok, bad)
    /\ UNCHANGED <<role, owner, access, hardening, shown>>

\* A call that only reads, or a step with no call at all.
Read(ok, bad) ==
    /\ \/ ok /\ UNCHANGED faults
       \/ bad /\ Fault("refused")
    /\ UNCHANGED <<role, owner, access, hardening, secrets, folder, shown>>

Local(then) ==
    /\ then
    /\ UNCHANGED <<role, owner, access, hardening, secrets, folder, shown, faults>>

----------------------------------------------------------------------------
(* The names an invocation works on.                                       *)

\* prepareOptions: what the command line leaves out has a default.
Options(r) ==
    [db |-> IF r.db = "" THEN DefaultDb[r.site] ELSE r.db,
     user |-> IF r.user = "" THEN DefaultUser[r.site] ELSE r.user,
     schema |-> IF r.engine = "postgres" /\ r.schema = "" THEN "public" ELSE r.schema]

SchemaRefused(r) == r.engine # "postgres" /\ r.schema # ""

\* Provisioning takes the names from its options, the others from the vault.
DbOf(p) == IF Request(p).cmd = "provision"
           THEN Options(Request(p)).db ELSE Lookup(job[p].seen, "DB_NAME")
UserOf(p) == IF Request(p).cmd = "provision"
             THEN Options(Request(p)).user ELSE Lookup(job[p].seen, "DB_USER")

\* The identifier allowlist every name passes before it reaches any SQL.
ValidNames(p) == DbOf(p) \in Databases /\ UserOf(p) \in Users
ValidOptions(p) == ValidNames(p) /\ Options(Request(p)).schema \in Schemas \cup {""}

\* The contract a provisioning run wants recorded. Host and port are those of
\* the engine's own configuration, one value for each engine.
Desired(p) ==
    LET o == Options(Request(p))
        e == Engine(p)
    IN  ToSecrets([k \in ContractKeys |->
            CASE k = "DB_TYPE" -> e      [] k = "DB_NAME" -> o.db
              [] k = "DB_USER" -> o.user [] k = "DB_PASSWORD" -> p
              [] k = "DB_HOST" -> e      [] k = "DB_PORT" -> e
              [] k = "DB_SCHEMA" -> o.schema])

----------------------------------------------------------------------------
(* The servers, external: what their statements do to the state above.     *)

RoleExists(e, u) == u \in Users /\ role[e][u] # Absent
DbExists(e, d) == d \in Databases /\ owner[e][d] # Absent

SetPassword(e, u, pw) ==
    /\ role' = [role EXCEPT ![e][u] = pw]
    /\ UNCHANGED <<owner, access, hardening>>

\* A role that owns a database, or was granted something in one, can not be
\* dropped in postgres; in mysql its grants go with it.
RoleIsFree(u) ==
    \A d \in Databases : owner["postgres"][d] # u /\ u \notin access["postgres"][d]

DropRole(e, u) ==
    /\ role' = [role EXCEPT ![e][u] = Absent]
    /\ access' = [access EXCEPT ![e] = [d \in Databases |-> access[e][d] \ {u}]]
    /\ UNCHANGED <<owner, hardening>>

CreateDb(e, d, o) ==
    /\ owner' = [owner EXCEPT ![e][d] = o]
    /\ hardening' = [hardening EXCEPT ![e][d] = {}]
    /\ UNCHANGED <<role, access>>

SetOwner(e, d, o) ==
    /\ owner' = [owner EXCEPT ![e][d] = o]
    /\ UNCHANGED <<role, access, hardening>>

\* Grants inside a postgres database go with it, mysql keeps them.
DropDb(e, d) ==
    /\ owner' = [owner EXCEPT ![e][d] = Absent]
    /\ access' = IF e = "postgres" THEN [access EXCEPT ![e][d] = {}] ELSE access
    /\ hardening' = [hardening EXCEPT ![e][d] = {}]
    /\ UNCHANGED role

GrantAccess(e, d, u) ==
    /\ access' = [access EXCEPT ![e][d] = @ \cup {u}]
    /\ UNCHANGED <<role, owner, hardening>>

Harden(e, d, statement) ==
    /\ hardening' = [hardening EXCEPT ![e][d] = @ \cup {statement}]
    /\ UNCHANGED <<role, owner, access>>

\* Whom a server lets into a database: in postgres every role may connect until
\* that is revoked, and its owner always may.
LetsIn(e, creds) ==
    LET d == creds["DB_NAME"]
        u == creds["DB_USER"]
    IN  /\ DbExists(e, d) /\ RoleExists(e, u) /\ role[e][u] = creds["DB_PASSWORD"]
        /\ e = "postgres" => owner[e][d] = u \/ "connectRevoked" \notin hardening[e][d]
        /\ e = "mysql" => u \in access[e][d]

----------------------------------------------------------------------------
(* The vault, external: secrets are created where there are none, updated   *)
(* and deleted where there are, and go with their folder.                  *)

Put(s, k, v) ==
    /\ secrets' = [secrets EXCEPT ![s][k] = v]
    /\ UNCHANGED folder

CanCreate(s, k) == folder[s] /\ secrets[s][k] = Absent
CanUpdate(s, k) == folder[s] /\ secrets[s][k] # Absent

MakeFolder(s) ==
    /\ folder' = [folder EXCEPT ![s] = TRUE]
    /\ UNCHANGED secrets

RemoveFolder(s) ==
    /\ folder' = [folder EXCEPT ![s] = FALSE]
    /\ secrets' = [secrets EXCEPT ![s] = [k \in Keys |-> Absent]]
=============================================================================
