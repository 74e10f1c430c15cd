------------------------------ MODULE Postgres ------------------------------
(***************************************************************************)
(* The postgres adapter (internal/database/postgres.go): the statements of *)
(* PostgresClient.Provision after its existence checks, the rollback its   *)
(* deferred function runs, and PostgresClient.Delete.                      *)
(***************************************************************************)
EXTENDS Stores

Pg == "postgres"

PgUserMutantKeepsPassword(p) ==
    /\ At(p, "pgUser")
    /\ IF job[p].userThere
       THEN Local(Goto(p, "pgDatabase"))
       ELSE SqlCall(~RoleExists(Pg, UserOf(p)), SetPassword(Pg, UserOf(p), p),
                    GotoWith(p, "pgDatabase", [job[p] EXCEPT !.userMade = TRUE]),
                    Goto(p, "pgUndoDatabase"))

\* Create the role, or adopt it by setting a known password.
PgUser(p) ==
    /\ At(p, "pgUser")
    /\ IF job[p].userThere
       THEN SqlCall(RoleExists(Pg, UserOf(p)), SetPassword(Pg, UserOf(p), p),
                    Goto(p, "pgDatabase"), Goto(p, "pgUndoDatabase"))
       ELSE SqlCall(~RoleExists(Pg, UserOf(p)), SetPassword(Pg, UserOf(p), p),
                    GotoWith(p, "pgDatabase", [job[p] EXCEPT !.userMade = TRUE]),
                    Goto(p, "pgUndoDatabase"))

\* Create the database for the role, or adopt it by giving it to the role.
PgDatabase(p) ==
    /\ At(p, "pgDatabase")
    /\ IF job[p].dbThere
       THEN SqlCall(DbExists(Pg, DbOf(p)) /\ RoleExists(Pg, UserOf(p)),
                    SetOwner(Pg, DbOf(p), UserOf(p)),
                    Goto(p, "connectRevoked"), Goto(p, "pgUndoDatabase"))
       ELSE SqlCall(~DbExists(Pg, DbOf(p)) /\ RoleExists(Pg, UserOf(p)),
                    CreateDb(Pg, DbOf(p), UserOf(p)),
                    GotoWith(p, "connectRevoked", [job[p] EXCEPT !.dbMade = TRUE]),
                    Goto(p, "pgUndoDatabase"))

\* The statements of lockdownDatabase, run inside the app's database. A step
\* is named after what its statement leaves behind.
LockdownStep(p, statement, next) ==
    /\ At(p, statement)
    /\ SqlCall(DbExists(Pg, DbOf(p)), Harden(Pg, DbOf(p), statement),
               Goto(p, next), Goto(p, "pgUndoDatabase"))

PgLockdown(p) ==
    \/ LockdownStep(p, "connectRevoked", "publicReowned")
    \/ LockdownStep(p, "publicReowned", "publicRevoked")
    \/ LockdownStep(p, "publicRevoked", "pgGrant")

\* The role is granted all on public, or made owner of a schema of its own:
\* one statement for "public", two idempotent ones otherwise.
PgGrant(p) ==
    /\ At(p, "pgGrant")
    /\ SqlCall(DbExists(Pg, DbOf(p)) /\ RoleExists(Pg, UserOf(p)),
               GrantAccess(Pg, DbOf(p), UserOf(p)),
               Goto(p, "provisioned"), Goto(p, "pgUndoDatabase"))

\* Rollback: only what this run created, errors ignored, database first.
PgUndoDatabaseMutantDropsAdopted(p) ==
    /\ At(p, "pgUndoDatabase")
    /\ SqlCall(TRUE, DropDb(Pg, DbOf(p)), Goto(p, "pgUndoUser"), Goto(p, "pgUndoUser"))

PgUndoDatabaseMutantForgotten(p) ==
    /\ At(p, "pgUndoDatabase")
    /\ Local(Goto(p, "pgUndoUser"))

PgUndoDatabase(p) ==
    /\ At(p, "pgUndoDatabase")
    /\ IF job[p].dbMade
       THEN SqlCall(TRUE, DropDb(Pg, DbOf(p)), Goto(p, "pgUndoUser"), Goto(p, "pgUndoUser"))
       ELSE Local(Goto(p, "pgUndoUser"))

PgUndoUser(p) ==
    /\ At(p, "pgUndoUser")
    /\ IF job[p].userMade
       THEN SqlCall(RoleIsFree(UserOf(p)), DropRole(Pg, UserOf(p)),
                    Goto(p, "failed"), Goto(p, "failed"))
       ELSE Local(Goto(p, "failed"))

\* Delete: the names come from the vault, so they pass the allowlist again;
\* open sessions are ended as far as possible, and each drop is checked.
PgDropDatabaseMutantNotIfExists(p) ==
    /\ At(p, "pgDropDatabase")
    /\ SqlCall(ValidNames(p) /\ DbExists(Pg, DbOf(p)), DropDb(Pg, DbOf(p)),
               Goto(p, "pgDropUser"), Goto(p, "failed"))

PgDropDatabase(p) ==
    /\ At(p, "pgDropDatabase")
    /\ SqlCall(ValidNames(p), DropDb(Pg, DbOf(p)),
               Goto(p, "pgDropUser"), Goto(p, "failed"))

PgDropUser(p) ==
    /\ At(p, "pgDropUser")
    /\ SqlCall(RoleIsFree(UserOf(p)), DropRole(Pg, UserOf(p)),
               Goto(p, "listSecrets"), Goto(p, "failed"))

PgStep(p) ==
    \/ PgUser(p) \/ PgDatabase(p) \/ PgLockdown(p) \/ PgGrant(p)
    \/ PgUndoDatabase(p) \/ PgUndoUser(p) \/ PgDropDatabase(p) \/ PgDropUser(p)
=============================================================================
