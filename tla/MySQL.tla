------------------------------- MODULE MySQL -------------------------------
(***************************************************************************)
(* The mysql adapter (internal/database/mysql.go): the statements of       *)
(* MySQLClient.Provision after its existence checks, the rollback its      *)
(* deferred function runs, and MySQLClient.Delete. Databases have no owner *)
(* in mysql: Admin stands for the one that created them. Accounts are      *)
(* addressed at one configured host, which the runs agree on.              *)
(***************************************************************************)
EXTENDS Stores

My == "mysql"

\* Create the database; one that is there is kept as it is.
MyDatabase(p) ==
    /\ At(p, "myDatabase")
    /\ IF job[p].dbThere
       THEN Local(Goto(p, "myUser"))
       ELSE SqlCall(~DbExists(My, DbOf(p)), CreateDb(My, DbOf(p), Admin),
                    GotoWith(p, "myUser", [job[p] EXCEPT !.dbMade = TRUE]),
                    Goto(p, "myUndoUser"))

\* Create the account, or adopt it by setting a known password.
MyUser(p) ==
    /\ At(p, "myUser")
    /\ IF job[p].userThere
       THEN SqlCall(RoleExists(My, UserOf(p)), SetPassword(My, UserOf(p), p),
                    Goto(p, "myGrant"), Goto(p, "myUndoUser"))
       ELSE SqlCall(~RoleExists(My, UserOf(p)), SetPassword(My, UserOf(p), p),
                    GotoWith(p, "myGrant", [job[p] EXCEPT !.userMade = TRUE]),
                    Goto(p, "myUndoUser"))

MyGrant(p) ==
    /\ At(p, "myGrant")
    /\ SqlCall(RoleExists(My, UserOf(p)), GrantAccess(My, DbOf(p), UserOf(p)),
               Goto(p, "myFlush"), Goto(p, "myUndoUser"))

\* FLUSH PRIVILEGES changes nothing this model keeps, but it can fail.
MyFlush(p) ==
    /\ At(p, "myFlush")
    /\ Read(Goto(p, "provisioned"), Goto(p, "myUndoUser"))

\* Rollback: only what this run created, errors ignored, account first.
MyUndoUser(p) ==
    /\ At(p, "myUndoUser")
    /\ IF job[p].userMade
       THEN SqlCall(TRUE, DropRole(My, UserOf(p)),
                    Goto(p, "myUndoDatabase"), Goto(p, "myUndoDatabase"))
       ELSE Local(Goto(p, "myUndoDatabase"))

MyUndoDatabaseMutantDropsAdopted(p) ==
    /\ At(p, "myUndoDatabase")
    /\ SqlCall(TRUE, DropDb(My, DbOf(p)), Goto(p, "failed"), Goto(p, "failed"))

MyUndoDatabase(p) ==
    /\ At(p, "myUndoDatabase")
    /\ IF job[p].dbMade
       THEN SqlCall(TRUE, DropDb(My, DbOf(p)), Goto(p, "failed"), Goto(p, "failed"))
       ELSE Local(Goto(p, "failed"))

\* Delete: every step is checked.
MyDropUserMutantUnchecked(p) ==
    /\ At(p, "myDropUser")
    /\ SqlCall(ValidNames(p), DropRole(My, UserOf(p)),
               Goto(p, "myDropDatabase"), Goto(p, "myDropDatabase"))

MyDropUser(p) ==
    /\ At(p, "myDropUser")
    /\ SqlCall(ValidNames(p), DropRole(My, UserOf(p)),
               Goto(p, "myDropDatabase"), Goto(p, "failed"))

MyDropDatabase(p) ==
    /\ At(p, "myDropDatabase")
    /\ SqlCall(TRUE, DropDb(My, DbOf(p)), Goto(p, "myFlushDrop"), Goto(p, "failed"))

MyFlushDrop(p) ==
    /\ At(p, "myFlushDrop")
    /\ Read(Goto(p, "listSecrets"), Goto(p, "failed"))

MyStep(p) ==
    \/ MyDatabase(p) \/ MyUser(p) \/ MyGrant(p) \/ MyFlush(p)
    \/ MyUndoUser(p) \/ MyUndoDatabase(p)
    \/ MyDropUser(p) \/ MyDropDatabase(p) \/ MyFlushDrop(p)
=============================================================================
