----------------------------- MODULE Provision -----------------------------
(***************************************************************************)
(* `provision` (cmd/provision.go, Provisioner.Run): the vault is prepared  *)
(* and read first, then the engine's adapter provisions, then the contract *)
(* is reconciled against the secrets read at the start.                    *)
(***************************************************************************)
EXTENDS Postgres, MySQL

\* prepareOptions; without a vault client the run goes on offline.
Prepare(p) ==
    /\ At(p, "prepare")
    /\ Local(Goto(p, CASE SchemaRefused(Request(p)) -> "failed"
                       [] ~SchemaRefused(Request(p)) /\ Request(p).online -> "createFolder"
                       [] OTHER -> "checkDatabase"))

\* ensureFolder: creating it may fail if it can be seen to exist.
CreateFolderMutantIntolerant(p) ==
    /\ At(p, "createFolder")
    /\ VaultCall(~folder[Site(p)], MakeFolder(Site(p)),
                 Goto(p, "inspect"), Goto(p, "failed"))

CreateFolder(p) ==
    /\ At(p, "createFolder")
    /\ VaultCall(~folder[Site(p)], MakeFolder(Site(p)),
                 Goto(p, "inspect"), Goto(p, "folderExists"))

FolderExists(p) ==
    /\ At(p, "folderExists")
    /\ Read(Goto(p, IF folder[Site(p)] THEN "inspect" ELSE "failed"), Goto(p, "failed"))

Inspect(p) ==
    /\ At(p, "inspect")
    /\ Read(IF Acceptable(Request(p), secrets[Site(p)])
            THEN GotoWith(p, "checkDatabase", [job[p] EXCEPT !.seen = secrets[Site(p)]])
            ELSE Goto(p, "failed"),
            Goto(p, "failed"))

\* The adapter's Provision begins: names pass the allowlist, a connection is
\* opened, and two queries tell what exists already.
CheckDatabase(p) ==
    /\ At(p, "checkDatabase")
    /\ Read(IF ValidOptions(p)
            THEN GotoWith(p, "checkUser",
                          [job[p] EXCEPT !.dbThere = DbExists(Engine(p), DbOf(p))])
            ELSE Goto(p, "failed"),
            Goto(p, "failed"))

FirstStatement == [postgres |-> "pgUser", mysql |-> "myDatabase"]

CheckUser(p) ==
    LET userThere == RoleExists(Engine(p), UserOf(p))
    IN  /\ At(p, "checkUser")
        /\ Read(IF Request(p).adopt \/ ~(job[p].dbThere \/ userThere)
                THEN GotoWith(p, FirstStatement[Engine(p)],
                              [job[p] EXCEPT !.userThere = userThere])
                ELSE Goto(p, "failed"),
                Goto(p, "failed"))

\* The database is there: offline the credentials are printed, otherwise the
\* plan is made from what the vault held at the start.
Plan(p) == PlanSecretSync(job[p].seen, Desired(p))

Provisioned(p) ==
    /\ At(p, "provisioned")
    /\ Local(IF Request(p).online
             THEN GotoWith(p, "sync", [job[p] EXCEPT !.left = Touched(Plan(p))])
             ELSE Goto(p, "printOffline"))

\* executeSyncPlan, one call at a time; the first failure ends it.
SyncMutantIgnoresErrors(p) ==
    LET k == NextOperation(Plan(p), job[p].left)
    IN  /\ At(p, "sync") /\ job[p].left # {}
        /\ VaultCall(IF k \in Plan(p).creates THEN CanCreate(Site(p), k)
                                              ELSE CanUpdate(Site(p), k),
                     Put(Site(p), k, Desired(p)[k]),
                     GotoWith(p, "sync", [job[p] EXCEPT !.left = @ \ {k}]),
                     GotoWith(p, "sync", [job[p] EXCEPT !.left = @ \ {k}]))

SyncMutantUpserts(p) ==
    LET k == NextOperation(Plan(p), job[p].left)
    IN  /\ At(p, "sync") /\ job[p].left # {}
        /\ VaultCall(folder[Site(p)],
                     Put(Site(p), k, Desired(p)[k]),
                     GotoWith(p, "sync", [job[p] EXCEPT !.left = @ \ {k}]),
                     Goto(p, "printCredentials"))

Sync(p) ==
    LET k == NextOperation(Plan(p), job[p].left)
    IN  /\ At(p, "sync") /\ job[p].left # {}
        /\ VaultCall(IF k \in Plan(p).creates THEN CanCreate(Site(p), k)
                                              ELSE CanUpdate(Site(p), k),
                     Put(Site(p), k, Desired(p)[k]),
                     GotoWith(p, "sync", [job[p] EXCEPT !.left = @ \ {k}]),
                     Goto(p, "printCredentials"))

SyncDone(p) ==
    /\ At(p, "sync") /\ job[p].left = {}
    /\ Local(Goto(p, "synced"))

\* The terminal is the only place the password is left in.
PrintsPassword(p, from, to) ==
    /\ At(p, from)
    /\ shown' = shown \cup {p}
    /\ Goto(p, to)
    /\ UNCHANGED <<role, owner, access, hardening, secrets, folder, faults>>

PrintCredentialsMutantSilent(p) ==
    \/ At(p, "printCredentials") /\ Local(Goto(p, "failed"))
    \/ PrintsPassword(p, "printOffline", "offline")

PrintCredentials(p) ==
    \/ PrintsPassword(p, "printCredentials", "failed")
    \/ PrintsPassword(p, "printOffline", "offline")

ProvisionStep(p) ==
    \/ Prepare(p) \/ CreateFolder(p) \/ FolderExists(p) \/ Inspect(p)
    \/ CheckDatabase(p) \/ CheckUser(p)
    \/ Provisioned(p) \/ Sync(p) \/ SyncDone(p) \/ PrintCredentials(p)
=============================================================================
