----------------------------- MODULE Lifecycle -----------------------------
(***************************************************************************)
(* The whole tool: any number of invocations of provision, rotate and      *)
(* delete against the same servers and the same vault.                     *)
(***************************************************************************)
EXTENDS Provision, Rotate, Delete

FirstStep(r) ==
    CASE r.cmd = "provision" /\ ~r.adopt -> "prepare"
      [] r.cmd = "provision" /\ r.adopt -> "confirm"
      [] OTHER -> "resolve"

Start(p, r) ==
    /\ At(p, "idle")
    /\ Exclusive => \A q \in Invocations : ~Active(q)
    /\ Local(GotoWith(p, FirstStep(r), NewJob(r)))

\* A killed process, a lost terminal, a machine gone: nothing is cleaned up.
Crash(p) ==
    /\ Active(p)
    /\ Fault("crash")
    /\ Goto(p, "crashed")
    /\ UNCHANGED <<role, owner, access, hardening, secrets, folder, shown>>

Step(p) ==
    ProvisionStep(p) \/ PgStep(p) \/ MyStep(p) \/ ResolveStep(p) \/ RotateStep(p) \/ DeleteStep(p)

Next ==
    \E p \in Invocations :
        \/ \E r \in Requests : Start(p, r)
        \/ Step(p)
        \/ Crash(p)

Spec == Init /\ [][Next]_vars

\* A process that runs gets on with its calls, and its operator answers.
Fairness == \A p \in Invocations : WF_vars(Step(p))

FairSpec == Spec /\ Fairness

----------------------------------------------------------------------------
Steps ==
    {"idle", "confirm", "resolve", "resolveAgain", "alter", "record", "verify",
     "restore", "printRotated", "prepare", "createFolder", "folderExists",
     "inspect", "checkDatabase", "checkUser", "pgUser", "pgDatabase",
     "connectRevoked", "publicReowned", "publicRevoked", "pgGrant",
     "pgUndoDatabase", "pgUndoUser", "pgDropDatabase", "pgDropUser",
     "myDatabase", "myUser", "myGrant", "myFlush", "myUndoUser",
     "myUndoDatabase", "myDropUser", "myDropDatabase", "myFlushDrop",
     "provisioned", "sync", "printCredentials", "printOffline",
     "listSecrets", "erase"} \cup Finished

\* Type correctness: every variable stays in the set its declaration names.
TypeOK ==
    /\ role \in Roles /\ owner \in Owners
    /\ access \in Accesses /\ hardening \in Hardenings
    /\ secrets \in [Sites -> SecretMaps] /\ folder \in [Sites -> BOOLEAN]
    /\ pc \in [Invocations -> Steps] /\ job \in [Invocations -> Job]
    /\ shown \subseteq Invocations
    /\ faults \in 0 .. MaxFaults

----------------------------------------------------------------------------
(* Properties. Which of them hold when operators overlap, and which faults *)
(* they survive, is said with the runs that check them.                    *)

Provisioning(p) == Request(p).cmd = "provision"
Strict(p) == Provisioning(p) /\ ~Request(p).adopt

\* The step is one of p: it moves p on, or changes what p holds.
Moves(p) == pc[p] # pc'[p] \/ job[p] # job'[p]

\* A step in which p ends this way.
Ends(p, how) == ~At(p, how) /\ pc'[p] = how

\* What a provisioning run that succeeded leaves on the server: its user with
\* its password, its database with access for the user, and in postgres the
\* user's ownership and the whole lockdown.
ServerReady(p) ==
    LET e == Engine(p)
        d == DbOf(p)
        u == UserOf(p)
    IN  /\ role[e][u] = p /\ owner[e][d] # Absent /\ u \in access[e][d]
        /\ e = "postgres" => owner[e][d] = u /\ hardening[e][d] = Lockdown

\* And in the vault: the contract it wanted, which every reader accepts.
Recorded(p) ==
    /\ folder[Site(p)]
    /\ \A k \in ContractKeys : secrets[Site(p)][k] = Desired(p)[k]
    /\ ValidateContract(ParseCredentials(secrets[Site(p)]), Engine(p))

\* Among strict runs that overlap in any way and fail in any way, one that
\* reported success keeps its user, password and database: the losers of a
\* race neither reset nor roll back what it made.
StrictSuccessKeepsDatabase ==
    \A p \in Invocations : At(p, "synced") => ServerReady(p)

\* And it keeps its secrets: of the runs that record one app at once, however
\* their calls interleave, only one gets past the contract's first key.
StrictSuccessKeepsRecord ==
    \A p \in Invocations : At(p, "synced") => Recorded(p)

\* A strict run replaces no recorded secret and resets no password, even if
\* they appeared after it looked.
StrictNeverOverwrites ==
    [][\A p \in Invocations : Moves(p) /\ Strict(p) /\ Active(p) =>
        /\ \A s \in Sites, k \in Keys :
              secrets[s][k] # Absent => secrets'[s][k] = secrets[s][k]
        /\ \A e \in Engines, u \in Users :
              role[e][u] # Absent => role'[e][u] \in {role[e][u], Absent}]_vars

\* The operator's own keys in the folder outlive every provisioning and
\* rotation: only a delete that has dropped the database takes them.
ExtrasSurvive ==
    [][\A s \in Sites, k \in ExtraKeys : secrets'[s][k] # secrets[s][k] =>
        \E p \in Invocations : At(p, "erase") /\ Site(p) = s /\ Moves(p)]_vars

\* A provisioning run that reports a sync left a usable app.
ProvisionedIsUsable ==
    [][\A p \in Invocations : Ends(p, "synced") =>
        ServerReady(p)' /\ Recorded(p)']_vars

\* A rotation that reports success left the new password on the server and
\* in the vault.
RotatedAgrees ==
    [][\A p \in Invocations : Ends(p, "rotated") \/ Ends(p, "unverified") =>
        role'[Engine(p)][UserOf(p)] = p /\ secrets'[Site(p)]["DB_PASSWORD"] = p]_vars

\* Secrets are erased only once the database and the user they name are
\* gone, so a delete that fails before can be repeated.
DropBeforeForget ==
    \A p \in Invocations : pc[p] \in {"listSecrets", "erase"} =>
        ~DbExists(Engine(p), DbOf(p)) /\ ~RoleExists(Engine(p), UserOf(p))

\* No step of a provisioning run takes away the database or the user it found
\* when it looked: not the last statement of its rollback, and whether or not
\* the step is the one that ends it.
AdoptedSurvive ==
    [][\A p \in Invocations : Provisioning(p) /\ Active(p) =>
        /\ job'[p].dbThere => DbExists(Engine(p), DbOf(p))'
        /\ job'[p].userThere => RoleExists(Engine(p), UserOf(p))']_vars

\* A run that fails in its adapter at one refused call leaves neither a database
\* nor a user that it did not find.
RollbackIsExact ==
    [][\A p \in Invocations :
        Ends(p, "failed") /\ pc[p] \in {"pgUndoUser", "myUndoDatabase"} /\ faults' <= 1 =>
            /\ ~job[p].dbThere => owner'[Engine(p)][DbOf(p)] = Absent
            /\ ~job[p].userThere => role'[Engine(p)][UserOf(p)] = Absent]_vars

\* A generated password that is live on a server is recorded in the vault, on
\* a terminal, or still in the hands of the run that generated it: that of a
\* rotation even if its rollback is refused too. (A provisioning run whose
\* rollback is refused too leaves a user whose password nobody knows.)
NoPasswordLost ==
    \A e \in Engines, u \in Users :
        /\ role[e][u] \in Invocations
        /\ faults <= 1 \/ Request(role[e][u]).cmd = "rotate"
        =>  \/ role[e][u] \in shown
            \/ \E s \in Sites : secrets[s]["DB_PASSWORD"] = role[e][u]
            \/ Active(role[e][u])

\* A rotation that reports that it rolled back left the recorded password
\* live, and the same as it was.
RolledBackChangedNothing ==
    [][\A p \in Invocations : Ends(p, "rolledBack") =>
        /\ secrets'[Site(p)]["DB_PASSWORD"] = OldPassword(p)
        /\ role'[Engine(p)][UserOf(p)] = OldPassword(p)]_vars

\* Adopting heals: once no more faults come, a run that adopts an app which
\* is not recorded under another engine ends with it synced,
\* whatever state the failed runs before it left.
CanAdopt(p) ==
    /\ At(p, "prepare") /\ Request(p).adopt /\ Request(p).online
    /\ ~SchemaRefused(Request(p)) /\ ValidOptions(p)
    /\ Lookup(secrets[Site(p)], "DB_TYPE") \in {"", Engine(p)}
    /\ faults = MaxFaults

AdoptConverges == \A p \in Invocations : CanAdopt(p) ~> At(p, "synced")

\* Rotating heals as long as the app can be resolved and its user exists, a
\* missing password secret included; one that is there and empty is not.
CanRotate(p) ==
    /\ At(p, "resolveAgain") /\ Resolvable(secrets[Site(p)])
    /\ RoleExists(Engine(p), Lookup(secrets[Site(p)], "DB_USER"))
    /\ faults = MaxFaults

Rotates(p) == At(p, "rotated") \/ At(p, "unverified")

RotateConverges ==
    \A p \in Invocations :
        CanRotate(p) /\ secrets[Site(p)]["DB_PASSWORD"] # "" ~> Rotates(p)

\* A confirmed delete of an app that could be resolved gets to its end, even
\* if a delete before it dropped the database or the user already.
CanDelete(p) ==
    /\ pc[p] \in {"pgDropDatabase", "myDropUser"} /\ ValidNames(p)
    /\ faults = MaxFaults

DeleteConverges == \A p \in Invocations : CanDelete(p) ~> At(p, "deleted")

----------------------------------------------------------------------------
(* What the documentation says and the code does not do. Each is refuted   *)
(* by a run of its own.                                                    *)

\* ARCHITECTURE.md: after a failure past the drop "the remaining secrets keep
\* the app resolvable".
RemainingSecretsResolve ==
    [][\A p \in Invocations : Ends(p, "failed") /\ pc[p] \in {"listSecrets", "erase"} =>
        Resolvable(secrets'[Site(p)])]_vars

\* REFERENCE.md: "Re-running rotate always converges", whatever the vault
\* holds as the password.
RotateAlwaysConverges == \A p \in Invocations : CanRotate(p) ~> Rotates(p)
=============================================================================
