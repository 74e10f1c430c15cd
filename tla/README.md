# Verification of databasemanager

`databasemanager` is a command-line tool. It creates a database and a user on a
PostgreSQL or MySQL server, records how to reach them as secrets in an Infisical
folder, and later rotates the password or deletes all of it. This directory
models what its commands do to those two stores, checks the models with TLC and
proves the safety of what they promise with TLAPS.

Paths are relative to the repository. *Server* is a database server, *vault* is
Infisical, an *invocation* is one run of the CLI.

## 1. Inventory

| Component | Source | State it keeps | Operations that change state |
|---|---|---|---|
| secret contract | `internal/database/credentials.go` | none | none (pure) |
| reconciliation plan | `internal/services/syncplan.go` | none | none (pure) |
| provisioner | `internal/services/provisioner.go` | locals of one call | `Run`, `Rotate`, `Deprovision` |
| postgres adapter | `internal/database/postgres.go` | one admin connection, `provisionState` | `Provision`, `RotatePassword`, `Delete` |
| mysql adapter | `internal/database/mysql.go` | the same | the same |
| secret store adapter | `internal/services/secretstore.go` | none | create, update, delete a secret; create, delete a folder |
| `provision`, `rotate`, `delete` | `cmd/*.go`, `cmd/helpers.go` | flags | prompt, call the provisioner, print what would be lost |
| `conn`, `test`, `list` | `cmd/*.go` | what they fetched | none: they read the vault, render or dial |
| configuration, login | `internal/config`, `internal/infisical`, `cmd/root.go` | read once per process | none, but they decide which server and which vault a command changes |

**Interaction.** A command calls the provisioner, which calls an adapter (SQL)
and the secret store (SDK calls), in one goroutine. There is no lock, no journal
and no local state that outlives the process. All that lasts is in the two
stores, which know nothing of each other. Two invocations interact only through
them.

**What is hard.** Every state change of the tool is a sequence of up to twenty
remote calls over two stores with no transaction between them. Any call can be
refused, or take effect and lose its answer. The process can die between any
two. Another operator's invocation can run between any two, or one of the same
operator under another configuration before the next. The code answers with an
order of steps, with rollbacks of its own work, with printing what is recorded
nowhere, and with re-runs that converge. Whether these answers compose is what
the properties ask.

**What makes each component correct.**

- Contract and plan: a plan that is run to its end leaves exactly the contract
  that readers accept; a plan stopped anywhere and made afresh does what was
  left; keys of the operator are never in a plan.
- Adapters: a failed run undoes what it made, and only that; overlapping strict
  runs never damage each other's result.
- `Run`: what it reports is true of both stores; a re-run with `--adopt` heals.
- `Rotate`: on success both stores hold the new password; on a reported rollback
  neither does; a re-run heals.
- `Deprovision`: nothing is forgotten before it is dropped; a re-run completes.
- All commands: a password that is live is recorded, or printed, or in the hands
  of a running process. Commands that overlapped leave nothing that the next
  one, undisturbed, can not put right, and bring back nothing that was deleted.
- `conn`, `test`: what they act on is never half of a record; what one of them
  accepts, the commands that manage the app can resolve.
- Configuration: no server is changed that the configuration does not name in
  full. A reported sync leaves a record that works, whatever configuration the
  commands before it ran with, and wherever they stopped; a rotation on another
  server than the recorded one is never reported as verified.

`PROJECT.json` lists the hazards at their lines, with the properties aimed at
each, and those no property covers yet.

## 2. Modules

```
Contract                the contract, the plan, what readers check (pure)
 |- SecretSync          reconciliation of one arbitrary folder, stopped, repeated
 |   |- MCSecretSync
 |   `- SecretSyncProofs
 |- Configuration       files, environment, login, engine sections; commands in
 |   |- MCConfiguration     under a configuration that drifts
 |   `- ConfigurationProofs
 `- Stores              servers, vault, invocations, how a call can end
     |- Postgres        statements of the postgres adapter
     |- MySQL           statements of the mysql adapter
     |   `- Provision       (extends both) provision
     `- Resolve         resolving an app, confirming
         |- Rotate      rotate
         `- Delete      delete
             `- Lifecycle   (extends Provision, Rotate, Delete) any number of
                 |          invocations; the properties of one at a time and
                 |          of strict runs that race
                 |- LifecycleProofs
                 |   `- StrictProofs
                 |       `- RecordProofs
                 `- Overlap     properties of any commands that overlap
                     |- OverlapProofs   (extends LifecycleProofs too)
                     |   `- SerialProofs    one operator at a time
                     |- MCLifecycle
                     |- Readers     conn, test, list beside the writers
                     |   |- ReadersProofs   (extends RecordProofs, SerialProofs too)
                     |   `- MCReaders   (extends MCLifecycle too)
                     `- Refinement  Lifecycle implements AppLifecycle
                         `- MCRefinement
AppLifecycle            what the tool promises of one app; extends nothing
```

**State** (`Stores`). `role` is a server's users with their passwords, `owner`
its databases, `access` the grants, `hardening` the lockdown statements applied;
`secrets` and `folder` are the vault; `pc` and `job` an invocation's next call
and its locals; `shown` the passwords printed. Go maps are functions with an
`Absent` value. A password is named after the invocation that generated it,
which is sound since it comes from 16 random bytes. `faults` counts the faults
so far, `MaxFaults` bounds them.

**Actions.** One SQL statement, one SDK call, or one local decision is one
action, named after the call: `PgUser`, `PgDatabase`, `LockdownStep`, `Sync`,
`Record`, `Erase`, ... The operator `Call` gives each remote change its four
endings: done; done with its answer lost; rejected by a server that can not do
it; refused unseen. Reads are refused or answered. `Crash` ends an active
invocation between two calls, with no cleanup. `Start` gives an invocation one
of `Requests`; with `Exclusive` it waits until no other one is active.

`Readers` adds one `reader`, whose command fetches the folder in one call and
renders or dials later, from what it fetched, while the writers go on. Readers
do not change anything and so do not meet: one with one command stands for all.

`Configuration` has a coarser grain and operators who wait for each other. Each
command is preceded by `Load` and `Login`, and gets a file and an environment of
its own, since nothing ties the configuration of one run to that of the run that
provisioned the app. Then consecutive calls to one store are one step, which may
stop at any of them and leaves what that leaves: `Adapter` any half of what it
makes that its own rollback may fail to undo (`Leftovers`), `Sync` the keys
recorded so far (`DoneSoFar`), `Drop` the first of its two drops, `Erase` the
secrets that come first in the alphabet. `Alter`, `RecordPassword`, `Restore` and
`Dial` are the four calls of a rotation. A step that stops stands for a refused
call, a lost answer and a crash alike, any number of them. `--host` changes what
is recorded (`Desired`) and not where the run connects (`Host`); `--no-verify`
ends a rotation without the dial; a recorded name that fails the identifier
allowlist ends a rotation or a delete at its first statement (`Allowed`).

`AppLifecycle` is the abstract specification of one app: its record is none,
broken or ready, some engines hold something under its names, and a command is
two steps, begin and report. What a command found is kept nowhere in the system,
so `Refinement` adds a history variable (`last`) that notes it when the command
starts, maps the two stores to the app's condition between commands, and maps
everything during one to `Changing`.

Where the code goes on after an error, so does the action: a failed statement
of an adapter leads to its rollback steps (`PgUndoDatabase`, ...), whose errors
are ignored; a failed sync leads to `PrintCredentials`; a failed record leads to
`Restore`, and a failed restore to `PrintRotated`.

**Servers and vault** are external, modelled by how the code uses them.
Statements with `IF EXISTS` succeed on what is not there. `CREATE` is rejected
on what is there. PostgreSQL refuses to drop a role that owns a database or was
granted something in one; MySQL drops its grants with it, and keeps grants on a
database that is dropped. The vault refuses to create a secret that is there or
to update or delete one that is not, and deletes a folder with what is in it.

**Abstractions.** Names that pass the identifier allowlist are the members of
`Databases`, `Users` and `Schemas`, all others are `OtherStrings`. Host and port
are one value per engine in `Lifecycle` (`--host` is in `Configuration`, `--port`
is not modelled), passwords are always generated (`--pass` is not modelled). The two statements that make a
custom schema are one action: both are idempotent and the second repeats what
the first set. `REVOKE`s are remembered by name. Ending open sessions before a
drop changes nothing kept here. A missing engine section ends a command before
it does anything; `Configuration` has it, `Lifecycle` leaves it out.
`FLUSH PRIVILEGES` can fail and changes nothing. MySQL accounts have one host in
`Lifecycle`, and the configured one in `Configuration`.

## 3. Runs

Runs of `Lifecycle`, `Readers` and `Configuration` say `CHECK_DEADLOCK FALSE`:
commands end, and when the last one has ended the system stops.

| Run | Instance | What it shows |
|---|---|---|
| `strict` | 2 strict invocations overlapping and a `conn` beside them, 2 sites, 2 databases, 2 users, both engines, 2 faults of any kind | `StrictSuccessKeepsDatabase`, `StrictSuccessKeepsRecord`, `StrictNeverOverwrites`: the losers of a race damage nothing. `ReadersSeeWorkingApps`: what a reader fetches amid them opens the database it names |
| `serial` | 2 invocations of any command one after the other, 7 first states, 2 faults of any kind | `TypeOK`, `DropBeforeForget`, `AdoptedSurvive`, `ProvisionedIsUsable`, `RotatedAgrees`, `ExtrasSurvive`, and `KeepsPromises`, the refinement of `AppLifecycle` |
| `clean` | 3 invocations without adoption, two refused calls | `NoPasswordLost`, `RollbackIsExact`, `RolledBackChangedNothing` |
| `converge` | 2 healing invocations, fair, 4 first states, 2 faults of any kind | `AdoptConverges`, `RotateConverges`, `DeleteConverges` |
| `heal` | 2 invocations of adoption, rotation and delete that overlap in every way, then a third; fair, 3 first states | `DeletedStaysGone`; `RotationHeals`, `AdoptionHeals`, `DeletionHeals`: the third puts right whatever the two left |
| `sync` | one folder, 2 targets, each key absent, empty, right or wrong, 2 failures | `DoneIsReconciled`, `ReplanResumes`, `ExtrasUntouched`, `StaysResolvable` |
| `folders` | every command line of the readers over 480 contents of a folder, before, during and after a rotation, one refused call | `ConnectableIsResolvable`, `AcceptedIsRendered`, `RotationRestoresReaders` |
| `config` | 3 of 13 command lines (with `--adopt`, `--host`, `--no-verify`, `--type`, `--config`), each stopped anywhere and under one of 12 files and 5 environments; 2 servers and an alias, 2 account hosts, 3 first states | `SyncedLogsIn`, `VerificationFindsDrift`, `ChangesAreConfigured`, `BadTokenChangesNothing` |

**Why the bounds are enough to be interesting.** Two overlapping runs are the
smallest race, and every statement of one is interleaved with every statement of
the other. Two faults allow a failure together with a failure of its rollback,
or a failure in each of two runs. First states cover an empty server, databases
made by hand, apps recorded in full, without a password, with a stale schema and
no type, with an unknown type, and half deleted. With one operator at a time two invocations
give a failed command and the one that follows it; three are used where the
property relates a password to a run two commands back. In `heal` the third
operator comes when the first two are done (`HealSpec`), which loses nothing:
the properties speak of a command nobody disturbs, and until then it would not
be one; of the first two, which differ in nothing but their names, one order
of their commands is enough. It has no faults, since the commands it needs to disagree come from
interleaving alone, and `converge` has the faults. Three commands in `config`
are one that provisions, one that moves or changes the app under another
configuration, and one that meets the result; its first states are nothing, an
app recorded without `DB_TYPE`, and one recorded under a name that fails the
allowlist. The folders of `folders` have such a name too. Passwords are only compared, so
`SYMMETRY` over invocations is sound; it is used in safety runs only.

**What some properties leave open.** `AdoptedSurvive` is a statement about steps:
whatever a provisioning run does next, the last drop of its rollback and a crash
included, what it found is there after it. `ConnectableIsResolvable` ends where
an app is resolved: a name that fails the allowlist can be rendered by `conn` and
is refused by the adapter of `rotate` and `delete`, as REFERENCE.md:415 says.
`SyncedLogsIn` speaks of the moment a sync is reported: a delete that fails after
its drops leaves a record without a database, which ARCHITECTURE.md:114 says. Of
a run with `--host` it can only say that the app gets in at the server the run
connected to, since the recorded address is never dialled.
`VerificationFindsDrift` asks nothing of `--no-verify`, by which a rotation ends
well without the check.

**What the fault model decides.** Three properties hold only under weaker
faults, and the README says so rather than the property. `RollbackIsExact` and
`NoPasswordLost` are checked with refused calls: a `CREATE` whose answer is lost
is not noted in `provisionState`, so its orphan stays, and a crash takes the
password with it. They count refusals (`faults <= 1`), since a second one may
hit the rollback of a provisioning run, which is best effort (`postgres.go:204`);
a rotation whose rollback is refused too must print its password, and
`NoPasswordLost` says so under both. `RolledBackChangedNothing` fails as soon as
an answer is lost: the update landed and only the server is rolled back. `AdoptConverges`,
`RotateConverges` and `DeleteConverges` are the answer to the stronger faults:
re-running heals. `KeepsPromises` holds under all faults because it promises
little to a command that failed: it took nothing away that it found, and what it
reports as failed may have left something behind.

**What overlap decides.** `ReadersSeeWorkingApps` is about strict runs: an
adoption or a rotation has the new password on the server before it is in the
vault, and a reader in between gets the old one. `DeletedStaysGone` is about
deletes and rotations: an adoption that overlaps with a delete may well bring the
app back. `NoPasswordLost` is false of overlapping rotations (below).

**Fairness.** `WF_vars(Step(p))` for every invocation: a process that runs gets
on with its next call, every call returns (SQL and dials have timeouts, SDK
calls are HTTP requests), and the operator answers the prompt one way or the
other. Starting, crashing and faults are not fair. Each liveness property asks
that the budget of faults is spent, since under endless faults nothing ends, and
those of `heal` that no other command is under way or can start, since nothing
in the code makes anyone wait.

### Statements of the documentation that the code does not keep

Each is a run of its own, refuted.

| Run | Statement | What happens |
|---|---|---|
| `delete_resume` | ARCHITECTURE.md:115 "the remaining secrets keep the app resolvable" | secrets go in alphabetical order, so when a deletion fails after those of `DB_HOST` and `DB_NAME`, the app can not be resolved and `delete` can not be repeated |
| `rotate_stuck` | REFERENCE.md:592 "Re-running `rotate` always converges" | an empty `DB_PASSWORD` is taken for a missing one, and creating it is refused for ever |
| `rollback_adopted` | REFERENCE.md:378 "Adopted resources are never dropped by a failed run's cleanup" | a strict run's cleanup drops the database it created, which another app's adoption took over meanwhile and reported as synced. (The sentence before it, that a rollback drops what the run created, is what the code keeps) |
| `delete_elsewhere` | REFERENCE.md:434 "prints exactly what will be deleted (database, user, **host**, ...)" | the host printed is the recorded one, the drops go to the configured one and succeed where there is nothing; the record is erased, the database stays |

More were met while modelling; none of them has a run:

- REFERENCE.md:691 "whenever a generated password would otherwise be lost, it is
  printed". An adoption that resets the password and then fails in its adapter
  prints nothing (`provisioner.go:108`). Nor does either of two rotations that
  overlap, of which one is last on the server and the other last in the vault
  (`provisioner.go:377`).
- REFERENCE.md:311 "rolls back exactly what was created". A user created for an
  adopted database owns it by then, dropping it is refused and the error ignored
  (`postgres.go:208`).
- REFERENCE.md:589, "the database is rolled back to the old password": so it is
  when the update of the secret took effect and only its answer was lost, and
  then the stores disagree (`provisioner.go:388`).
- README.md:60, a run that fails "drops whatever it already created": a failed
  sync keeps database and user and prints the credentials, as ARCHITECTURE.md
  says (`provisioner.go:128`).
- REFERENCE.md:415 says a delete removes what was provisioned. It drops the names
  it resolved before the prompt and erases the folder as it is after it
  (`delete.go:76`): an adoption under other names in between loses its record.
- REFERENCE.md:499: `conn` renders the stored secrets. In the middle of an
  adoption under other names these are partly of one run and partly of the other
  (`provisioner.go:194`).
- README.md:228: `list` prints the applications "that have secrets recorded". It
  prints folders, and the preflight makes one before anything is recorded
  (`list.go:66`).
- README.md:304 says the schema is owned by the application user;
  `postgres.go:233` gives `public` to the admin.
- README.md:287 says unsuitable characters of an app name are dropped;
  `provisioner.go:205` only replaces dashes and the allowlist rejects the rest,
  after the vault folder has been created.

## 4. Proofs

Every safety property that a passing run checks is also a theorem, for all
values of the constants that satisfy the assumptions of the modules, but one:
the refinement `KeepsPromises`. Where a theorem assumes more, the assumption is
named in it and explained here.

### Assumptions on the constants

Requests and first states are well typed; provisioning names an engine of the
registry (`database.New` refuses others); default names are strings; the fault
bound is a number; targets of a reconciliation are complete, which is what
`ProvisionOptions` are once they passed their validation.
`FirstStatesAssumption` (`Stores`) says two things of the stores before the
first command. PostgreSQL keeps no ownership or grant of a role that is not
there, and no grant in a database that is not: every step keeps that too
(`References`), so it is what a real server looks like. And no role and no
record has a password that no run has generated yet, since these are random.

| Assumed | By | Why it can not go |
|---|---|---|
| `StrictOnly`: every request is a `provision` without `--adopt` | `StrictRace`, `StrictRecord`, `ReadersReadWorkingApps` | an overlapping adoption resets the password, a delete drops the database |
| `Exclusive`: operators wait for each other | `ForgottenAfterDropped` and `SerialProofs`, `RotationRestores` | two rotations that overlap leave the stores apart; a run's rollback drops what another adopted meanwhile |
| no `"lost"` in `FaultKinds` | `RollbackRestores` | the update of the secret took effect, its answer was lost, and only the server is rolled back |
| `OneRefusal`: `Exclusive`, no lost answer, at most one fault, no `--adopt` | `RollbackLeavesNothing` | after a lost answer, or a second failure in the rollback, an orphan stays; a user made for an adopted database owns it by then and can not be dropped |
| `OnlyRefusals`: `OneRefusal`, no crash, no `--type` given to `rotate` or `delete` | `PasswordsAreKept` | a crash takes the password along; `--type`: below |
| `FirstAppsWork`: a record a reader would take, at first, opens its database | `ReadersReadWorkingApps` | a record that was wrong from the start stays wrong beside strict runs, which write only what is absent |

That `PasswordsAreKept` needs the part about `--type` came out of the proof. A
record without `DB_TYPE` may be rotated with `--type postgres` and then with
`--type mysql`. If both servers have the user, the second rotation overwrites
the only record of the first server's password. The run `clean` gives
no `--type` either.
The theorem stops at one refusal; that a rotation keeps its password under two
is model-checked.

### Types

`LifecycleProofs` proves `TypeInvariance` (`Spec => []TypeInv`) and `TypeCorrect`
(`Spec => []TypeOK`). `TypeOK` is not inductive: `CheckUser` and `Confirm` choose
the next step by the invocation's engine, which is `""` until the app is
resolved. `TypeInv` adds `EngineKnown`: past resolving, the engine is one of the
registry, because `Resolve` goes on only with an engine in `Engines`. (The mutant
of `TypeOK` drops that check.) The proof splits a step into `Control`, where the
invocation goes and what it notes down, and `Kept`, the types of everything else.
`SqlTypes` and `VaultTypes` show once that every effect on the stores keeps their
types; one lemma per module (`PgTyped`, `MyTyped`, `ProvisionTyped`,
`ResolveTyped`, `RotateTyped`, `DeleteTyped`) then takes its actions one by one.

### Strict runs that race

`StrictProofs` proves `StrictRace` (`StrictSuccessKeepsDatabase`) for any number
of strict runs. The property speaks of finished runs only; what keeps it true is
what the others, still under way, may drop. `StrictInv` adds:

- `Notes`: what a run knows at each step; `dbMade` and `userMade` are set only by
  the answer to its own `CREATE`, and past the checks it found nothing.
- `Holds`: what a run noted as made, and did not drop itself, is still there: its
  role has its password, its database its owner, and each grant and lockdown
  statement it has had answered still stands.
- `NoSharing`: no two runs noted the same database as theirs. (Of users this
  follows, since a role has one password and passwords are unique.)

`StrictMove(p)` says what a step of `p` comes to: `p` is again where `Notes` and
`Holds` want it, and the servers changed only by one of the seven effects of
`Effect`, in which a creation meets nothing and a drop takes what `p` holds.
`OthersKeep` and `StrictMovePreserves` show from that alone that no run is
disturbed; `ProvisionMoves`, `PgMoves`, `MyMoves`, `StartMoves` and `CrashMoves`
show of each action, in each of the ways its call can end, that it is such a step.
A statement done whose answer was lost is the delicate case: the run does not
note it, so it will not drop it either, and nobody holds it.

`RecordProofs` proves `StrictRecord` (`StrictSuccessKeepsRecord`), the same race
for the vault, which has no transaction and no lock, while each run plans from
what it read earlier. What saves the winner is that everyone's plan begins with
`DB_TYPE` and that the vault refuses to create a key that is there. `RecordInv`
says so: `Knows` (a strict run saw no key of the contract, so its plan only
creates), `Progress` (it has either all of its keys left or has created
`DB_TYPE`), `Keeps` (a run that created it finds in the folder exactly what it has
recorded so far), `TypeFirst` (where any key is, `DB_TYPE` is) and `OneRecord` (no
two runs created it in one folder). Most steps touch neither the folder nor what
a run knows; `PassivePreserves` disposes of them, `SyncPreserves` and `Finishing`
are the rest.

### Any commands that overlap

`OverlapProofs` assumes neither strictness nor order, save `Exclusive` in the
last theorem. `RouteInv` is about an invocation's own locals, so nobody else can
break it: where its command can be (`Routed`) and what it has noted by then
(`Noted`). `LeftInv` adds that what is left of a plan is part of the plan.

- `OperatorsKeys` (`ExtrasSurvive`) and `StrictOverwritesNothing`
  (`StrictNeverOverwrites`) follow from `LeftInv`: each looks at the few actions
  that write to the stores (`WritersOnly`), at the key or user they write.
- `DeletedIsGone` (`DeletedStaysGone`) and `ForgottenAfterDropped`
  (`DropBeforeForget`) follow from `DropInv`. `Cleared` says, step by step, what a
  delete has dropped so far; it holds if operators wait, or if nobody
  provisions, since no statement of a rotation makes a user. `Gone` says that an
  app whose delete ended is not on the server and has no folder.

### One operator at a time

`SerialProofs` rests on `SerialInv`: `LeftInv`, at most one invocation is active,
and of that one `SerialFacts`, which is what it still knows of the stores:

- `Found`: what a provisioning run found at first is still there.
- `Made`: each statement it is past has had its effect, over whatever it adopted.
- `Vaulted`: the folder holds what it read in it, with the part of the plan it
  is past carried out.
- `Rekeyed`: at each step of a rotation, which password is live and which is
  recorded.

`AdoptedAreSafe` (`AdoptedSurvive`) says of every step of a provisioning run that
what it found is there afterwards. `Found` says it of the states in which the run
is active, and `LeavesFound` carries it over the run's last step: a drop of a
rollback takes what the run noted as made, which is not what it found.
`RotationAgrees` (`RotatedAgrees`) and `RollbackRestores`
(`RolledBackChangedNothing`) are read off `Rekeyed` at the run's last step.
`ProvisioningDelivers` (`ProvisionedIsUsable`) joins `Made` and `Vaulted`: a plan
that is run to its end left the contract (`ContractRecorded`), and the contract
passes the check that readers make.

`RollbackLeavesNothing` (`RollbackIsExact`) needs `RollbackInv`: what PostgreSQL
keeps of its roles (`References`), and of the run under way `Exact`, that what it
has not noted as made is not there, that its user holds nothing elsewhere, and
that once it rolls back the fault is spent, so the rollback's own statements are
carried out. Without `References` it would not be inductive: a user just created
might own some other database already, and could not be dropped.

`PasswordsAreKept` (`NoPasswordLost`) needs `KeptInv`. Each generated password
that is live is printed, in the hands of its run, or `Vouched`: a record has it
together with the user and the engine it is live on. A run that holds one has it
on one user only, and has written it nowhere else (`InHand`). The next rotation
replaces a vouched password on the server before it replaces it in the vault, and
a delete erases a record after it dropped the user; `Naming` says that the record
they write to names the very user and engine they change.

### Readers

`ReadersProofs` proves, over any folder and beside any commands, `ConnectableApps`
(`ConnectableIsResolvable`) and `FormatsAgree` (`AcceptedIsRendered`), from
`ReaderInv`, which says what a reader that goes on has checked of the folder it
fetched. `RotationRestores` (`RotationRestoresReaders`) uses `Rekeyed`: what a
rotation that succeeded left in the folder is what it read, with the new
password, and a record that lacked only that parses to one that readers accept.

`ReadersReadWorkingApps` (`ReadersSeeWorkingApps`) joins both races. `SeenInv`
says of every record that a reader would take, of the one the reader has fetched
and of what `conn` has printed, that it is `Safe`: it opens the database it
names, no run under way holds that database but the one that recorded it, and
that one is past every step that drops anything (`Tail`). A record is not taken
before it is whole, so it becomes one that is taken by the write of a last key,
and `RecordInv` says that all of it is of one run, whose database `StrictInv`
says is there.

### Reconciliation and configuration

`SecretSyncProofs` proves reconciliation for any folder, any strings, targets,
extra keys and number of failures: `SyncTyped` (`TypeOK`), `Reconciles`
(`DoneIsReconciled`), `Resumes` (`ReplanResumes`), `ExtrasStay`
(`ExtrasUntouched`) and `ResolvableStays` (`StaysResolvable`). `TypeOK` and
`ReplanResumes` are inductive together: a write of one key takes just that key
out of a plan made afresh (`WriteShrinksPlan`), and when nothing is left the
fresh plan is empty, which says that folder and contract agree
(`EmptyPlanIsReconciled`).

`ConfigurationProofs` proves, for any files, environments, servers, first states
and number of commands, each stopped anywhere: `SyncedRecordsWork`
(`SyncedLogsIn`), `VerifiedIsAtHome` (`VerificationFindsDrift`),
`OnlyConfiguredServers` (`ChangesAreConfigured`) and `BadTokenFailsClosed`
(`BadTokenChangesNothing`). Their `IInv` adds what a command knows between two of
its steps: the configuration it holds was validated (`Configured`), a token
leaves it no other client (`Authenticated`), a provisioning run has a section for
its engine (`Opened`), what it read is what the vault still records (`Resolved`;
operators wait for each other in this module), and a run past its adapter has made
the database and the account (`Made`). Two facts carry the new theorems. A plan
that is run to its end leaves exactly the wanted contract over any folder it was
planned for, and that contract parses to credentials readers accept. And a
generated password is on one account only, that of the run that generated it
(`Fresh`, `Here`), so a dial with it lets in nowhere else: when verification gets
in at the recorded host, that is the configured one.

### Only model-checked

The liveness properties (`AdoptConverges`, `RotateConverges`, `DeleteConverges`,
`RotationHeals`, `AdoptionHeals`, `DeletionHeals`) rest on fairness, which is out
of the prover's reach. The refinement `KeepsPromises` is not proved yet. It needs,
beside `SerialInv` and `DropInv`, an invariant that relates what a command found
(`last`) to what its failures may leave, for each of its endings.

## 5. Not modelled

SQL and DSN escaping, the layout, masking and JSON of what is printed, logging,
randomness. `--pass` and `--port` are values that only pass through. A
reader that pages through a vault's folders sees one answer. The TLS mode and the
site URL of the vault change no decision.

## 6. Plan

1. The refinement of `AppLifecycle`: the initial states first, then that every
   step under way maps to a stutter, then the endings, one command at a time,
   from `SerialInv` and `DropInv`.
2. What holds of `RollbackIsExact` and `NoPasswordLost` under weaker assumptions:
   how much a crash or a second fault can leave behind, instead of nothing.
