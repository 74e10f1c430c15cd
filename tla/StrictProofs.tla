---------------------------- MODULE StrictProofs ----------------------------
(***************************************************************************)
(* The race of strict provisioning runs, for any number of them on any     *)
(* names, with any faults: a run that reported success keeps its database. *)
(***************************************************************************)
EXTENDS LifecycleProofs

\* Every operator types `provision` without --adopt.
StrictOnly == \A r \in Requests : r.cmd = "provision" /\ ~r.adopt

----------------------------------------------------------------------------
(* Where a strict run can be.                                              *)

Before == {"idle", "prepare", "createFolder", "folderExists", "inspect",
           "checkDatabase", "checkUser"}
LockdownSteps == {"connectRevoked", "publicReowned", "publicRevoked", "pgGrant"}
PgSteps == {"pgUser", "pgDatabase", "pgUndoDatabase", "pgUndoUser"} \cup LockdownSteps
MySteps == {"myDatabase", "myUser", "myGrant", "myFlush", "myUndoUser", "myUndoDatabase"}
After == {"provisioned", "sync", "printCredentials", "printOffline", "synced", "offline"}
Working == PgSteps \cup MySteps \cup After
Ended == {"failed", "crashed"}

\* The steps a run takes only once it made its user, or its database.
UserSteps == {"pgDatabase", "myGrant", "myFlush"} \cup LockdownSteps \cup After
DbSteps == {"myUser", "myGrant", "myFlush"} \cup LockdownSteps \cup After

\* The steps it takes only once a statement has had its effect.
Granted == {"myFlush"} \cup After
Revoked == {"publicReowned", "publicRevoked", "pgGrant"} \cup After
Reowned == {"publicRevoked", "pgGrant"} \cup After
Isolated == {"pgGrant"} \cup After

----------------------------------------------------------------------------
(* The inductive invariant, said of a step l and locals j.                 *)

Db(j) == Options(j.req).db
User(j) == Options(j.req).user

\* What a run knows and has noted.
Notes(l, j) ==
    /\ l \in Before \cup Working \cup Ended
    /\ l \in PgSteps => j.engine = "postgres"
    /\ l \in MySteps => j.engine = "mysql"
    /\ l \in Working => j.engine \in Engines /\ ~j.dbThere /\ ~j.userThere
    /\ l \in {"checkUser"} \cup Working => Db(j) \in Databases /\ User(j) \in Users
    /\ l \in Before => ~j.dbMade /\ ~j.userMade
    /\ l \in UserSteps => j.userMade
    /\ l \in DbSteps => j.dbMade

\* What it made and has neither given up nor tried to drop.
HasUser(l, j) == j.userMade /\ l \notin Ended \cup {"myUndoDatabase"}
HasDb(l, j) == j.dbMade /\ l \notin Ended \cup {"pgUndoUser"}

\* What it made is still as it made it.
Holds(p, l, j) ==
    /\ HasUser(l, j) => role[j.engine][User(j)] = p
    /\ HasDb(l, j) =>
        /\ owner[j.engine][Db(j)] # Absent
        /\ j.engine = "postgres" => owner["postgres"][Db(j)] = User(j)
    /\ l \in Granted => User(j) \in access[j.engine][Db(j)]
    /\ j.engine = "postgres" =>
        /\ l \in Revoked => "connectRevoked" \in hardening["postgres"][Db(j)]
        /\ l \in Reowned => "publicReowned" \in hardening["postgres"][Db(j)]
        /\ l \in Isolated => "publicRevoked" \in hardening["postgres"][Db(j)]

\* No two runs made the same database.
NoSharing ==
    \A p, q \in Invocations :
        p # q /\ HasDb(pc[p], job[p]) /\ HasDb(pc[q], job[q]) =>
            job[p].engine # job[q].engine \/ Db(job[p]) # Db(job[q])

StrictInv ==
    /\ TypeInv
    /\ \A p \in Invocations : Notes(pc[p], job[p]) /\ Holds(p, pc[p], job[p])
    /\ NoSharing

\* What a step of p at l with locals j can do to the servers.
Effect(p, l, j) ==
    \/ UNCHANGED sqlVars
    \/ SetPassword(j.engine, User(j), p) /\ role[j.engine][User(j)] = Absent
    \/ DropRole(j.engine, User(j)) /\ HasUser(l, j)
    \/ \E o : CreateDb(j.engine, Db(j), o) /\ owner[j.engine][Db(j)] = Absent
    \/ DropDb(j.engine, Db(j)) /\ HasDb(l, j)
    \/ GrantAccess(j.engine, Db(j), User(j))
    \/ \E s \in Lockdown : Harden(j.engine, Db(j), s)

\* A run that holds something is past its checks, and the steps that need it
\* come only while it holds.
LEMMA HolderWorks ==
    ASSUME NEW l, NEW j, Notes(l, j)
    PROVE  /\ HasUser(l, j) \/ HasDb(l, j) => l \in Working
           /\ l \in Granted \cup Revoked \cup Reowned \cup Isolated => l \in Working
           /\ l \in Granted => HasUser(l, j) /\ HasDb(l, j)
           /\ l \in Revoked \cup Reowned \cup Isolated => HasDb(l, j)
  BY DEF Notes, HasUser, HasDb, Granted, Revoked, Reowned, Isolated, Working, PgSteps,
         LockdownSteps, MySteps, After, Before, Ended, UserSteps, DbSteps

\* Nobody's step disturbs what another run made.
LEMMA OthersKeep ==
    ASSUME StrictInv, NEW p \in Invocations, NEW q \in Invocations, p # q,
           Effect(p, pc[p], job[p]), NEW l, NEW j, l = pc[q], j = job[q]
    PROVE  Holds(q, l, j)'
  <1> DEFINE e == job[p].engine
             u == User(job[p])
             d == Db(job[p])
  <1>1. Notes(l, j) /\ Holds(q, l, j) /\ Notes(pc[p], job[p]) /\ Holds(p, pc[p], job[p])
    BY DEF StrictInv
  <1>2. role \in Roles /\ owner \in Owners /\ access \in Accesses /\ hardening \in Hardenings
    BY DEF StrictInv, TypeInv, TypeOK
  <1>3. q # Absent
    BY NamesAssumption DEF Values, Passwords
  <1>4. /\ HasUser(l, j) \/ HasDb(l, j) => l \in Working
        /\ l \in Granted => HasUser(l, j) /\ HasDb(l, j)
        /\ l \in Revoked \cup Reowned \cup Isolated => HasDb(l, j)
    BY <1>1, HolderWorks
  <1>5. l \in Working => j.engine \in Engines /\ Db(j) \in Databases /\ User(j) \in Users
    BY <1>1 DEF Notes
  <1>6. HasDb(pc[p], job[p]) /\ HasDb(l, j) => e # j.engine \/ d # Db(j)
    BY DEF StrictInv, NoSharing
  <1> HIDE DEF e, u, d
  <1>7. CASE UNCHANGED sqlVars
    BY <1>1, <1>7 DEF Holds, sqlVars
  <1>8. CASE SetPassword(e, u, p) /\ role[e][u] = Absent
    BY <1>1, <1>2, <1>3, <1>4, <1>5, <1>8 DEF Holds, SetPassword, Roles
  <1>9. CASE DropRole(e, u) /\ HasUser(pc[p], job[p])
    <2>1. role[e][u] = p
      BY <1>1, <1>9 DEF Holds, e, u
    <2>2. HasUser(l, j) => e # j.engine \/ u # User(j)
      BY <1>1, <2>1 DEF Holds
    <2> QED
      BY <1>1, <1>2, <1>4, <1>5, <1>9, <2>2 DEF Holds, DropRole, Roles, Accesses
  <1>10. CASE \E o : CreateDb(e, d, o) /\ owner[e][d] = Absent
    BY <1>1, <1>2, <1>4, <1>5, <1>10 DEF Holds, CreateDb, Owners, Hardenings
  <1>11. CASE DropDb(e, d) /\ HasDb(pc[p], job[p])
    BY <1>1, <1>2, <1>4, <1>5, <1>6, <1>11 DEF Holds, DropDb, Owners, Accesses, Hardenings
  <1>12. CASE GrantAccess(e, d, u)
    BY <1>1, <1>2, <1>4, <1>5, <1>12 DEF Holds, GrantAccess, Accesses
  <1>13. CASE \E s \in Lockdown : Harden(e, d, s)
    BY <1>1, <1>2, <1>4, <1>5, <1>13 DEF Holds, Harden, Hardenings
  <1> QED
    BY <1>7, <1>8, <1>9, <1>10, <1>11, <1>12, <1>13 DEF Effect, e, u, d

----------------------------------------------------------------------------
(* What every step of a run p comes to: it moves to a step l with locals j. *)

StrictMove(p) ==
    \E l \in Steps, j \in Job :
        /\ pc' = [pc EXCEPT ![p] = l] /\ job' = [job EXCEPT ![p] = j]
        /\ Notes(l, j)
        /\ Holds(p, l, j)'
        /\ Effect(p, pc[p], job[p])
        /\ HasDb(l, j) => /\ j.engine = job[p].engine /\ Db(j) = Db(job[p])
                          /\ HasDb(pc[p], job[p]) \/ owner[j.engine][Db(j)] = Absent

LEMMA StrictMovePreserves ==
    ASSUME StrictInv, NEW p \in Invocations, StrictMove(p), TypeInv'
    PROVE  StrictInv'
  <1>1. PICK l \in Steps, j \in Job :
            /\ pc' = [pc EXCEPT ![p] = l] /\ job' = [job EXCEPT ![p] = j]
            /\ Notes(l, j)
            /\ Holds(p, l, j)'
            /\ Effect(p, pc[p], job[p])
            /\ HasDb(l, j) => /\ j.engine = job[p].engine /\ Db(j) = Db(job[p])
                              /\ HasDb(pc[p], job[p]) \/ owner[j.engine][Db(j)] = Absent
    BY DEF StrictMove
  <1>2. /\ pc'[p] = l /\ job'[p] = j
        /\ \A q \in Invocations : q # p => pc'[q] = pc[q] /\ job'[q] = job[q]
    BY <1>1 DEF StrictInv, TypeInv, TypeOK
  <1>3. ASSUME NEW q \in Invocations
        PROVE  Notes(pc'[q], job'[q]) /\ Holds(q, pc[q], job[q])'
    <2>1. CASE q = p
      BY <1>1, <1>2, <2>1 DEF Holds
    <2>2. CASE q # p
      <3> DEFINE lq == pc[q]
                 jq == job[q]
      <3>1. Notes(lq, jq)
        BY DEF StrictInv
      <3>2. pc'[q] = lq /\ job'[q] = jq
        BY <1>2, <2>2
      <3> QED
        BY <1>1, <2>2, <3>1, <3>2, OthersKeep DEF Holds
    <2> QED
      BY <2>1, <2>2
  <1>4. NoSharing'
    <2>1. \A q \in Invocations : HasDb(pc[q], job[q]) => owner[job[q].engine][Db(job[q])] # Absent
      BY DEF StrictInv, Holds
    <2>2. ASSUME NEW q \in Invocations, q # p, HasDb(l, j), HasDb(pc[q], job[q])
          PROVE  j.engine # job[q].engine \/ Db(j) # Db(job[q])
      BY <1>1, <2>1, <2>2 DEF StrictInv, NoSharing
    <2> QED
      BY <1>2, <2>2 DEF StrictInv, NoSharing
  <1> QED
    BY <1>2, <1>3, <1>4 DEF StrictInv

----------------------------------------------------------------------------
(* The steps, one lemma for each command or adapter.                       *)

\* What a strict run is, by the names its code uses.
LEMMA StrictNames ==
    ASSUME StrictInv, StrictOnly, NEW p \in Invocations
    PROVE  /\ Engine(p) = job[p].engine /\ DbOf(p) = Db(job[p]) /\ UserOf(p) = User(job[p])
           /\ Request(p).cmd = "provision" /\ ~Request(p).adopt
           /\ job[p] \in Job
           /\ Notes(pc[p], job[p]) /\ Holds(p, pc[p], job[p])
           /\ \A l : Goto(p, l) => GotoWith(p, l, job[p])
  <1>1. TypeInv /\ Notes(pc[p], job[p]) /\ Holds(p, pc[p], job[p])
    BY DEF StrictInv
  <1>2. job[p] \in Job /\ Engine(p) = job[p].engine /\ Request(p) \in Requests
    BY <1>1, JobTypes
  <1>3. Request(p).cmd = "provision" /\ ~Request(p).adopt
    BY <1>2 DEF StrictOnly
  <1>4. DbOf(p) = Db(job[p]) /\ UserOf(p) = User(job[p])
    BY <1>3 DEF DbOf, UserOf, Db, User, Request
  <1>5. \A l : Goto(p, l) => GotoWith(p, l, job[p])
    BY <1>1 DEF TypeInv, TypeOK, Goto, GotoWith
  <1> QED
    BY <1>1, <1>2, <1>3, <1>4, <1>5

\* A step that leaves the servers alone, and claims no more than was held.
LEMMA QuietMove ==
    ASSUME StrictInv, TypeInv', NEW p \in Invocations, NEW l, NEW j,
           GotoWith(p, l, j), UNCHANGED sqlVars, Notes(l, j),
           j.engine = job[p].engine, j.req = job[p].req,
           HasUser(l, j) => HasUser(pc[p], job[p]), HasDb(l, j) => HasDb(pc[p], job[p]),
           l \in Granted => pc[p] \in Granted, l \in Revoked => pc[p] \in Revoked,
           l \in Reowned => pc[p] \in Reowned, l \in Isolated => pc[p] \in Isolated
    PROVE  StrictMove(p)
  <1>1. l \in Steps /\ j \in Job
    BY DEF StrictInv, TypeInv, TypeOK, GotoWith
  <1>2. Db(j) = Db(job[p]) /\ User(j) = User(job[p])
    BY DEF Db, User
  <1>3. Holds(p, l, j)'
    BY <1>2 DEF StrictInv, Holds, sqlVars
  <1>4. Effect(p, pc[p], job[p])
    BY DEF Effect
  <1> QED
    BY <1>1, <1>2, <1>3, <1>4 DEF StrictMove, GotoWith

\* Before its adapter's first statement a run has made nothing.
LEMMA EarlyMove ==
    ASSUME StrictInv, TypeInv', NEW p \in Invocations, NEW l, NEW j,
           GotoWith(p, l, j), UNCHANGED sqlVars, pc[p] \in Before,
           l \in Before \cup {"failed"},
           l = "checkUser" => Db(j) \in Databases /\ User(j) \in Users,
           j.engine = job[p].engine, j.req = job[p].req,
           j.dbMade = job[p].dbMade, j.userMade = job[p].userMade
    PROVE  StrictMove(p)
  <1>1. ~job[p].dbMade /\ ~job[p].userMade
    BY DEF StrictInv, Notes
  <1>2. Notes(l, j)
    BY <1>1 DEF Notes, Before, PgSteps, MySteps, LockdownSteps, After, Working, Ended, UserSteps,
           DbSteps
  <1>3. ~HasUser(l, j) /\ ~HasDb(l, j)
    BY <1>1 DEF HasUser, HasDb
  <1>4. l \notin Granted \cup Revoked \cup Reowned \cup Isolated
    BY DEF Granted, Revoked, Reowned, Isolated, After, Before
  <1> QED
    BY <1>2, <1>3, <1>4, QuietMove

\* After its adapter's last statement a run keeps to what it has.
LEMMA LateMove ==
    ASSUME StrictInv, TypeInv', NEW p \in Invocations, NEW l, NEW j,
           GotoWith(p, l, j), UNCHANGED sqlVars, pc[p] \in After,
           l \in After \cup {"failed"},
           \E S : j = [job[p] EXCEPT !.left = S]
    PROVE  StrictMove(p)
  <1>1. job[p] \in Job
    BY JobTypes DEF StrictInv
  <1>2. /\ j.engine = job[p].engine /\ j.req = job[p].req
        /\ j.dbMade = job[p].dbMade /\ j.userMade = job[p].userMade
        /\ j.dbThere = job[p].dbThere /\ j.userThere = job[p].userThere
    BY <1>1 DEF Job
  <1>3. Db(j) = Db(job[p]) /\ User(j) = User(job[p])
    BY <1>2 DEF Db, User
  <1>4. Notes(l, j)
    BY <1>2, <1>3 DEF StrictInv, Notes, Before, PgSteps, MySteps, LockdownSteps, After, Working,
           Ended, UserSteps, DbSteps
  <1>5. HasUser(l, j) => HasUser(pc[p], job[p])
    BY <1>2 DEF HasUser, After, Ended
  <1>6. HasDb(l, j) => HasDb(pc[p], job[p])
    BY <1>2 DEF HasDb, After, Ended
  <1>7. pc[p] \in Granted /\ pc[p] \in Revoked /\ pc[p] \in Reowned /\ pc[p] \in Isolated
    BY DEF Granted, Revoked, Reowned, Isolated
  <1> QED
    BY <1>2, <1>4, <1>5, <1>6, <1>7, QuietMove

LEMMA ProvisionMoves ==
    ASSUME StrictInv, StrictOnly, TypeInv', NEW p \in Invocations, ProvisionStep(p)
    PROVE  StrictMove(p)
  <1> DEFINE j == job[p]
  <1>0. /\ Engine(p) = j.engine /\ DbOf(p) = Db(j) /\ UserOf(p) = User(j)
        /\ ~Request(p).adopt /\ j \in Job /\ Notes(pc[p], j)
        /\ \A l : Goto(p, l) => GotoWith(p, l, j)
    BY StrictNames
  <1>1. ASSUME NEW l \in Before \cup {"failed"}, l # "checkUser", Goto(p, l),
               pc[p] \in Before, UNCHANGED sqlVars
        PROVE  StrictMove(p)
    BY <1>0, <1>1, EarlyMove
  <1>2. ASSUME NEW l \in After \cup {"failed"}, Goto(p, l),
               pc[p] \in After, UNCHANGED sqlVars
        PROVE  StrictMove(p)
    <2>1. j = [j EXCEPT !.left = j.left]
      BY <1>0 DEF Job
    <2> QED
      BY <1>0, <1>2, <2>1, LateMove
  <1>3. CASE Prepare(p)
    BY <1>1, <1>3 DEF Prepare, Local, At, Before, sqlVars
  <1>4. CASE CreateFolder(p)
    BY <1>1, <1>4 DEF CreateFolder, VaultCall, Call, At, Before, sqlVars
  <1>5. CASE FolderExists(p)
    BY <1>1, <1>5 DEF FolderExists, Read, At, Before, sqlVars
  <1>6. CASE Inspect(p)
    <2>1. UNCHANGED sqlVars /\ pc[p] = "inspect"
      BY <1>6 DEF Inspect, Read, At, sqlVars
    <2>2. CASE Goto(p, "failed")
      BY <1>1, <2>1, <2>2 DEF Before
    <2>3. CASE GotoWith(p, "checkDatabase", [job[p] EXCEPT !.seen = secrets[Site(p)]])
      BY <1>0, <2>1, <2>3, EarlyMove DEF Before, Job
    <2> QED
      BY <1>6, <2>2, <2>3 DEF Inspect, Read
  <1>7. CASE CheckDatabase(p)
    <2>1. UNCHANGED sqlVars /\ pc[p] = "checkDatabase"
      BY <1>7 DEF CheckDatabase, Read, At, sqlVars
    <2>2. CASE Goto(p, "failed")
      BY <1>1, <2>1, <2>2 DEF Before
    <2>3. CASE /\ ValidOptions(p)
               /\ GotoWith(p, "checkUser", [job[p] EXCEPT !.dbThere = DbExists(Engine(p), DbOf(p))])
      <3>1. Db(j) \in Databases /\ User(j) \in Users
        BY <1>0, <2>3 DEF ValidOptions, ValidNames
      <3>2. \A b : Db([j EXCEPT !.dbThere = b]) = Db(j) /\ User([j EXCEPT !.dbThere = b]) = User(j)
        BY <1>0 DEF Db, User, Job
      <3> QED
        BY <1>0, <2>1, <2>3, <3>1, <3>2, EarlyMove DEF Before, Job
    <2> QED
      BY <1>7, <2>2, <2>3 DEF CheckDatabase, Read
  <1>8. CASE CheckUser(p)
    <2>1. UNCHANGED sqlVars /\ pc[p] = "checkUser"
      BY <1>8 DEF CheckUser, Read, At, sqlVars
    <2>2. CASE Goto(p, "failed")
      BY <1>1, <2>1, <2>2 DEF Before
    <2>3. CASE /\ ~(j.dbThere \/ RoleExists(Engine(p), UserOf(p)))
               /\ GotoWith(p, FirstStatement[Engine(p)],
                           [job[p] EXCEPT !.userThere = RoleExists(Engine(p), UserOf(p))])
      <3> DEFINE i == [j EXCEPT !.userThere = FALSE]
                 l == FirstStatement[j.engine]
      <3>1. GotoWith(p, l, i)
        BY <1>0, <2>3 DEF RoleExists
      <3>2. i = [j EXCEPT !.userThere = FALSE] /\ Db(i) = Db(j) /\ User(i) = User(j)
        BY <1>0 DEF Db, User, Job
      <3>3. j.engine \in Engines
        BY <2>1, WorkingEngine DEF StrictInv, Finished, Engine
      <3>4. /\ (j.engine = "postgres" /\ l = "pgUser") \/ (j.engine = "mysql" /\ l = "myDatabase")
            /\ i.engine = j.engine /\ i.req = j.req /\ ~i.dbThere /\ ~i.userThere
            /\ ~i.dbMade /\ ~i.userMade
        <4>1. ~j.dbMade /\ ~j.userMade
          BY <1>0, <2>1 DEF Notes, Before
        <4>2. (j.engine = "postgres" /\ l = "pgUser") \/ (j.engine = "mysql" /\ l = "myDatabase")
          BY <3>3 DEF FirstStatement, Engines
        <4>3. /\ i.engine = j.engine /\ i.req = j.req /\ i.userThere = FALSE
              /\ i.dbThere = j.dbThere /\ i.dbMade = j.dbMade /\ i.userMade = j.userMade
          BY <1>0 DEF Job
        <4> QED
          BY <2>3, <4>1, <4>2, <4>3
      <3>5. Notes(l, i)
        BY <1>0, <2>1, <3>2, <3>3, <3>4 DEF Notes, Before, PgSteps, MySteps, LockdownSteps, After,
               Working, Ended, UserSteps, DbSteps
      <3>6. ~HasUser(l, i) /\ ~HasDb(l, i)
        BY <3>4 DEF HasUser, HasDb
      <3>7. l \notin Granted \cup Revoked \cup Reowned \cup Isolated
        BY <3>4 DEF Granted, Revoked, Reowned, Isolated, After
      <3> QED
        BY <2>1, <3>1, <3>4, <3>5, <3>6, <3>7, QuietMove
    <2> QED
      BY <1>0, <1>8, <2>2, <2>3 DEF CheckUser, Read
  <1>9. CASE Provisioned(p)
    <2>1. UNCHANGED sqlVars /\ pc[p] = "provisioned"
      BY <1>9 DEF Provisioned, Local, At, sqlVars
    <2> QED
      BY <1>2, <1>9, <2>1, LateMove DEF Provisioned, Local, After
  <1>10. CASE Sync(p)
    <2>1. UNCHANGED sqlVars /\ pc[p] = "sync"
      BY <1>10 DEF Sync, VaultCall, At, sqlVars
    <2>2. \/ Goto(p, "printCredentials")
          \/ GotoWith(p, "sync", [job[p] EXCEPT !.left = @ \ {NextOperation(Plan(p), job[p].left)}])
      BY <1>10 DEF Sync, VaultCall, Call
    <2> QED
      BY <1>2, <2>1, <2>2, LateMove DEF After
  <1>11. CASE SyncDone(p)
    BY <1>2, <1>11 DEF SyncDone, Local, At, After, sqlVars
  <1>12. CASE PrintCredentials(p)
    BY <1>2, <1>12 DEF PrintCredentials, PrintsPassword, At, After, sqlVars
  <1> QED
    BY <1>3, <1>4, <1>5, <1>6, <1>7, <1>8, <1>9, <1>10, <1>11, <1>12 DEF ProvisionStep

\* What has to be shown of a step that changes the servers.
LEMMA LoudMove ==
    ASSUME StrictInv, TypeInv', NEW p \in Invocations, NEW l, NEW j,
           GotoWith(p, l, j), j.engine = job[p].engine, j.req = job[p].req,
           Notes(l, j), Holds(p, l, j)', Effect(p, pc[p], job[p]),
           HasDb(l, j) => HasDb(pc[p], job[p]) \/ owner[j.engine][Db(j)] = Absent
    PROVE  StrictMove(p)
  <1>1. l \in Steps /\ j \in Job
    BY DEF StrictInv, TypeInv, TypeOK, GotoWith
  <1>2. Db(j) = Db(job[p])
    BY DEF Db
  <1> QED
    BY <1>1, <1>2 DEF StrictMove, GotoWith

\* Noting what it made changes nothing else a run knows.
LEMMA Noting ==
    ASSUME NEW j \in Job, NEW i,
           \/ i = [j EXCEPT !.userMade = TRUE]
           \/ i = [j EXCEPT !.dbMade = TRUE]
    PROVE  /\ i.engine = j.engine /\ i.req = j.req /\ Db(i) = Db(j) /\ User(i) = User(j)
           /\ i.dbThere = j.dbThere /\ i.userThere = j.userThere
  <1>1. i.engine = j.engine /\ i.req = j.req /\ i.dbThere = j.dbThere /\ i.userThere = j.userThere
    BY DEF Job
  <1> QED
    BY <1>1 DEF Db, User

LEMMA PgMoves ==
    ASSUME StrictInv, StrictOnly, TypeInv', NEW p \in Invocations, PgStep(p), pc[p] \in Working
    PROVE  StrictMove(p)
  <1>1. PICK j \in Job : j = job[p]
    BY StrictNames
  <1> DEFINE d == Db(j)
             u == User(j)
  <1>2. /\ Engine(p) = j.engine /\ DbOf(p) = d /\ UserOf(p) = u
        /\ Notes(pc[p], j) /\ Holds(p, pc[p], j)
        /\ \A l : Goto(p, l) => GotoWith(p, l, j)
    BY <1>1, StrictNames
  <1>3. d \in Databases /\ u \in Users /\ ~j.dbThere /\ ~j.userThere
    BY <1>2 DEF Notes
  <1>4. pc[p] \in PgSteps => j.engine = "postgres"
    BY <1>2 DEF Notes
  <1>5. role \in Roles /\ owner \in Owners /\ access \in Accesses /\ hardening \in Hardenings
    BY DEF StrictInv, TypeInv, TypeOK
  <1> HIDE DEF d, u
  \* A statement without effect that fails.
  <1>7. ASSUME pc[p] \in PgSteps \ {"pgUndoUser"}, Goto(p, "pgUndoDatabase"), UNCHANGED sqlVars
        PROVE  StrictMove(p)
    <2>1. Notes("pgUndoDatabase", j)
      BY <1>2, <1>3, <1>4, <1>7 DEF Notes, Before, PgSteps, MySteps, LockdownSteps, After, Working,
             Ended, UserSteps, DbSteps, d, u
    <2>2. HasUser(pc[p], j) = HasUser("pgUndoDatabase", j) /\ HasDb(pc[p], j) = HasDb("pgUndoDatabase", j)
      BY <1>7 DEF HasUser, HasDb, PgSteps, LockdownSteps, Ended
    <2>3. "pgUndoDatabase" \notin Granted \cup Revoked \cup Reowned \cup Isolated
      BY DEF Granted, Revoked, Reowned, Isolated, After
    <2> QED
      BY <1>1, <1>2, <1>7, <2>1, <2>2, <2>3, QuietMove
  \* A statement that fails although it had its effect.
  <1>8. ASSUME pc[p] \in PgSteps \ {"pgUndoUser"}, Goto(p, "pgUndoDatabase"),
               Holds(p, "pgUndoDatabase", j)', Effect(p, pc[p], j)
        PROVE  StrictMove(p)
    <2>1. Notes("pgUndoDatabase", j)
      BY <1>2, <1>3, <1>4, <1>8 DEF Notes, Before, PgSteps, MySteps, LockdownSteps, After, Working,
             Ended, UserSteps, DbSteps, d, u
    <2>2. HasDb(pc[p], j) = HasDb("pgUndoDatabase", j)
      BY <1>8 DEF HasDb, PgSteps, LockdownSteps, Ended
    <2> QED
      BY <1>1, <1>2, <1>8, <2>1, <2>2, LoudMove
  <1>9. CASE PgUser(p)
    <2>1. pc[p] = "pgUser" /\ pc[p] \in PgSteps \ {"pgUndoUser"} /\ j.engine = "postgres"
      BY <1>4, <1>9 DEF PgUser, At, PgSteps
    <2>2. CASE UNCHANGED sqlVars /\ Goto(p, "pgUndoDatabase")
      BY <1>7, <2>1, <2>2
    <2>3. ASSUME ~RoleExists(Pg, u), SetPassword(Pg, u, p)
          PROVE  /\ Effect(p, pc[p], j)
                 /\ role'["postgres"][u] = p /\ UNCHANGED <<owner, access, hardening>>
      BY <1>3, <1>5, <2>1, <2>3 DEF Effect, RoleExists, SetPassword, Roles, Pg, u, Engines
    <2>4. CASE ~RoleExists(Pg, u) /\ SetPassword(Pg, u, p) /\ Goto(p, "pgUndoDatabase")
      <3>1. Holds(p, "pgUndoDatabase", j)'
        BY <1>2, <2>1, <2>3, <2>4 DEF Holds, HasUser, HasDb, Ended, Granted, Revoked, Reowned, Isolated,
               After, u
      <3> QED
        BY <1>8, <2>1, <2>3, <2>4, <3>1
    <2>5. CASE /\ ~RoleExists(Pg, u) /\ SetPassword(Pg, u, p)
               /\ GotoWith(p, "pgDatabase", [job[p] EXCEPT !.userMade = TRUE])
      <3>1. PICK i \in Job : i = [j EXCEPT !.userMade = TRUE]
        BY DEF Job
      <3>2. /\ i.engine = j.engine /\ i.req = j.req /\ Db(i) = d /\ User(i) = u
            /\ i.dbThere = j.dbThere /\ i.userThere = j.userThere
        BY <3>1, Noting DEF d, u
      <3>3. i.userMade /\ i.dbMade = j.dbMade
        BY <3>1 DEF Job
      <3>4. Notes("pgDatabase", i)
        BY <1>3, <2>1, <3>2, <3>3 DEF Notes, Before, PgSteps, MySteps, LockdownSteps, After, Working,
               Ended, UserSteps, DbSteps, Engines
      <3>5. HasDb("pgDatabase", i) => HasDb(pc[p], j)
        BY <2>1, <3>3 DEF HasDb, Ended
      <3>6. Holds(p, "pgDatabase", i)'
        BY <1>2, <2>1, <2>3, <2>5, <3>2, <3>5 DEF Holds, Granted, Revoked, Reowned, Isolated, After, d, u
      <3> QED
        BY <1>1, <2>3, <2>5, <3>1, <3>2, <3>4, <3>5, <3>6, LoudMove
    <2> QED
      BY <1>1, <1>2, <1>3, <1>9, <2>2, <2>4, <2>5 DEF PgUser, SqlCall, Call
  <1>10. CASE PgDatabase(p)
    <2>1. pc[p] = "pgDatabase" /\ pc[p] \in PgSteps \ {"pgUndoUser"} /\ j.engine = "postgres"
      BY <1>4, <1>10 DEF PgDatabase, At, PgSteps
    <2>2. CASE UNCHANGED sqlVars /\ Goto(p, "pgUndoDatabase")
      BY <1>7, <2>1, <2>2
    <2>3. ASSUME ~DbExists(Pg, d), CreateDb(Pg, d, u)
          PROVE  /\ Effect(p, pc[p], j) /\ owner["postgres"][d] = Absent
                 /\ owner'["postgres"][d] = u /\ UNCHANGED <<role, access>>
      BY <1>3, <1>5, <2>1, <2>3 DEF Effect, DbExists, CreateDb, Owners, Pg, d, Engines
    <2>4. CASE ~DbExists(Pg, d) /\ CreateDb(Pg, d, u) /\ Goto(p, "pgUndoDatabase")
      <3>1. ~HasDb("pgUndoDatabase", j)
        BY <1>2, <2>1, <2>3, <2>4 DEF Holds, HasDb, Ended, d
      <3>2. Holds(p, "pgUndoDatabase", j)'
        BY <1>2, <2>1, <2>3, <2>4, <3>1 DEF Holds, HasUser, Ended, Granted, Revoked, Reowned, Isolated,
               After, d, u
      <3> QED
        BY <1>8, <2>1, <2>3, <2>4, <3>2
    <2>5. CASE /\ ~DbExists(Pg, d) /\ CreateDb(Pg, d, u)
               /\ GotoWith(p, "connectRevoked", [job[p] EXCEPT !.dbMade = TRUE])
      <3>1. PICK i \in Job : i = [j EXCEPT !.dbMade = TRUE]
        BY DEF Job
      <3>2. /\ i.engine = j.engine /\ i.req = j.req /\ Db(i) = d /\ User(i) = u
            /\ i.dbThere = j.dbThere /\ i.userThere = j.userThere
        BY <3>1, Noting DEF d, u
      <3>3. i.dbMade /\ i.userMade = j.userMade
        BY <3>1 DEF Job
      <3>4. j.userMade
        BY <1>2, <2>1 DEF Notes, UserSteps
      <3>5. Notes("connectRevoked", i)
        BY <1>3, <2>1, <3>2, <3>3, <3>4 DEF Notes, Before, PgSteps, MySteps, LockdownSteps, After, Working,
               Ended, UserSteps, DbSteps, Engines
      <3>6. role["postgres"][u] = p
        BY <1>2, <2>1, <3>4 DEF Holds, HasUser, Ended, u
      <3>7. u # Absent
        BY <1>3, NamesAssumption DEF Values
      <3>8. Holds(p, "connectRevoked", i)'
        BY <2>1, <2>3, <2>5, <3>2, <3>6, <3>7 DEF Holds, Granted, Revoked, Reowned, Isolated, After
      <3> QED
        BY <1>1, <2>1, <2>3, <2>5, <3>1, <3>2, <3>5, <3>8, LoudMove
    <2> QED
      BY <1>1, <1>2, <1>3, <1>10, <2>2, <2>4, <2>5 DEF PgDatabase, SqlCall, Call
  \* From here to the end of the adapter the run has its user and database.
  <1>11. ASSUME NEW s \in Lockdown, NEW next, LockdownStep(p, s, next),
                next \in {"publicReowned", "publicRevoked", "pgGrant"},
                next \in Revoked => s = "connectRevoked" \/ s \in Revoked,
                next \in Reowned => s = "publicReowned" \/ s \in Reowned,
                next \in Isolated => s = "publicRevoked" \/ s \in Isolated
         PROVE  StrictMove(p)
    <2>1. pc[p] = s /\ pc[p] \in PgSteps \ {"pgUndoUser"} /\ j.engine = "postgres"
      BY <1>4, <1>11 DEF LockdownStep, At, PgSteps, LockdownSteps, Lockdown
    <2>2. CASE UNCHANGED sqlVars /\ Goto(p, "pgUndoDatabase")
      BY <1>7, <2>1, <2>2
    <2>3. ASSUME Harden(Pg, d, s)
          PROVE  /\ Effect(p, pc[p], j) /\ UNCHANGED <<role, owner, access>>
                 /\ hardening'["postgres"][d] = hardening["postgres"][d] \cup {s}
      BY <1>3, <1>5, <2>1, <2>3 DEF Effect, Harden, Hardenings, Pg, d, Engines
    <2>4. CASE Harden(Pg, d, s) /\ Goto(p, "pgUndoDatabase")
      <3>1. Holds(p, "pgUndoDatabase", j)'
        BY <1>2, <2>1, <2>3, <2>4 DEF Holds, HasUser, HasDb, Ended, Granted, Revoked, Reowned, Isolated,
               After, PgSteps, LockdownSteps
      <3> QED
        BY <1>8, <2>1, <2>3, <2>4, <3>1
    <2>5. CASE Harden(Pg, d, s) /\ Goto(p, next)
      <3>1. Notes(next, j)
        BY <1>2, <1>3, <1>11, <2>1 DEF Notes, Before, PgSteps, MySteps, LockdownSteps, After, Working,
               Ended, UserSteps, DbSteps, Engines, Lockdown, d, u
      <3>2. HasUser(pc[p], j) /\ HasDb(pc[p], j)
        BY <1>2, <2>1 DEF Notes, HasUser, HasDb, Ended, UserSteps, DbSteps, LockdownSteps, Lockdown
      <3>3. next \notin Granted
        BY <1>11 DEF Granted, After
      <3>4. Holds(p, next, j)'
        BY <1>2, <1>11, <2>1, <2>3, <2>5, <3>2, <3>3 DEF Holds, d
      <3> QED
        BY <1>1, <1>2, <2>3, <2>5, <3>1, <3>2, <3>4, LoudMove
    <2> QED
      BY <1>2, <1>11, <2>2, <2>4, <2>5 DEF LockdownStep, SqlCall, Call
  <1>12. CASE PgLockdown(p)
    BY <1>11, <1>12 DEF PgLockdown, Lockdown, Revoked, Reowned, Isolated, After
  <1>13. CASE PgGrant(p)
    <2>1. pc[p] = "pgGrant" /\ pc[p] \in PgSteps \ {"pgUndoUser"} /\ j.engine = "postgres"
      BY <1>4, <1>13 DEF PgGrant, At, PgSteps, LockdownSteps
    <2>2. CASE UNCHANGED sqlVars /\ Goto(p, "pgUndoDatabase")
      BY <1>7, <2>1, <2>2
    <2>3. ASSUME GrantAccess(Pg, d, u)
          PROVE  /\ Effect(p, pc[p], j) /\ UNCHANGED <<role, owner, hardening>>
                 /\ u \in access'["postgres"][d]
      BY <1>3, <1>5, <2>1, <2>3 DEF Effect, GrantAccess, Accesses, Pg, d, u, Engines
    <2>4. CASE GrantAccess(Pg, d, u) /\ Goto(p, "pgUndoDatabase")
      <3>1. Holds(p, "pgUndoDatabase", j)'
        BY <1>2, <2>1, <2>3, <2>4 DEF Holds, HasUser, HasDb, Ended, Granted, Revoked, Reowned, Isolated,
               After
      <3> QED
        BY <1>8, <2>1, <2>3, <2>4, <3>1
    <2>5. CASE GrantAccess(Pg, d, u) /\ Goto(p, "provisioned")
      <3>1. Notes("provisioned", j)
        BY <1>2, <1>3, <2>1 DEF Notes, Before, PgSteps, MySteps, LockdownSteps, After, Working,
               Ended, UserSteps, DbSteps, Engines, d, u
      <3>2. HasUser(pc[p], j) /\ HasDb(pc[p], j)
        BY <1>2, <2>1 DEF Notes, HasUser, HasDb, Ended, UserSteps, DbSteps, LockdownSteps
      <3>3. pc[p] \in Revoked /\ pc[p] \in Reowned /\ pc[p] \in Isolated
        BY <2>1 DEF Revoked, Reowned, Isolated
      <3>4. Holds(p, "provisioned", j)'
        BY <1>2, <2>1, <2>3, <2>5, <3>2, <3>3 DEF Holds, d, u
      <3> QED
        BY <1>1, <1>2, <2>3, <2>5, <3>1, <3>2, <3>4, LoudMove
    <2> QED
      BY <1>2, <1>13, <2>2, <2>4, <2>5 DEF PgGrant, SqlCall, Call
  <1>14. CASE PgUndoDatabase(p)
    <2>1. pc[p] = "pgUndoDatabase" /\ j.engine = "postgres"
      BY <1>4, <1>14 DEF PgUndoDatabase, At, PgSteps
    <2>2. /\ Notes("pgUndoUser", j) /\ ~HasDb("pgUndoUser", j)
          /\ HasUser(pc[p], j) = HasUser("pgUndoUser", j)
          /\ "pgUndoUser" \notin Granted \cup Revoked \cup Reowned \cup Isolated
      BY <1>2, <1>3, <2>1 DEF Notes, Before, PgSteps, MySteps, LockdownSteps, After, Working,
               Ended, UserSteps, DbSteps, Engines, HasUser, HasDb, Granted, Revoked, Reowned,
             Isolated, d, u
    <2>3. CASE UNCHANGED sqlVars /\ Goto(p, "pgUndoUser")
      BY <1>1, <1>2, <2>2, <2>3, QuietMove
    <2>4. CASE j.dbMade /\ DropDb(Pg, d) /\ Goto(p, "pgUndoUser")
      <3>1. Effect(p, pc[p], j)
        BY <2>1, <2>4 DEF Effect, HasDb, Ended, Pg, d
      <3>2. Holds(p, "pgUndoUser", j)'
        BY <1>2, <2>2, <2>4 DEF Holds, DropDb
      <3> QED
        BY <1>1, <1>2, <2>2, <2>4, <3>1, <3>2, LoudMove
    <2> QED
      BY <1>1, <1>2, <1>14, <2>3, <2>4 DEF PgUndoDatabase, SqlCall, Call, Local, sqlVars
  <1>15. CASE PgUndoUser(p)
    <2>1. pc[p] = "pgUndoUser" /\ j.engine = "postgres"
      BY <1>4, <1>15 DEF PgUndoUser, At, PgSteps
    <2>2. /\ Notes("failed", j) /\ ~HasUser("failed", j) /\ ~HasDb("failed", j)
          /\ "failed" \notin Granted \cup Revoked \cup Reowned \cup Isolated
      BY DEF Notes, Before, PgSteps, MySteps, LockdownSteps, After, Working,
               Ended, UserSteps, DbSteps, Engines, HasUser, HasDb, Granted, Revoked, Reowned, Isolated
    <2>3. CASE UNCHANGED sqlVars /\ Goto(p, "failed")
      BY <1>1, <1>2, <2>2, <2>3, QuietMove
    <2>4. CASE j.userMade /\ DropRole(Pg, u) /\ Goto(p, "failed")
      <3>1. Effect(p, pc[p], j)
        BY <2>1, <2>4 DEF Effect, HasUser, Ended, Pg, u
      <3>2. Holds(p, "failed", j)'
        BY <2>2 DEF Holds
      <3> QED
        BY <1>1, <1>2, <2>2, <2>4, <3>1, <3>2, LoudMove
    <2> QED
      BY <1>1, <1>2, <1>15, <2>3, <2>4 DEF PgUndoUser, SqlCall, Call, Local, sqlVars
  <1>16. ~PgDropDatabase(p) /\ ~PgDropUser(p)
    BY DEF PgDropDatabase, PgDropUser, At, Working, PgSteps, MySteps, LockdownSteps, After
  <1> QED
    BY <1>9, <1>10, <1>12, <1>13, <1>14, <1>15, <1>16 DEF PgStep

LEMMA MyMoves ==
    ASSUME StrictInv, StrictOnly, TypeInv', NEW p \in Invocations, MyStep(p), pc[p] \in Working
    PROVE  StrictMove(p)
  <1>1. PICK j \in Job : j = job[p]
    BY StrictNames
  <1> DEFINE d == Db(j)
             u == User(j)
  <1>2. /\ Engine(p) = j.engine /\ DbOf(p) = d /\ UserOf(p) = u
        /\ Notes(pc[p], j) /\ Holds(p, pc[p], j)
        /\ \A l : Goto(p, l) => GotoWith(p, l, j)
    BY <1>1, StrictNames
  <1>3. d \in Databases /\ u \in Users /\ ~j.dbThere /\ ~j.userThere
    BY <1>2 DEF Notes
  <1>4. pc[p] \in MySteps => j.engine = "mysql"
    BY <1>2 DEF Notes
  <1>5. role \in Roles /\ owner \in Owners /\ access \in Accesses /\ hardening \in Hardenings
    BY DEF StrictInv, TypeInv, TypeOK
  <1> HIDE DEF d, u
  \* A statement that fails, whether or not it had its effect.
  <1>6. ASSUME pc[p] \in MySteps \ {"myUndoUser", "myUndoDatabase"}, Goto(p, "myUndoUser"),
               Holds(p, "myUndoUser", j)', Effect(p, pc[p], j)
        PROVE  StrictMove(p)
    <2>1. Notes("myUndoUser", j)
      BY <1>2, <1>3, <1>4, <1>6 DEF Notes, Before, PgSteps, MySteps, LockdownSteps, After, Working,
               Ended, UserSteps, DbSteps, Engines, d, u
    <2>2. HasDb(pc[p], j) = HasDb("myUndoUser", j)
      BY <1>6 DEF HasDb, MySteps, Ended
    <2> QED
      BY <1>1, <1>2, <1>6, <2>1, <2>2, LoudMove
  <1>7. ASSUME pc[p] \in MySteps \ {"myUndoUser", "myUndoDatabase"}, Goto(p, "myUndoUser"),
               UNCHANGED sqlVars
        PROVE  StrictMove(p)
    <2>1. HasUser(pc[p], j) = HasUser("myUndoUser", j) /\ HasDb(pc[p], j) = HasDb("myUndoUser", j)
      BY <1>7 DEF HasUser, HasDb, MySteps, Ended
    <2>2. "myUndoUser" \notin Granted \cup Revoked \cup Reowned \cup Isolated
      BY DEF Granted, Revoked, Reowned, Isolated, After
    <2>3. Holds(p, "myUndoUser", j)'
      BY <1>2, <1>7, <2>1, <2>2 DEF Holds, sqlVars
    <2> QED
      BY <1>6, <1>7, <2>3 DEF Effect
  <1>8. CASE MyDatabase(p)
    <2>1. pc[p] = "myDatabase" /\ pc[p] \in MySteps \ {"myUndoUser", "myUndoDatabase"} /\ j.engine = "mysql"
      BY <1>4, <1>8 DEF MyDatabase, At, MySteps
    <2>2. CASE UNCHANGED sqlVars /\ Goto(p, "myUndoUser")
      BY <1>7, <2>1, <2>2
    <2>3. ASSUME ~DbExists(My, d), CreateDb(My, d, Admin)
          PROVE  /\ Effect(p, pc[p], j) /\ owner["mysql"][d] = Absent
                 /\ owner'["mysql"][d] = Admin /\ UNCHANGED <<role, access>>
      BY <1>3, <1>5, <2>1, <2>3 DEF Effect, DbExists, CreateDb, Owners, My, d, Engines
    <2>4. CASE ~DbExists(My, d) /\ CreateDb(My, d, Admin) /\ Goto(p, "myUndoUser")
      <3>1. ~HasDb("myUndoUser", j)
        BY <1>2, <2>1, <2>3, <2>4 DEF Holds, HasDb, Ended, d
      <3>2. Holds(p, "myUndoUser", j)'
        BY <1>2, <2>1, <2>3, <2>4, <3>1 DEF Holds, HasUser, Ended, Granted, After
      <3> QED
        BY <1>6, <2>1, <2>3, <2>4, <3>2
    <2>5. CASE /\ ~DbExists(My, d) /\ CreateDb(My, d, Admin)
               /\ GotoWith(p, "myUser", [job[p] EXCEPT !.dbMade = TRUE])
      <3>1. PICK i \in Job : i = [j EXCEPT !.dbMade = TRUE]
        BY DEF Job
      <3>2. /\ i.engine = j.engine /\ i.req = j.req /\ Db(i) = d /\ User(i) = u
            /\ i.dbThere = j.dbThere /\ i.userThere = j.userThere
        BY <3>1, Noting DEF d, u
      <3>3. i.dbMade /\ i.userMade = j.userMade
        BY <3>1 DEF Job
      <3>4. Notes("myUser", i)
        BY <1>3, <2>1, <3>2, <3>3 DEF Notes, Before, PgSteps, MySteps, LockdownSteps, After, Working,
               Ended, UserSteps, DbSteps, Engines
      <3>5. HasUser("myUser", i) => HasUser(pc[p], j)
        BY <2>1, <3>3 DEF HasUser, Ended
      <3>6. Holds(p, "myUser", i)'
        BY <1>2, <2>1, <2>3, <2>5, <3>2, <3>5, NamesAssumption DEF Holds, Granted, After, d, u
      <3> QED
        BY <1>1, <2>1, <2>3, <2>5, <3>1, <3>2, <3>4, <3>6, LoudMove
    <2> QED
      BY <1>1, <1>2, <1>3, <1>8, <2>2, <2>4, <2>5 DEF MyDatabase, SqlCall, Call
  <1>9. CASE MyUser(p)
    <2>1. pc[p] = "myUser" /\ pc[p] \in MySteps \ {"myUndoUser", "myUndoDatabase"} /\ j.engine = "mysql"
      BY <1>4, <1>9 DEF MyUser, At, MySteps
    <2>2. CASE UNCHANGED sqlVars /\ Goto(p, "myUndoUser")
      BY <1>7, <2>1, <2>2
    <2>3. ASSUME ~RoleExists(My, u), SetPassword(My, u, p)
          PROVE  /\ Effect(p, pc[p], j)
                 /\ role'["mysql"][u] = p /\ UNCHANGED <<owner, access, hardening>>
      BY <1>3, <1>5, <2>1, <2>3 DEF Effect, RoleExists, SetPassword, Roles, My, u, Engines
    <2>4. CASE ~RoleExists(My, u) /\ SetPassword(My, u, p) /\ Goto(p, "myUndoUser")
      <3>1. Holds(p, "myUndoUser", j)'
        BY <1>2, <2>1, <2>3, <2>4 DEF Holds, HasUser, HasDb, Ended, Granted, After, u
      <3> QED
        BY <1>6, <2>1, <2>3, <2>4, <3>1
    <2>5. CASE /\ ~RoleExists(My, u) /\ SetPassword(My, u, p)
               /\ GotoWith(p, "myGrant", [job[p] EXCEPT !.userMade = TRUE])
      <3>1. PICK i \in Job : i = [j EXCEPT !.userMade = TRUE]
        BY DEF Job
      <3>2. /\ i.engine = j.engine /\ i.req = j.req /\ Db(i) = d /\ User(i) = u
            /\ i.dbThere = j.dbThere /\ i.userThere = j.userThere
        BY <3>1, Noting DEF d, u
      <3>3. i.userMade /\ i.dbMade = j.dbMade /\ j.dbMade
        BY <1>2, <2>1, <3>1 DEF Job, Notes, DbSteps
      <3>4. Notes("myGrant", i)
        BY <1>3, <2>1, <3>2, <3>3 DEF Notes, Before, PgSteps, MySteps, LockdownSteps, After, Working,
               Ended, UserSteps, DbSteps, Engines
      <3>5. HasDb("myGrant", i) => HasDb(pc[p], j)
        BY <2>1, <3>3 DEF HasDb, Ended
      <3>6. Holds(p, "myGrant", i)'
        BY <1>2, <2>1, <2>3, <2>5, <3>2, <3>5 DEF Holds, Granted, After, d, u
      <3> QED
        BY <1>1, <2>3, <2>5, <3>1, <3>2, <3>4, <3>5, <3>6, LoudMove
    <2> QED
      BY <1>1, <1>2, <1>3, <1>9, <2>2, <2>4, <2>5 DEF MyUser, SqlCall, Call
  <1>10. CASE MyGrant(p)
    <2>1. pc[p] = "myGrant" /\ pc[p] \in MySteps \ {"myUndoUser", "myUndoDatabase"} /\ j.engine = "mysql"
      BY <1>4, <1>10 DEF MyGrant, At, MySteps
    <2>2. CASE UNCHANGED sqlVars /\ Goto(p, "myUndoUser")
      BY <1>7, <2>1, <2>2
    <2>3. ASSUME GrantAccess(My, d, u)
          PROVE  /\ Effect(p, pc[p], j) /\ UNCHANGED <<role, owner, hardening>>
                 /\ u \in access'["mysql"][d]
      BY <1>3, <1>5, <2>1, <2>3 DEF Effect, GrantAccess, Accesses, My, d, u, Engines
    <2>4. CASE GrantAccess(My, d, u) /\ Goto(p, "myUndoUser")
      <3>1. Holds(p, "myUndoUser", j)'
        BY <1>2, <2>1, <2>3, <2>4 DEF Holds, HasUser, HasDb, Ended, Granted, After
      <3> QED
        BY <1>6, <2>1, <2>3, <2>4, <3>1
    <2>5. CASE GrantAccess(My, d, u) /\ Goto(p, "myFlush")
      <3>1. Notes("myFlush", j)
        BY <1>2, <1>3, <2>1 DEF Notes, Before, PgSteps, MySteps, LockdownSteps, After, Working,
               Ended, UserSteps, DbSteps, Engines, d, u
      <3>2. HasUser(pc[p], j) /\ HasDb(pc[p], j)
        BY <1>2, <2>1 DEF Notes, HasUser, HasDb, Ended, UserSteps, DbSteps
      <3>3. Holds(p, "myFlush", j)'
        BY <1>2, <2>1, <2>3, <2>5, <3>2 DEF Holds, d, u
      <3> QED
        BY <1>1, <1>2, <2>3, <2>5, <3>1, <3>2, <3>3, LoudMove
    <2> QED
      BY <1>2, <1>10, <2>2, <2>4, <2>5 DEF MyGrant, SqlCall, Call
  <1>11. CASE MyFlush(p)
    <2>1. pc[p] = "myFlush" /\ pc[p] \in MySteps \ {"myUndoUser", "myUndoDatabase"} /\ j.engine = "mysql"
      BY <1>4, <1>11 DEF MyFlush, At, MySteps
    <2>2. CASE UNCHANGED sqlVars /\ Goto(p, "myUndoUser")
      BY <1>7, <2>1, <2>2
    <2>3. CASE UNCHANGED sqlVars /\ Goto(p, "provisioned")
      <3>1. Notes("provisioned", j)
        BY <1>2, <1>3, <2>1 DEF Notes, Before, PgSteps, MySteps, LockdownSteps, After, Working,
               Ended, UserSteps, DbSteps, Engines, d, u
      <3>2. HasUser(pc[p], j) /\ HasDb(pc[p], j) /\ pc[p] \in Granted
        BY <1>2, <2>1 DEF Notes, HasUser, HasDb, Ended, UserSteps, DbSteps, Granted
      <3>3. Holds(p, "provisioned", j)'
        BY <1>2, <2>1, <2>3, <3>2 DEF Holds, sqlVars
      <3> QED
        BY <1>1, <1>2, <2>3, <3>1, <3>2, <3>3, LoudMove DEF Effect
    <2> QED
      BY <1>11, <2>2, <2>3 DEF MyFlush, Read, sqlVars
  <1>12. CASE MyUndoUser(p)
    <2>1. pc[p] = "myUndoUser" /\ j.engine = "mysql"
      BY <1>4, <1>12 DEF MyUndoUser, At, MySteps
    <2>2. /\ Notes("myUndoDatabase", j) /\ ~HasUser("myUndoDatabase", j)
          /\ HasDb(pc[p], j) = HasDb("myUndoDatabase", j)
          /\ "myUndoDatabase" \notin Granted \cup Revoked \cup Reowned \cup Isolated
      BY <1>2, <1>3, <2>1 DEF Notes, Before, PgSteps, MySteps, LockdownSteps, After, Working,
               Ended, UserSteps, DbSteps, Engines, HasUser, HasDb, Granted, Revoked, Reowned,
             Isolated, d, u
    <2>3. CASE UNCHANGED sqlVars /\ Goto(p, "myUndoDatabase")
      BY <1>1, <1>2, <2>2, <2>3, QuietMove
    <2>4. CASE j.userMade /\ DropRole(My, u) /\ Goto(p, "myUndoDatabase")
      <3>1. Effect(p, pc[p], j)
        BY <2>1, <2>4 DEF Effect, HasUser, Ended, My, u
      <3>2. Holds(p, "myUndoDatabase", j)'
        BY <1>2, <2>1, <2>2, <2>4 DEF Holds, DropRole
      <3> QED
        BY <1>1, <1>2, <2>2, <2>4, <3>1, <3>2, LoudMove
    <2> QED
      BY <1>1, <1>2, <1>12, <2>3, <2>4 DEF MyUndoUser, SqlCall, Call, Local, sqlVars
  <1>13. CASE MyUndoDatabase(p)
    <2>1. pc[p] = "myUndoDatabase" /\ j.engine = "mysql"
      BY <1>4, <1>13 DEF MyUndoDatabase, At, MySteps
    <2>2. /\ Notes("failed", j) /\ ~HasUser("failed", j) /\ ~HasDb("failed", j)
          /\ "failed" \notin Granted \cup Revoked \cup Reowned \cup Isolated
      BY DEF Notes, Before, PgSteps, MySteps, LockdownSteps, After, Working,
               Ended, UserSteps, DbSteps, Engines, HasUser, HasDb, Granted, Revoked, Reowned, Isolated
    <2>3. CASE UNCHANGED sqlVars /\ Goto(p, "failed")
      BY <1>1, <1>2, <2>2, <2>3, QuietMove
    <2>4. CASE j.dbMade /\ DropDb(My, d) /\ Goto(p, "failed")
      <3>1. Effect(p, pc[p], j)
        BY <2>1, <2>4 DEF Effect, HasDb, Ended, My, d
      <3>2. Holds(p, "failed", j)'
        BY <2>2 DEF Holds
      <3> QED
        BY <1>1, <1>2, <2>2, <2>4, <3>1, <3>2, LoudMove
    <2> QED
      BY <1>1, <1>2, <1>13, <2>3, <2>4 DEF MyUndoDatabase, SqlCall, Call, Local, sqlVars
  <1>14. ~MyDropUser(p) /\ ~MyDropDatabase(p) /\ ~MyFlushDrop(p)
    BY DEF MyDropUser, MyDropDatabase, MyFlushDrop, At, Working, PgSteps, MySteps, LockdownSteps, After
  <1> QED
    BY <1>8, <1>9, <1>10, <1>11, <1>12, <1>13, <1>14 DEF MyStep

\* A strict run never comes to a step of another command or of a delete.
LEMMA StepMoves ==
    ASSUME StrictInv, StrictOnly, TypeInv', NEW p \in Invocations, Step(p)
    PROVE  StrictMove(p)
  <1>1. pc[p] \in Before \cup Working \cup Ended
    BY DEF StrictInv, Notes
  <1>2. PgStep(p) => pc[p] \in Working
    <2>1. PgStep(p) => pc[p] \notin Before \cup Ended
      BY DEF PgStep, PgUser, PgDatabase, PgLockdown, LockdownStep, PgGrant, PgUndoDatabase, PgUndoUser,
             PgDropDatabase, PgDropUser, At, Before, Ended
    <2> QED
      BY <1>1, <2>1
  <1>3. MyStep(p) => pc[p] \in Working
    <2>1. MyStep(p) => pc[p] \notin Before \cup Ended
      BY DEF MyStep, MyDatabase, MyUser, MyGrant, MyFlush, MyUndoUser, MyUndoDatabase, MyDropUser,
             MyDropDatabase, MyFlushDrop, At, Before, Ended
    <2> QED
      BY <1>1, <2>1
  <1>4. ~ResolveStep(p)
    BY <1>1 DEF ResolveStep, Resolve, Confirm, Decline, At, Before, Working, PgSteps, MySteps,
           LockdownSteps, After, Ended
  <1>5. ~RotateStep(p)
    BY <1>1 DEF RotateStep, ResolveAgain, Alter, Record, AfterRecordFailed, Verify, Restore, PrintRotated,
           At, Before, Working, PgSteps, MySteps, LockdownSteps, After, Ended
  <1>6. ~DeleteStep(p)
    BY <1>1 DEF DeleteStep, ListSecrets, Erase, DeleteFolder, At, Before, Working, PgSteps, MySteps,
           LockdownSteps, After, Ended
  <1> QED
    BY <1>2, <1>3, <1>4, <1>5, <1>6, ProvisionMoves, PgMoves, MyMoves DEF Step

LEMMA StartMoves ==
    ASSUME StrictInv, StrictOnly, TypeInv', NEW p \in Invocations, NEW r \in Requests, Start(p, r)
    PROVE  StrictMove(p)
  <1>1. PICK j : j = NewJob(r)
    OBVIOUS
  <1>2. GotoWith(p, "prepare", j) /\ UNCHANGED sqlVars
    BY <1>1 DEF Start, Local, FirstStep, StrictOnly, sqlVars
  <1>3. "prepare" \in Steps /\ j \in Job
    BY <1>2 DEF StrictInv, TypeInv, TypeOK, GotoWith
  <1>4. ~j.dbMade /\ ~j.userMade
    BY <1>1 DEF NewJob
  <1>5. Notes("prepare", j)
    BY <1>4 DEF Notes, Before, PgSteps, MySteps, LockdownSteps, After, Working, Ended, UserSteps, DbSteps
  <1>6. ~HasUser("prepare", j) /\ ~HasDb("prepare", j)
    BY <1>4 DEF HasUser, HasDb
  <1>7. "prepare" \notin Granted \cup Revoked \cup Reowned \cup Isolated
    BY DEF Granted, Revoked, Reowned, Isolated, After
  <1>8. Holds(p, "prepare", j)'
    BY <1>6, <1>7 DEF Holds
  <1> QED
    BY <1>2, <1>3, <1>5, <1>6, <1>8 DEF StrictMove, GotoWith, Effect

LEMMA CrashMoves ==
    ASSUME StrictInv, StrictOnly, TypeInv', NEW p \in Invocations, Crash(p)
    PROVE  StrictMove(p)
  <1>1. PICK j \in Job : j = job[p] /\ GotoWith(p, "crashed", j)
    BY StrictNames DEF Crash
  <1>2. UNCHANGED sqlVars
    BY DEF Crash, sqlVars
  <1>3. Notes("crashed", j)
    BY DEF Notes, Before, PgSteps, MySteps, LockdownSteps, After, Working, Ended, UserSteps, DbSteps
  <1>4. /\ ~HasUser("crashed", j) /\ ~HasDb("crashed", j)
        /\ "crashed" \notin Granted \cup Revoked \cup Reowned \cup Isolated
    BY DEF HasUser, HasDb, Ended, Granted, Revoked, Reowned, Isolated, After
  <1> QED
    BY <1>1, <1>2, <1>3, <1>4, QuietMove

----------------------------------------------------------------------------
(* The theorem.                                                            *)

LEMMA StrictInit ==
    ASSUME Init
    PROVE  StrictInv
  <1>1. TypeInv
    BY InitTyped
  <1>2. ASSUME NEW p \in Invocations
        PROVE  pc[p] = "idle" /\ ~job[p].dbMade /\ ~job[p].userMade
    BY DEF Init, NewJob
  <1>3. \A p \in Invocations : ~HasUser(pc[p], job[p]) /\ ~HasDb(pc[p], job[p])
    BY <1>2 DEF HasUser, HasDb
  <1>4. \A p \in Invocations : Notes(pc[p], job[p])
    BY <1>2 DEF Notes, Before, PgSteps, MySteps, LockdownSteps, After, Working, Ended, UserSteps, DbSteps
  <1>5. \A p \in Invocations : pc[p] \notin Granted \cup Revoked \cup Reowned \cup Isolated
    BY <1>2 DEF Granted, Revoked, Reowned, Isolated, After
  <1> QED
    BY <1>1, <1>3, <1>4, <1>5 DEF StrictInv, Holds, NoSharing

LEMMA StrictInvInductive ==
    ASSUME StrictInv, StrictOnly, [Next]_vars
    PROVE  StrictInv'
  <1>1. TypeInv'
    BY TypeInvInductive DEF StrictInv
  <1>2. CASE UNCHANGED vars
    <2>1. pc' = pc /\ job' = job /\ UNCHANGED <<role, owner, access, hardening>>
      BY <1>2 DEF vars
    <2> QED
      BY <1>1, <2>1 DEF StrictInv, Holds, NoSharing
  <1>3. CASE Next
    <2>1. PICK p \in Invocations : Step(p) \/ Crash(p) \/ \E r \in Requests : Start(p, r)
      BY <1>3 DEF Next
    <2>2. StrictMove(p)
      BY <1>1, <2>1, StepMoves, StartMoves, CrashMoves
    <2> QED
      BY <1>1, <2>2, StrictMovePreserves
  <1> QED
    BY <1>2, <1>3

LEMMA StrictInvImplies ==
    ASSUME StrictInv, StrictOnly
    PROVE  StrictSuccessKeepsDatabase
  <1>1. SUFFICES ASSUME NEW p \in Invocations, At(p, "synced")
                 PROVE  ServerReady(p)
    BY DEF StrictSuccessKeepsDatabase
  <1> DEFINE j == job[p]
  <1>2. /\ Engine(p) = j.engine /\ DbOf(p) = Db(j) /\ UserOf(p) = User(j)
        /\ Notes("synced", j) /\ Holds(p, "synced", j)
    BY <1>1, StrictNames DEF At
  <1>3. HasUser("synced", j) /\ HasDb("synced", j) /\ j.engine \in Engines /\ Db(j) \in Databases
    BY <1>2 DEF Notes, HasUser, HasDb, Ended, Working, UserSteps, DbSteps, After
  <1>4. /\ "synced" \in Granted /\ "synced" \in Revoked /\ "synced" \in Reowned
        /\ "synced" \in Isolated
    BY DEF Granted, Revoked, Reowned, Isolated, After
  <1>5. hardening[j.engine][Db(j)] \subseteq Lockdown
    BY <1>3 DEF StrictInv, TypeInv, TypeOK, Hardenings
  <1>6. j.engine = "postgres" => hardening["postgres"][Db(j)] = Lockdown
    BY <1>2, <1>4, <1>5 DEF Holds, Lockdown
  <1> QED
    BY <1>2, <1>3, <1>4, <1>6 DEF Holds, ServerReady

\* However many strict runs overlap, on whatever engines and names, and however
\* their calls are refused, lost or cut off by a crash: the server keeps for a
\* run that reported success its user with its password, its database, the
\* access to it, and in postgres the ownership and the whole lockdown. The
\* existence checks, the plain CREATEs and the rollback that drops only what the
\* run itself made are what this rests on.
THEOREM StrictRace ==
    ASSUME StrictOnly
    PROVE  Spec => []StrictSuccessKeepsDatabase
  <1>1. Init => StrictInv
    BY StrictInit
  <1>2. StrictInv /\ [Next]_vars => StrictInv'
    BY StrictInvInductive
  <1>3. StrictInv => StrictSuccessKeepsDatabase
    BY StrictInvImplies
  <1> QED
    BY <1>1, <1>2, <1>3, PTL DEF Spec
=============================================================================
