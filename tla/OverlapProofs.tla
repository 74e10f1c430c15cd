---------------------------- MODULE OverlapProofs ----------------------------
(***************************************************************************)
(* What holds of commands of any kind that overlap in any way: a strict run *)
(* overwrites nothing, the operator's own keys survive, and rotations and  *)
(* deletes bring back nothing that was deleted.                            *)
(***************************************************************************)
EXTENDS Overlap, LifecycleProofs

----------------------------------------------------------------------------
(* Where an invocation can be, and what it noted on the way. All of this is *)
(* about its own locals, so it holds whoever else is at work.               *)

\* The names it works on, DbOf and UserOf, as a function of its locals.
DbFor(j) == IF j.req.cmd = "provision" THEN Options(j.req).db ELSE Lookup(j.seen, "DB_NAME")
UserFor(j) == IF j.req.cmd = "provision" THEN Options(j.req).user ELSE Lookup(j.seen, "DB_USER")

Locking == {"connectRevoked", "publicReowned", "publicRevoked", "pgGrant"}
PgCalls == {"pgUser", "pgDatabase", "pgUndoDatabase", "pgUndoUser"} \cup Locking
MyCalls == {"myDatabase", "myUser", "myGrant", "myFlush", "myUndoUser", "myUndoDatabase"}
Ending == {"provisioned", "sync", "printCredentials", "printOffline", "synced", "offline"}

Looking == {"createFolder", "folderExists", "inspect", "checkDatabase"}
Changing == {"checkUser"} \cup PgCalls \cup MyCalls \cup Ending
Rotating == {"resolveAgain", "alter", "record", "verify", "restore", "printRotated",
             "rotated", "unverified", "rolledBack"}
Dropping == {"pgDropUser", "myDropDatabase", "myFlushDrop", "listSecrets", "erase", "deleted"}

\* The steps a provisioning run takes only with its user, or its database.
WithUser == {"pgDatabase", "myGrant", "myFlush"} \cup Locking \cup Ending
WithDb == {"myUser", "myGrant", "myFlush"} \cup Locking \cup Ending

\* Each step belongs to a command, and some to an engine; the names passed the
\* allowlist before anything was changed under them.
Routed(l, j) ==
    /\ l \in {"prepare"} \cup Looking \cup Changing => j.req.cmd = "provision"
    /\ l \in Rotating => j.req.cmd = "rotate"
    /\ l \in {"pgDropDatabase", "myDropUser"} \cup Dropping => j.req.cmd = "delete"
    /\ l = "resolve" => j.req.cmd # "provision"
    /\ j.req.cmd = "provision" => j.engine = j.req.engine
    /\ l \in {"pgDropDatabase", "pgDropUser"} \cup PgCalls => j.engine = "postgres"
    /\ l \in {"myDropUser", "myDropDatabase", "myFlushDrop"} \cup MyCalls => j.engine = "mysql"
    /\ l \in Changing \cup Rotating \cup Dropping => j.engine \in Engines
    /\ l \in Changing \cup Dropping => DbFor(j) \in Databases /\ UserFor(j) \in Users
    /\ l \in Rotating \ {"resolveAgain", "alter"} => UserFor(j) \in Users
    /\ l \in Looking \cup Changing => ~SchemaRefused(j.req)
    /\ l \in {"createFolder", "folderExists", "inspect", "sync", "synced"} => j.req.online

\* What it found and what it made exclude each other, nothing is noted before
\* it is known, and a strict run goes on only if it found nothing.
Noted(l, j) ==
    /\ l \in {"idle", "resolve", "confirm", "prepare", "checkUser"} \cup Looking =>
        ~j.userThere /\ ~j.dbMade /\ ~j.userMade
    /\ l \in {"idle", "resolve", "confirm", "prepare"} \cup Looking => ~j.dbThere
    /\ ~(j.dbMade /\ j.dbThere) /\ ~(j.userMade /\ j.userThere)
    /\ l \in WithUser => j.userMade \/ j.userThere
    /\ l \in WithDb => j.dbMade \/ j.dbThere
    /\ j.req.cmd = "provision" /\ ~j.req.adopt =>
        /\ \A k \in ContractKeys : j.seen[k] = Absent
        /\ l \in PgCalls \cup MyCalls \cup Ending => ~j.dbThere /\ ~j.userThere

RouteInv ==
    /\ TypeInv
    /\ \A p \in Invocations : Routed(pc[p], job[p]) /\ Noted(pc[p], job[p])

\* A step of p that goes where it may.
Follows(p) ==
    \E l, j : GotoWith(p, l, j) /\ Routed(l, j) /\ Noted(l, j)

LEMMA FollowsPreserves ==
    ASSUME RouteInv, TypeInv', NEW p \in Invocations, Follows(p)
    PROVE  RouteInv'
  <1>1. PICK l, j : GotoWith(p, l, j) /\ Routed(l, j) /\ Noted(l, j)
    BY DEF Follows
  <1>2. /\ pc'[p] = l /\ job'[p] = j
        /\ \A q \in Invocations : q # p => pc'[q] = pc[q] /\ job'[q] = job[q]
    BY <1>1 DEF RouteInv, TypeInv, TypeOK, GotoWith
  <1>3. ASSUME NEW q \in Invocations
        PROVE  Routed(pc'[q], job'[q]) /\ Noted(pc'[q], job'[q])
    BY <1>1, <1>2 DEF RouteInv
  <1>4. ASSUME NEW q \in Invocations
        PROVE  (Routed(pc[q], job[q]) /\ Noted(pc[q], job[q]))'
    BY <1>3 DEF Routed, Noted, DbFor, UserFor, Options, Lookup, SchemaRefused
  <1> QED
    BY <1>4 DEF RouteInv

\* The locals of p: its names, and what it changes when it makes a note.
LEMMA Locals ==
    ASSUME RouteInv, NEW p \in Invocations
    PROVE  /\ Routed(pc[p], job[p]) /\ Noted(pc[p], job[p]) /\ job[p] \in Job
           /\ Request(p) = job[p].req /\ Engine(p) = job[p].engine /\ Site(p) = job[p].req.site
           /\ DbOf(p) = DbFor(job[p]) /\ UserOf(p) = UserFor(job[p])
           /\ Site(p) \in Sites
           /\ \A l : Goto(p, l) => GotoWith(p, l, job[p])
  <1>1. job[p] \in Job /\ job \in [Invocations -> Job]
    BY DEF RouteInv, TypeInv, TypeOK
  <1>2. \A l : Goto(p, l) => GotoWith(p, l, job[p])
    BY <1>1 DEF Goto, GotoWith
  <1> QED
    BY <1>1, <1>2, JobTypes DEF RouteInv, Request, Engine, Site, DbOf, UserOf, DbFor, UserFor

\* A note that sets one flag, or what is left to do, changes nothing else.
LEMMA NotesOnly ==
    ASSUME NEW j \in Job, NEW b, NEW i
    PROVE  /\ i \in {[j EXCEPT !.userMade = b], [j EXCEPT !.dbMade = b], [j EXCEPT !.dbThere = b],
                     [j EXCEPT !.userThere = b], [j EXCEPT !.left = b]} =>
                /\ i.req = j.req /\ i.engine = j.engine /\ i.seen = j.seen
                /\ DbFor(i) = DbFor(j) /\ UserFor(i) = UserFor(j)
           /\ i = [j EXCEPT !.userMade = b] =>
                i.userMade = b /\ i.dbMade = j.dbMade /\ i.dbThere = j.dbThere /\ i.userThere = j.userThere
           /\ i = [j EXCEPT !.dbMade = b] =>
                i.dbMade = b /\ i.userMade = j.userMade /\ i.dbThere = j.dbThere /\ i.userThere = j.userThere
           /\ i = [j EXCEPT !.dbThere = b] =>
                i.dbThere = b /\ i.dbMade = j.dbMade /\ i.userMade = j.userMade /\ i.userThere = j.userThere
           /\ i = [j EXCEPT !.userThere = b] =>
                i.userThere = b /\ i.dbMade = j.dbMade /\ i.dbThere = j.dbThere /\ i.userMade = j.userMade
           /\ i = [j EXCEPT !.left = b] =>
                /\ i.left = b /\ i.dbMade = j.dbMade /\ i.dbThere = j.dbThere
                /\ i.userMade = j.userMade /\ i.userThere = j.userThere
  BY DEF Job, DbFor, UserFor

\* A step from where p is to where its locals may be.
LEMMA Onto ==
    ASSUME NEW p, NEW l, NEW j, GotoWith(p, l, j), Routed(l, j), Noted(l, j)
    PROVE  Follows(p)
  BY DEF Follows

LEMMA PgFollows ==
    ASSUME RouteInv, NEW p \in Invocations, PgStep(p)
    PROVE  Follows(p)
  <1> DEFINE j == job[p]
  <1>0. /\ Routed(pc[p], j) /\ Noted(pc[p], j) /\ j \in Job
        /\ DbOf(p) = DbFor(j) /\ UserOf(p) = UserFor(j)
        /\ \A l : Goto(p, l) => GotoWith(p, l, j)
    BY Locals
  <1>1. CASE PgUser(p)
    <2>1. PICK l, i :
             /\ GotoWith(p, l, i) /\ pc[p] = "pgUser"
             /\ \/ l = "pgDatabase" /\ i = j /\ j.userThere
                \/ l = "pgUndoDatabase" /\ i = j
                \/ l = "pgDatabase" /\ i = [j EXCEPT !.userMade = TRUE] /\ ~j.userThere
      BY <1>0, <1>1 DEF PgUser, SqlCall, Call, At
    <2>2. Routed(l, i) /\ Noted(l, i)
      BY <1>0, <2>1, NotesOnly DEF Routed, Noted, PgCalls, MyCalls, Ending, Locking,
           Looking, Changing, Rotating, Dropping, WithUser, WithDb
    <2> QED
      BY <2>1, <2>2, Onto
  <1>2. CASE PgDatabase(p)
    <2>1. PICK l, i :
             /\ GotoWith(p, l, i) /\ pc[p] = "pgDatabase"
             /\ \/ l = "connectRevoked" /\ i = j /\ j.dbThere
                \/ l = "pgUndoDatabase" /\ i = j
                \/ l = "connectRevoked" /\ i = [j EXCEPT !.dbMade = TRUE] /\ ~j.dbThere
      BY <1>0, <1>2 DEF PgDatabase, SqlCall, Call, At
    <2>2. Routed(l, i) /\ Noted(l, i)
      BY <1>0, <2>1, NotesOnly DEF Routed, Noted, PgCalls, MyCalls, Ending, Locking,
           Looking, Changing, Rotating, Dropping, WithUser, WithDb
    <2> QED
      BY <2>1, <2>2, Onto
  <1>3. CASE PgLockdown(p)
    <2>1. PICK l, i :
             /\ GotoWith(p, l, i) /\ pc[p] \in {"connectRevoked", "publicReowned", "publicRevoked"}
             /\ l \in {"publicReowned", "publicRevoked", "pgGrant", "pgUndoDatabase"} /\ i = j
      BY <1>0, <1>3 DEF PgLockdown, LockdownStep, SqlCall, Call, At
    <2>2. Routed(l, i) /\ Noted(l, i)
      BY <1>0, <2>1, NotesOnly DEF Routed, Noted, PgCalls, MyCalls, Ending, Locking,
           Looking, Changing, Rotating, Dropping, WithUser, WithDb
    <2> QED
      BY <2>1, <2>2, Onto
  <1>4. CASE PgGrant(p)
    <2>1. PICK l, i :
             /\ GotoWith(p, l, i) /\ pc[p] = "pgGrant"
             /\ l \in {"provisioned", "pgUndoDatabase"} /\ i = j
      BY <1>0, <1>4 DEF PgGrant, SqlCall, Call, At
    <2>2. Routed(l, i) /\ Noted(l, i)
      BY <1>0, <2>1, NotesOnly DEF Routed, Noted, PgCalls, MyCalls, Ending, Locking,
           Looking, Changing, Rotating, Dropping, WithUser, WithDb
    <2> QED
      BY <2>1, <2>2, Onto
  <1>5. CASE PgUndoDatabase(p)
    <2>1. PICK l, i :
             /\ GotoWith(p, l, i) /\ pc[p] = "pgUndoDatabase"
             /\ l = "pgUndoUser" /\ i = j
      BY <1>0, <1>5 DEF PgUndoDatabase, SqlCall, Call, Local, At
    <2>2. Routed(l, i) /\ Noted(l, i)
      BY <1>0, <2>1, NotesOnly DEF Routed, Noted, PgCalls, MyCalls, Ending, Locking,
           Looking, Changing, Rotating, Dropping, WithUser, WithDb
    <2> QED
      BY <2>1, <2>2, Onto
  <1>6. CASE PgUndoUser(p)
    <2>1. PICK l, i :
             /\ GotoWith(p, l, i) /\ pc[p] = "pgUndoUser"
             /\ l = "failed" /\ i = j
      BY <1>0, <1>6 DEF PgUndoUser, SqlCall, Call, Local, At
    <2>2. Routed(l, i) /\ Noted(l, i)
      BY <1>0, <2>1, NotesOnly DEF Routed, Noted, PgCalls, MyCalls, Ending, Locking,
           Looking, Changing, Rotating, Dropping, WithUser, WithDb
    <2> QED
      BY <2>1, <2>2, Onto
  <1>7. CASE PgDropDatabase(p)
    <2>1. PICK l, i :
             /\ GotoWith(p, l, i) /\ pc[p] = "pgDropDatabase"
             /\ \/ l = "pgDropUser" /\ i = j /\ ValidNames(p)
                \/ l = "failed" /\ i = j
      BY <1>0, <1>7 DEF PgDropDatabase, SqlCall, Call, At
    <2>2. Routed(l, i) /\ Noted(l, i)
      BY <1>0, <2>1, NotesOnly DEF ValidNames, Engines, Routed, Noted, PgCalls, MyCalls, Ending, Locking,
           Looking, Changing, Rotating, Dropping, WithUser, WithDb
    <2> QED
      BY <2>1, <2>2, Onto
  <1>8. CASE PgDropUser(p)
    <2>1. PICK l, i :
             /\ GotoWith(p, l, i) /\ pc[p] = "pgDropUser"
             /\ l \in {"listSecrets", "failed"} /\ i = j
      BY <1>0, <1>8 DEF PgDropUser, SqlCall, Call, At
    <2>2. Routed(l, i) /\ Noted(l, i)
      BY <1>0, <2>1, NotesOnly DEF Engines, Routed, Noted, PgCalls, MyCalls, Ending, Locking,
           Looking, Changing, Rotating, Dropping, WithUser, WithDb
    <2> QED
      BY <2>1, <2>2, Onto
  <1> QED
    BY <1>1, <1>2, <1>3, <1>4, <1>5, <1>6, <1>7, <1>8 DEF PgStep

LEMMA MyFollows ==
    ASSUME RouteInv, NEW p \in Invocations, MyStep(p)
    PROVE  Follows(p)
  <1> DEFINE j == job[p]
  <1>0. /\ Routed(pc[p], j) /\ Noted(pc[p], j) /\ j \in Job
        /\ DbOf(p) = DbFor(j) /\ UserOf(p) = UserFor(j)
        /\ \A l : Goto(p, l) => GotoWith(p, l, j)
    BY Locals
  <1>1. CASE MyDatabase(p)
    <2>1. PICK l, i :
             /\ GotoWith(p, l, i) /\ pc[p] = "myDatabase"
             /\ \/ l = "myUser" /\ i = j /\ j.dbThere
                \/ l = "myUndoUser" /\ i = j
                \/ l = "myUser" /\ i = [j EXCEPT !.dbMade = TRUE] /\ ~j.dbThere
      BY <1>0, <1>1 DEF MyDatabase, SqlCall, Call, Local, At
    <2>2. Routed(l, i) /\ Noted(l, i)
      BY <1>0, <2>1, NotesOnly DEF Routed, Noted, PgCalls, MyCalls, Ending, Locking,
           Looking, Changing, Rotating, Dropping, WithUser, WithDb
    <2> QED
      BY <2>1, <2>2, Onto
  <1>2. CASE MyUser(p)
    <2>1. PICK l, i :
             /\ GotoWith(p, l, i) /\ pc[p] = "myUser"
             /\ \/ l = "myGrant" /\ i = j /\ j.userThere
                \/ l = "myUndoUser" /\ i = j
                \/ l = "myGrant" /\ i = [j EXCEPT !.userMade = TRUE] /\ ~j.userThere
      BY <1>0, <1>2 DEF MyUser, SqlCall, Call, At
    <2>2. Routed(l, i) /\ Noted(l, i)
      BY <1>0, <2>1, NotesOnly DEF Routed, Noted, PgCalls, MyCalls, Ending, Locking,
           Looking, Changing, Rotating, Dropping, WithUser, WithDb
    <2> QED
      BY <2>1, <2>2, Onto
  <1>3. CASE MyGrant(p)
    <2>1. PICK l, i :
             /\ GotoWith(p, l, i) /\ pc[p] = "myGrant"
             /\ l \in {"myFlush", "myUndoUser"} /\ i = j
      BY <1>0, <1>3 DEF MyGrant, SqlCall, Call, At
    <2>2. Routed(l, i) /\ Noted(l, i)
      BY <1>0, <2>1, NotesOnly DEF Routed, Noted, PgCalls, MyCalls, Ending, Locking,
           Looking, Changing, Rotating, Dropping, WithUser, WithDb
    <2> QED
      BY <2>1, <2>2, Onto
  <1>4. CASE MyFlush(p)
    <2>1. PICK l, i :
             /\ GotoWith(p, l, i) /\ pc[p] = "myFlush"
             /\ l \in {"provisioned", "myUndoUser"} /\ i = j
      BY <1>0, <1>4 DEF MyFlush, Read, At
    <2>2. Routed(l, i) /\ Noted(l, i)
      BY <1>0, <2>1, NotesOnly DEF Routed, Noted, PgCalls, MyCalls, Ending, Locking,
           Looking, Changing, Rotating, Dropping, WithUser, WithDb
    <2> QED
      BY <2>1, <2>2, Onto
  <1>5. CASE MyUndoUser(p)
    <2>1. PICK l, i :
             /\ GotoWith(p, l, i) /\ pc[p] = "myUndoUser"
             /\ l = "myUndoDatabase" /\ i = j
      BY <1>0, <1>5 DEF MyUndoUser, SqlCall, Call, Local, At
    <2>2. Routed(l, i) /\ Noted(l, i)
      BY <1>0, <2>1, NotesOnly DEF Routed, Noted, PgCalls, MyCalls, Ending, Locking,
           Looking, Changing, Rotating, Dropping, WithUser, WithDb
    <2> QED
      BY <2>1, <2>2, Onto
  <1>6. CASE MyUndoDatabase(p)
    <2>1. PICK l, i :
             /\ GotoWith(p, l, i) /\ pc[p] = "myUndoDatabase"
             /\ l = "failed" /\ i = j
      BY <1>0, <1>6 DEF MyUndoDatabase, SqlCall, Call, Local, At
    <2>2. Routed(l, i) /\ Noted(l, i)
      BY <1>0, <2>1, NotesOnly DEF Routed, Noted, PgCalls, MyCalls, Ending, Locking,
           Looking, Changing, Rotating, Dropping, WithUser, WithDb
    <2> QED
      BY <2>1, <2>2, Onto
  <1>7. CASE MyDropUser(p)
    <2>1. PICK l, i :
             /\ GotoWith(p, l, i) /\ pc[p] = "myDropUser"
             /\ \/ l = "myDropDatabase" /\ i = j /\ ValidNames(p)
                \/ l = "failed" /\ i = j
      BY <1>0, <1>7 DEF MyDropUser, SqlCall, Call, At
    <2>2. Routed(l, i) /\ Noted(l, i)
      BY <1>0, <2>1, NotesOnly DEF ValidNames, Engines, Routed, Noted, PgCalls, MyCalls, Ending, Locking,
           Looking, Changing, Rotating, Dropping, WithUser, WithDb
    <2> QED
      BY <2>1, <2>2, Onto
  <1>8. CASE MyDropDatabase(p)
    <2>1. PICK l, i :
             /\ GotoWith(p, l, i) /\ pc[p] = "myDropDatabase"
             /\ l \in {"myFlushDrop", "failed"} /\ i = j
      BY <1>0, <1>8 DEF MyDropDatabase, SqlCall, Call, At
    <2>2. Routed(l, i) /\ Noted(l, i)
      BY <1>0, <2>1, NotesOnly DEF Routed, Noted, PgCalls, MyCalls, Ending, Locking,
           Looking, Changing, Rotating, Dropping, WithUser, WithDb
    <2> QED
      BY <2>1, <2>2, Onto
  <1>9. CASE MyFlushDrop(p)
    <2>1. PICK l, i :
             /\ GotoWith(p, l, i) /\ pc[p] = "myFlushDrop"
             /\ l \in {"listSecrets", "failed"} /\ i = j
      BY <1>0, <1>9 DEF MyFlushDrop, Read, At
    <2>2. Routed(l, i) /\ Noted(l, i)
      BY <1>0, <2>1, NotesOnly DEF Engines, Routed, Noted, PgCalls, MyCalls, Ending, Locking,
           Looking, Changing, Rotating, Dropping, WithUser, WithDb
    <2> QED
      BY <2>1, <2>2, Onto
  <1> QED
    BY <1>1, <1>2, <1>3, <1>4, <1>5, <1>6, <1>7, <1>8, <1>9 DEF MyStep

LEMMA ProvisionFollows ==
    ASSUME RouteInv, NEW p \in Invocations, ProvisionStep(p)
    PROVE  Follows(p)
  <1> DEFINE j == job[p]
  <1>0. /\ Routed(pc[p], j) /\ Noted(pc[p], j) /\ j \in Job
        /\ Request(p) = j.req /\ Engine(p) = j.engine
        /\ DbOf(p) = DbFor(j) /\ UserOf(p) = UserFor(j)
        /\ \A l : Goto(p, l) => GotoWith(p, l, j)
    BY Locals
  <1>1. CASE Prepare(p)
    <2>1. PICK l, i :
             /\ GotoWith(p, l, i) /\ pc[p] = "prepare"
             /\ \/ l = "failed" /\ i = j
                \/ l = "createFolder" /\ i = j /\ ~SchemaRefused(j.req) /\ j.req.online
                \/ l = "checkDatabase" /\ i = j /\ ~SchemaRefused(j.req)
      BY <1>0, <1>1 DEF Prepare, Local, At, Request
    <2>2. Routed(l, i) /\ Noted(l, i)
      BY <1>0, <2>1, NotesOnly DEF Routed, Noted, PgCalls, MyCalls, Ending, Locking,
           Looking, Changing, Rotating, Dropping, WithUser, WithDb
    <2> QED
      BY <2>1, <2>2, Onto
  <1>2. CASE CreateFolder(p)
    <2>1. PICK l, i :
             /\ GotoWith(p, l, i) /\ pc[p] = "createFolder"
             /\ l \in {"inspect", "folderExists"} /\ i = j
      BY <1>0, <1>2 DEF CreateFolder, VaultCall, Call, At
    <2>2. Routed(l, i) /\ Noted(l, i)
      BY <1>0, <2>1, NotesOnly DEF Routed, Noted, PgCalls, MyCalls, Ending, Locking,
           Looking, Changing, Rotating, Dropping, WithUser, WithDb
    <2> QED
      BY <2>1, <2>2, Onto
  <1>3. CASE FolderExists(p)
    <2>1. PICK l, i :
             /\ GotoWith(p, l, i) /\ pc[p] = "folderExists"
             /\ l \in {"inspect", "failed"} /\ i = j
      BY <1>0, <1>3 DEF FolderExists, Read, At
    <2>2. Routed(l, i) /\ Noted(l, i)
      BY <1>0, <2>1, NotesOnly DEF Routed, Noted, PgCalls, MyCalls, Ending, Locking,
           Looking, Changing, Rotating, Dropping, WithUser, WithDb
    <2> QED
      BY <2>1, <2>2, Onto
  <1>4. CASE Inspect(p)
    <2>1. CASE Goto(p, "failed")
      <3>1. Routed("failed", j) /\ Noted("failed", j)
        BY <1>0 DEF Routed, Noted, PgCalls, MyCalls, Ending, Locking,
           Looking, Changing, Rotating, Dropping, WithUser, WithDb
      <3> QED
        BY <1>0, <2>1, <3>1, Onto
    <2>2. ASSUME pc[p] = "inspect", GotoWith(p, "checkDatabase", [j EXCEPT !.seen = secrets[Site(p)]]),
                 Acceptable(j.req, secrets[Site(p)])
          PROVE  Follows(p)
      <3>1. PICK i : i = [j EXCEPT !.seen = secrets[Site(p)]]
        OBVIOUS
      <3>2. /\ i.req = j.req /\ i.engine = j.engine /\ i.seen = secrets[Site(p)]
            /\ i.dbMade = j.dbMade /\ i.dbThere = j.dbThere
            /\ i.userMade = j.userMade /\ i.userThere = j.userThere
        BY <1>0, <3>1 DEF Job
      <3>3. Routed("checkDatabase", i)
        BY <1>0, <2>2, <3>2 DEF Routed, PgCalls, MyCalls, Ending, Locking, Looking, Changing,
           Rotating, Dropping
      <3>4. Noted("checkDatabase", i)
        BY <1>0, <2>2, <3>2 DEF Acceptable, Noted, PgCalls, MyCalls, Ending, Locking, Looking,
           WithUser, WithDb
      <3> QED
        BY <2>2, <3>1, <3>3, <3>4, Onto
    <2> QED
      BY <1>4, <2>1, <2>2 DEF Inspect, Read, At, Request
  <1>5. CASE CheckDatabase(p)
    <2>0. j.engine \in Engines
      BY <1>5, WorkingEngine, Locals DEF CheckDatabase, At, Finished, RouteInv
    <2>1. PICK l, i :
             /\ GotoWith(p, l, i) /\ pc[p] = "checkDatabase"
             /\ \/ l = "failed" /\ i = j
                \/ l = "checkUser" /\ (\E b : i = [j EXCEPT !.dbThere = b]) /\ ValidNames(p)
      BY <1>0, <1>5 DEF CheckDatabase, Read, At, ValidOptions
    <2>2. Routed(l, i) /\ Noted(l, i)
      BY <1>0, <2>1, NotesOnly, <2>0 DEF ValidNames, Routed, Noted, PgCalls, MyCalls, Ending, Locking,
           Looking, Changing, Rotating, Dropping, WithUser, WithDb
    <2> QED
      BY <2>1, <2>2, Onto
  <1>6. CASE CheckUser(p)
    <2>1. CASE Goto(p, "failed")
      <3>1. Routed("failed", j) /\ Noted("failed", j)
        BY <1>0 DEF Routed, Noted, PgCalls, MyCalls, Ending, Locking,
           Looking, Changing, Rotating, Dropping, WithUser, WithDb
      <3> QED
        BY <1>0, <2>1, <3>1, Onto
    <2>2. ASSUME NEW b, pc[p] = "checkUser", j.req.adopt \/ ~(j.dbThere \/ b),
                 GotoWith(p, FirstStatement[j.engine], [j EXCEPT !.userThere = b])
          PROVE  Follows(p)
      <3>1. PICK i : i = [j EXCEPT !.userThere = b]
        OBVIOUS
      <3>2. PICK l : l = FirstStatement[j.engine]
        OBVIOUS
      <3>3. \/ l = "pgUser" /\ j.engine = "postgres"
            \/ l = "myDatabase" /\ j.engine = "mysql"
        BY <1>0, <2>2, <3>2 DEF FirstStatement, Engines, Routed, Changing
      <3>4. Routed(l, i) /\ Noted(l, i)
        BY <1>0, <2>2, <3>1, <3>3, NotesOnly DEF Routed, Noted, PgCalls, MyCalls, Ending, Locking,
           Looking, Changing, Rotating, Dropping, WithUser, WithDb
      <3> QED
        BY <2>2, <3>1, <3>2, <3>4, Onto
    <2> QED
      BY <1>0, <1>6, <2>1, <2>2 DEF CheckUser, Read, At
  <1>7. CASE Provisioned(p)
    <2>1. PICK l, i :
             /\ GotoWith(p, l, i) /\ pc[p] = "provisioned"
             /\ \/ l = "sync" /\ (\E S : i = [j EXCEPT !.left = S]) /\ j.req.online
                \/ l = "printOffline" /\ i = j
      BY <1>0, <1>7 DEF Provisioned, Local, At, Request
    <2>2. Routed(l, i) /\ Noted(l, i)
      BY <1>0, <2>1, NotesOnly DEF Routed, Noted, PgCalls, MyCalls, Ending, Locking,
           Looking, Changing, Rotating, Dropping, WithUser, WithDb
    <2> QED
      BY <2>1, <2>2, Onto
  <1>8. CASE Sync(p)
    <2>1. PICK l, i :
             /\ GotoWith(p, l, i) /\ pc[p] = "sync"
             /\ \/ l = "sync" /\ \E S : i = [j EXCEPT !.left = S]
                \/ l = "printCredentials" /\ i = j
      BY <1>0, <1>8 DEF Sync, VaultCall, Call, At
    <2>2. Routed(l, i) /\ Noted(l, i)
      BY <1>0, <2>1, NotesOnly DEF Routed, Noted, PgCalls, MyCalls, Ending, Locking,
           Looking, Changing, Rotating, Dropping, WithUser, WithDb
    <2> QED
      BY <2>1, <2>2, Onto
  <1>9. CASE SyncDone(p)
    <2>1. PICK l, i :
             /\ GotoWith(p, l, i) /\ pc[p] = "sync"
             /\ l = "synced" /\ i = j
      BY <1>0, <1>9 DEF SyncDone, Local, At
    <2>2. Routed(l, i) /\ Noted(l, i)
      BY <1>0, <2>1, NotesOnly DEF Routed, Noted, PgCalls, MyCalls, Ending, Locking,
           Looking, Changing, Rotating, Dropping, WithUser, WithDb
    <2> QED
      BY <2>1, <2>2, Onto
  <1>10. CASE PrintCredentials(p)
    <2>1. PICK l, i :
             /\ GotoWith(p, l, i) /\ pc[p] \in {"printCredentials", "printOffline"}
             /\ l \in {"failed", "offline"} /\ i = j
      BY <1>0, <1>10 DEF PrintCredentials, PrintsPassword, At
    <2>2. Routed(l, i) /\ Noted(l, i)
      BY <1>0, <2>1, NotesOnly DEF Routed, Noted, PgCalls, MyCalls, Ending, Locking,
           Looking, Changing, Rotating, Dropping, WithUser, WithDb
    <2> QED
      BY <2>1, <2>2, Onto
  <1> QED
    BY <1>1, <1>2, <1>3, <1>4, <1>5, <1>6, <1>7, <1>8, <1>9, <1>10 DEF ProvisionStep

LEMMA ResolveFollows ==
    ASSUME RouteInv, NEW p \in Invocations, ResolveStep(p)
    PROVE  Follows(p)
  <1> DEFINE j == job[p]
  <1>0. /\ Routed(pc[p], j) /\ Noted(pc[p], j) /\ j \in Job
        /\ DbOf(p) = DbFor(j) /\ UserOf(p) = UserFor(j)
        /\ \A l : Goto(p, l) => GotoWith(p, l, j)
    BY Locals
  <1>1. CASE Resolve(p)
    <2>1. CASE Goto(p, "failed")
      <3>1. Routed("failed", j) /\ Noted("failed", j)
        BY <1>0 DEF Routed, Noted, PgCalls, MyCalls, Ending, Locking,
           Looking, Changing, Rotating, Dropping, WithUser, WithDb
      <3> QED
        BY <1>0, <2>1, <3>1, Onto
    <2>2. ASSUME pc[p] = "resolve", NEW e, GotoWith(p, "confirm", [j EXCEPT !.seen = secrets[Site(p)], !.engine = e])
          PROVE  Follows(p)
      <3>1. PICK i : i = [j EXCEPT !.seen = secrets[Site(p)], !.engine = e]
        OBVIOUS
      <3>2. /\ i.req = j.req /\ i.engine = e
            /\ i.dbMade = j.dbMade /\ i.dbThere = j.dbThere
            /\ i.userMade = j.userMade /\ i.userThere = j.userThere
        BY <1>0, <3>1 DEF Job
      <3>3. Routed("confirm", i) /\ Noted("confirm", i)
        BY <1>0, <2>2, <3>2 DEF Routed, Noted, PgCalls, MyCalls, Ending, Locking,
           Looking, Changing, Rotating, Dropping, WithUser, WithDb
      <3> QED
        BY <2>2, <3>1, <3>3, Onto
    <2> QED
      BY <1>1, <2>1, <2>2 DEF Resolve, Read, At
  <1>2. CASE Confirm(p)
    <2>0. Engine(p) \in Engines /\ Request(p).cmd \in {"provision", "rotate", "delete"} /\ Engine(p) = j.engine
      BY <1>2, WorkingEngine, CommandCases, Locals DEF Confirm, At, Finished, RouteInv
    <2>1. PICK l, i :
             /\ GotoWith(p, l, i) /\ pc[p] = "confirm"
             /\ \/ l = "prepare" /\ i = j /\ j.req.cmd = "provision"
                \/ l = "resolveAgain" /\ i = j /\ j.req.cmd = "rotate"
                \/ l = "pgDropDatabase" /\ i = j /\ j.req.cmd = "delete" /\ j.engine = "postgres"
                \/ l = "myDropUser" /\ i = j /\ j.req.cmd = "delete" /\ j.engine = "mysql"
      BY <1>0, <1>2, <2>0 DEF Confirm, Local, At, AfterConfirm, FirstDrop, Engines, Request, Engine
    <2>2. Routed(l, i) /\ Noted(l, i)
      BY <1>0, <2>1, NotesOnly, <2>0 DEF Engine, Engines, Routed, Noted, PgCalls, MyCalls, Ending, Locking,
           Looking, Changing, Rotating, Dropping, WithUser, WithDb
    <2> QED
      BY <2>1, <2>2, Onto
  <1>3. CASE Decline(p)
    <2>1. PICK l, i :
             /\ GotoWith(p, l, i) /\ pc[p] = "confirm"
             /\ l = "declined" /\ i = j
      BY <1>0, <1>3 DEF Decline, Local, At
    <2>2. Routed(l, i) /\ Noted(l, i)
      BY <1>0, <2>1, NotesOnly DEF Routed, Noted, PgCalls, MyCalls, Ending, Locking,
           Looking, Changing, Rotating, Dropping, WithUser, WithDb
    <2> QED
      BY <2>1, <2>2, Onto
  <1> QED
    BY <1>1, <1>2, <1>3 DEF ResolveStep

LEMMA RotateFollows ==
    ASSUME RouteInv, NEW p \in Invocations, RotateStep(p)
    PROVE  Follows(p)
  <1> DEFINE j == job[p]
  <1>0. /\ Routed(pc[p], j) /\ Noted(pc[p], j) /\ j \in Job
        /\ DbOf(p) = DbFor(j) /\ UserOf(p) = UserFor(j)
        /\ \A l : Goto(p, l) => GotoWith(p, l, j)
    BY Locals
  <1>1. CASE ResolveAgain(p)
    <2>1. CASE Goto(p, "failed")
      <3>1. Routed("failed", j) /\ Noted("failed", j)
        BY <1>0 DEF Routed, Noted, PgCalls, MyCalls, Ending, Locking,
           Looking, Changing, Rotating, Dropping, WithUser, WithDb
      <3> QED
        BY <1>0, <2>1, <3>1, Onto
    <2>2. ASSUME pc[p] = "resolveAgain", GotoWith(p, "alter", [j EXCEPT !.seen = secrets[Site(p)]])
          PROVE  Follows(p)
      <3>1. PICK i : i = [j EXCEPT !.seen = secrets[Site(p)]]
        OBVIOUS
      <3>2. /\ i.req = j.req /\ i.engine = j.engine
            /\ i.dbMade = j.dbMade /\ i.dbThere = j.dbThere
            /\ i.userMade = j.userMade /\ i.userThere = j.userThere
        BY <1>0, <3>1 DEF Job
      <3>3. Routed("alter", i) /\ Noted("alter", i)
        BY <1>0, <2>2, <3>2 DEF Routed, Noted, PgCalls, MyCalls, Ending, Locking,
           Looking, Changing, Rotating, Dropping, WithUser, WithDb
      <3> QED
        BY <2>2, <3>1, <3>3, Onto
    <2> QED
      BY <1>1, <2>1, <2>2 DEF ResolveAgain, Read, At
  <1>2. CASE Alter(p)
    <2>1. PICK l, i :
             /\ GotoWith(p, l, i) /\ pc[p] = "alter"
             /\ \/ l = "record" /\ i = j /\ UserOf(p) \in Users
                \/ l = "failed" /\ i = j
      BY <1>0, <1>2 DEF Alter, RotatePassword, RoleExists, SqlCall, Call, At
    <2>2. Routed(l, i) /\ Noted(l, i)
      BY <1>0, <2>1, NotesOnly DEF Routed, Noted, PgCalls, MyCalls, Ending, Locking,
           Looking, Changing, Rotating, Dropping, WithUser, WithDb
    <2> QED
      BY <2>1, <2>2, Onto
  <1>3. CASE Record(p)
    <2>1. PICK l, i :
             /\ GotoWith(p, l, i) /\ pc[p] = "record"
             /\ l \in {"verify", "printRotated", "restore"} /\ i = j
      BY <1>0, <1>3 DEF Record, AfterRecordFailed, VaultCall, Call, At
    <2>2. Routed(l, i) /\ Noted(l, i)
      BY <1>0, <2>1, NotesOnly DEF Routed, Noted, PgCalls, MyCalls, Ending, Locking,
           Looking, Changing, Rotating, Dropping, WithUser, WithDb
    <2> QED
      BY <2>1, <2>2, Onto
  <1>4. CASE Verify(p)
    <2>1. PICK l, i :
             /\ GotoWith(p, l, i) /\ pc[p] = "verify"
             /\ l \in {"rotated", "unverified"} /\ i = j
      BY <1>0, <1>4 DEF Verify, Local, At
    <2>2. Routed(l, i) /\ Noted(l, i)
      BY <1>0, <2>1, NotesOnly DEF Routed, Noted, PgCalls, MyCalls, Ending, Locking,
           Looking, Changing, Rotating, Dropping, WithUser, WithDb
    <2> QED
      BY <2>1, <2>2, Onto
  <1>5. CASE Restore(p)
    <2>1. PICK l, i :
             /\ GotoWith(p, l, i) /\ pc[p] = "restore"
             /\ l \in {"rolledBack", "printRotated"} /\ i = j
      BY <1>0, <1>5 DEF Restore, RotatePassword, SqlCall, Call, At
    <2>2. Routed(l, i) /\ Noted(l, i)
      BY <1>0, <2>1, NotesOnly DEF Routed, Noted, PgCalls, MyCalls, Ending, Locking,
           Looking, Changing, Rotating, Dropping, WithUser, WithDb
    <2> QED
      BY <2>1, <2>2, Onto
  <1>6. CASE PrintRotated(p)
    <2>1. PICK l, i :
             /\ GotoWith(p, l, i) /\ pc[p] = "printRotated"
             /\ l = "failed" /\ i = j
      BY <1>0, <1>6 DEF PrintRotated, At
    <2>2. Routed(l, i) /\ Noted(l, i)
      BY <1>0, <2>1, NotesOnly DEF Routed, Noted, PgCalls, MyCalls, Ending, Locking,
           Looking, Changing, Rotating, Dropping, WithUser, WithDb
    <2> QED
      BY <2>1, <2>2, Onto
  <1> QED
    BY <1>1, <1>2, <1>3, <1>4, <1>5, <1>6 DEF RotateStep

LEMMA DeleteFollows ==
    ASSUME RouteInv, NEW p \in Invocations, DeleteStep(p)
    PROVE  Follows(p)
  <1> DEFINE j == job[p]
  <1>0. /\ Routed(pc[p], j) /\ Noted(pc[p], j) /\ j \in Job
        /\ DbOf(p) = DbFor(j) /\ UserOf(p) = UserFor(j)
        /\ \A l : Goto(p, l) => GotoWith(p, l, j)
    BY Locals
  <1>1. CASE ListSecrets(p)
    <2>1. PICK l, i :
             /\ GotoWith(p, l, i) /\ pc[p] = "listSecrets"
             /\ \/ l = "failed" /\ i = j
                \/ l = "erase" /\ \E S : i = [j EXCEPT !.left = S]
      BY <1>0, <1>1 DEF ListSecrets, Read, At
    <2>2. Routed(l, i) /\ Noted(l, i)
      BY <1>0, <2>1, NotesOnly DEF Routed, Noted, PgCalls, MyCalls, Ending, Locking,
           Looking, Changing, Rotating, Dropping, WithUser, WithDb
    <2> QED
      BY <2>1, <2>2, Onto
  <1>2. CASE Erase(p)
    <2>1. PICK l, i :
             /\ GotoWith(p, l, i) /\ pc[p] = "erase"
             /\ \/ l = "failed" /\ i = j
                \/ l = "erase" /\ \E S : i = [j EXCEPT !.left = S]
      BY <1>0, <1>2 DEF Erase, VaultCall, Call, At
    <2>2. Routed(l, i) /\ Noted(l, i)
      BY <1>0, <2>1, NotesOnly DEF Routed, Noted, PgCalls, MyCalls, Ending, Locking,
           Looking, Changing, Rotating, Dropping, WithUser, WithDb
    <2> QED
      BY <2>1, <2>2, Onto
  <1>3. CASE DeleteFolder(p)
    <2>1. PICK l, i :
             /\ GotoWith(p, l, i) /\ pc[p] = "erase"
             /\ l \in {"deleted", "failed"} /\ i = j
      BY <1>0, <1>3 DEF DeleteFolder, VaultCall, Call, At
    <2>2. Routed(l, i) /\ Noted(l, i)
      BY <1>0, <2>1, NotesOnly DEF Routed, Noted, PgCalls, MyCalls, Ending, Locking,
           Looking, Changing, Rotating, Dropping, WithUser, WithDb
    <2> QED
      BY <2>1, <2>2, Onto
  <1> QED
    BY <1>1, <1>2, <1>3 DEF DeleteStep

LEMMA StartFollows ==
    ASSUME RouteInv, NEW p \in Invocations, NEW r \in Requests, Start(p, r)
    PROVE  Follows(p)
  <1>1. PICK j : j = NewJob(r)
    OBVIOUS
  <1>2. r \in RequestType
    BY RequestsAssumption
  <1>3. PICK l : l = FirstStep(r) /\ GotoWith(p, l, j)
    BY <1>1 DEF Start, Local
  <1>4. /\ j.req = r /\ j.engine = r.engine
        /\ ~j.dbThere /\ ~j.userThere /\ ~j.dbMade /\ ~j.userMade
        /\ \A k \in ContractKeys : j.seen[k] = Absent
    BY <1>1 DEF NewJob, Keys
  <1>5. \/ l \in {"prepare", "confirm"} /\ r.cmd = "provision"
        \/ l = "resolve" /\ r.cmd # "provision"
    BY <1>2, <1>3 DEF FirstStep, RequestType
  <1>6. Routed(l, j) /\ Noted(l, j)
    BY <1>4, <1>5 DEF Routed, Noted, PgCalls, MyCalls, Ending, Locking, Looking, Changing,
       Rotating, Dropping, WithUser, WithDb
  <1> QED
    BY <1>3, <1>6, Onto

LEMMA CrashFollows ==
    ASSUME RouteInv, NEW p \in Invocations, Crash(p)
    PROVE  Follows(p)
  <1>1. GotoWith(p, "crashed", job[p]) /\ Routed(pc[p], job[p]) /\ Noted(pc[p], job[p])
    BY Locals DEF Crash
  <1>2. Routed("crashed", job[p]) /\ Noted("crashed", job[p])
    BY <1>1 DEF Routed, Noted, PgCalls, MyCalls, Ending, Locking, Looking, Changing,
       Rotating, Dropping, WithUser, WithDb
  <1> QED
    BY <1>1, <1>2, Onto

LEMMA RouteInit ==
    ASSUME Init
    PROVE  RouteInv
  <1>1. PICK r : r = CHOOSE request \in Requests : TRUE
    OBVIOUS
  <1>2. \A p \in Invocations : pc[p] = "idle" /\ job[p] = NewJob(r)
    BY <1>1 DEF Init
  <1>3. ASSUME NEW p \in Invocations
        PROVE  Routed("idle", NewJob(r)) /\ Noted("idle", NewJob(r))
    BY DEF NewJob, Keys, Routed, Noted, PgCalls, MyCalls, Ending, Locking, Looking, Changing,
       Rotating, Dropping, WithUser, WithDb
  <1> QED
    BY <1>2, <1>3, InitTyped DEF RouteInv

LEMMA RouteInvInductive ==
    ASSUME RouteInv, [Next]_vars
    PROVE  RouteInv'
  <1>1. TypeInv'
    BY TypeInvInductive DEF RouteInv
  <1>2. CASE UNCHANGED vars
    <2>1. pc' = pc /\ job' = job
      BY <1>2 DEF vars
    <2>2. ASSUME NEW p \in Invocations
          PROVE  (Routed(pc[p], job[p]) /\ Noted(pc[p], job[p]))'
      BY <2>1 DEF RouteInv, Routed, Noted, DbFor, UserFor, Options, Lookup, SchemaRefused
    <2> QED
      BY <1>1, <2>2 DEF RouteInv
  <1>3. ASSUME NEW p \in Invocations, Step(p)
        PROVE  Follows(p)
    BY <1>3, PgFollows, MyFollows, ProvisionFollows, ResolveFollows, RotateFollows, DeleteFollows DEF Step
  <1> QED
    BY <1>1, <1>2, <1>3, StartFollows, CrashFollows, FollowsPreserves DEF Next

----------------------------------------------------------------------------
(* What a step writes. A server is written under the names p works on, the *)
(* vault in the folder p works on, and only at the steps named here.        *)

VaultWrite(p) ==
    LET s == Site(p)
        k == NextOperation(Plan(p), job[p].left)
    IN  \/ UNCHANGED vaultVars
        \/ At(p, "createFolder") /\ ~folder[s] /\ MakeFolder(s)
        \/ /\ At(p, "sync") /\ job[p].left # {}
           /\ IF k \in Plan(p).creates THEN CanCreate(s, k) ELSE CanUpdate(s, k)
           /\ Put(s, k, Desired(p)[k])
        \/ At(p, "record") /\ folder[s] /\ Put(s, "DB_PASSWORD", p)
        \/ /\ At(p, "erase") /\ Moves(p)
           /\ \E key \in Keys : CanUpdate(s, key) /\ Put(s, key, Absent)
        \/ At(p, "erase") /\ Moves(p) /\ RemoveFolder(s)

SqlWrite(p) ==
    LET e == Engine(p)
        d == DbOf(p)
        u == UserOf(p)
    IN  \/ UNCHANGED sqlVars
        \/ /\ pc[p] \in {"pgUser", "myUser"}
           /\ job[p].userThere <=> RoleExists(e, u)
           /\ SetPassword(e, u, p)
        \/ At(p, "alter") /\ RoleExists(e, u) /\ SetPassword(e, u, p)
        \/ At(p, "restore") /\ RoleExists(e, u) /\ SetPassword(e, u, OldPassword(p))
        \/ /\ pc[p] \in {"pgDatabase", "myDatabase"} /\ ~DbExists(e, d)
           /\ e = "postgres" => RoleExists(e, u)
           /\ \E o \in {u, Admin} : CreateDb(e, d, o)
        \/ /\ At(p, "pgDatabase") /\ job[p].dbThere
           /\ DbExists(e, d) /\ RoleExists(e, u) /\ SetOwner(e, d, u)
        \/ pc[p] \in Locking /\ \E statement \in Lockdown : Harden(e, d, statement)
        \/ /\ pc[p] \in {"pgGrant", "myGrant"}
           /\ e = "postgres" => DbExists(e, d) /\ RoleExists(e, u)
           /\ GrantAccess(e, d, u)
        \/ /\ pc[p] \in {"pgUndoDatabase", "myUndoDatabase"} /\ job[p].dbMade
           /\ DropDb(e, d)
        \/ /\ pc[p] \in {"pgUndoUser", "myUndoUser"} /\ job[p].userMade
           /\ e = "postgres" => RoleIsFree(u)
           /\ DropRole(e, u)
        \/ pc[p] \in {"pgDropDatabase", "myDropDatabase"} /\ DropDb(e, d)
        \/ /\ pc[p] \in {"pgDropUser", "myDropUser"}
           /\ e = "postgres" => RoleIsFree(u)
           /\ DropRole(e, u)

\* Each step of an adapter runs on the engine of its invocation.
LEMMA OnEngine ==
    ASSUME RouteInv, NEW p \in Invocations
    PROVE  /\ pc[p] \in {"pgDropDatabase", "pgDropUser"} \cup PgCalls => Engine(p) = "postgres"
           /\ pc[p] \in {"myDropUser", "myDropDatabase", "myFlushDrop"} \cup MyCalls => Engine(p) = "mysql"
           /\ pc[p] \in Changing \cup Rotating \cup Dropping => Engine(p) \in Engines
           /\ pc[p] \in Changing \cup Dropping => ValidNames(p)
           /\ pc[p] \in Looking \cup Changing \cup {"prepare"} => Provisioning(p)
           /\ pc[p] \in Rotating => Request(p).cmd = "rotate"
           /\ pc[p] \in {"pgDropDatabase", "myDropUser"} \cup Dropping => Request(p).cmd = "delete"
  BY Locals DEF Routed, ValidNames, Provisioning

LEMMA PgWrites ==
    ASSUME RouteInv, NEW p \in Invocations, PgStep(p)
    PROVE  SqlWrite(p) /\ UNCHANGED vaultVars
  <1>1. Engine(p) = "postgres"
    BY OnEngine DEF PgStep, PgUser, PgDatabase, PgLockdown, LockdownStep, PgGrant, PgUndoDatabase,
       PgUndoUser, PgDropDatabase, PgDropUser, At, PgCalls, Locking
  <1>2. UNCHANGED vaultVars
    BY DEF PgStep, PgUser, PgDatabase, PgLockdown, LockdownStep, PgGrant, PgUndoDatabase,
       PgUndoUser, PgDropDatabase, PgDropUser, SqlCall, Local, vaultVars
  <1>3. CASE PgUser(p)
    <2>1. /\ pc[p] = "pgUser"
          /\ \/ UNCHANGED sqlVars
             \/ (job[p].userThere <=> RoleExists(Pg, UserOf(p))) /\ SetPassword(Pg, UserOf(p), p)
      BY <1>3 DEF PgUser, SqlCall, Call, At
    <2> QED
      BY <1>1, <1>2, <2>1 DEF SqlWrite, Pg
  <1>4. CASE PgDatabase(p)
    <2>1. /\ pc[p] = "pgDatabase"
          /\ \/ UNCHANGED sqlVars
             \/ /\ job[p].dbThere /\ DbExists(Pg, DbOf(p)) /\ RoleExists(Pg, UserOf(p))
                /\ SetOwner(Pg, DbOf(p), UserOf(p))
             \/ /\ ~DbExists(Pg, DbOf(p)) /\ RoleExists(Pg, UserOf(p))
                /\ CreateDb(Pg, DbOf(p), UserOf(p))
      BY <1>4 DEF PgDatabase, SqlCall, Call, At
    <2> QED
      BY <1>1, <1>2, <2>1 DEF SqlWrite, Pg, At
  <1>5. CASE PgLockdown(p)
    <2>1. /\ pc[p] \in Locking
          /\ UNCHANGED sqlVars \/ \E statement \in Lockdown : Harden(Pg, DbOf(p), statement)
      BY <1>5 DEF PgLockdown, LockdownStep, Lockdown, Locking, SqlCall, Call, At
    <2> QED
      BY <1>1, <1>2, <2>1 DEF SqlWrite, Pg
  <1>6. CASE PgGrant(p)
    <2>1. /\ pc[p] = "pgGrant"
          /\ \/ UNCHANGED sqlVars
             \/ /\ DbExists(Pg, DbOf(p)) /\ RoleExists(Pg, UserOf(p))
                /\ GrantAccess(Pg, DbOf(p), UserOf(p))
      BY <1>6 DEF PgGrant, SqlCall, Call, At
    <2> QED
      BY <1>1, <1>2, <2>1 DEF SqlWrite, Pg
  <1>7. CASE PgUndoDatabase(p)
    <2>1. /\ pc[p] = "pgUndoDatabase"
          /\ \/ UNCHANGED sqlVars
             \/ job[p].dbMade /\ DropDb(Pg, DbOf(p))
      BY <1>7 DEF PgUndoDatabase, SqlCall, Call, Local, At, sqlVars
    <2> QED
      BY <1>1, <1>2, <2>1 DEF SqlWrite, Pg
  <1>8. CASE PgUndoUser(p)
    <2>1. /\ pc[p] = "pgUndoUser"
          /\ \/ UNCHANGED sqlVars
             \/ job[p].userMade /\ RoleIsFree(UserOf(p)) /\ DropRole(Pg, UserOf(p))
      BY <1>8 DEF PgUndoUser, SqlCall, Call, Local, At, sqlVars
    <2> QED
      BY <1>1, <1>2, <2>1 DEF SqlWrite, Pg
  <1>9. CASE PgDropDatabase(p)
    <2>1. pc[p] = "pgDropDatabase" /\ (UNCHANGED sqlVars \/ DropDb(Pg, DbOf(p)))
      BY <1>9 DEF PgDropDatabase, SqlCall, Call, At
    <2> QED
      BY <1>1, <1>2, <2>1 DEF SqlWrite, Pg
  <1>10. CASE PgDropUser(p)
    <2>1. /\ pc[p] = "pgDropUser"
          /\ \/ UNCHANGED sqlVars
             \/ RoleIsFree(UserOf(p)) /\ DropRole(Pg, UserOf(p))
      BY <1>10 DEF PgDropUser, SqlCall, Call, At
    <2> QED
      BY <1>1, <1>2, <2>1 DEF SqlWrite, Pg
  <1> QED
    BY <1>3, <1>4, <1>5, <1>6, <1>7, <1>8, <1>9, <1>10 DEF PgStep

LEMMA MyWrites ==
    ASSUME RouteInv, NEW p \in Invocations, MyStep(p)
    PROVE  SqlWrite(p) /\ UNCHANGED vaultVars
  <1>1. Engine(p) = "mysql"
    BY OnEngine DEF MyStep, MyDatabase, MyUser, MyGrant, MyFlush, MyUndoUser, MyUndoDatabase,
       MyDropUser, MyDropDatabase, MyFlushDrop, At, MyCalls
  <1>2. UNCHANGED vaultVars
    BY DEF MyStep, MyDatabase, MyUser, MyGrant, MyFlush, MyUndoUser, MyUndoDatabase,
       MyDropUser, MyDropDatabase, MyFlushDrop, SqlCall, Read, Local, vaultVars
  <1>3. CASE MyDatabase(p)
    <2>1. /\ pc[p] = "myDatabase"
          /\ \/ UNCHANGED sqlVars
             \/ ~DbExists(My, DbOf(p)) /\ CreateDb(My, DbOf(p), Admin)
      BY <1>3 DEF MyDatabase, SqlCall, Call, Local, At, sqlVars
    <2> QED
      BY <1>1, <1>2, <2>1 DEF SqlWrite, My
  <1>4. CASE MyUser(p)
    <2>1. /\ pc[p] = "myUser"
          /\ \/ UNCHANGED sqlVars
             \/ (job[p].userThere <=> RoleExists(My, UserOf(p))) /\ SetPassword(My, UserOf(p), p)
      BY <1>4 DEF MyUser, SqlCall, Call, At
    <2> QED
      BY <1>1, <1>2, <2>1 DEF SqlWrite, My
  <1>5. CASE MyGrant(p)
    <2>1. pc[p] = "myGrant" /\ (UNCHANGED sqlVars \/ GrantAccess(My, DbOf(p), UserOf(p)))
      BY <1>5 DEF MyGrant, SqlCall, Call, At
    <2> QED
      BY <1>1, <1>2, <2>1 DEF SqlWrite, My
  <1>6. CASE MyFlush(p) \/ MyFlushDrop(p)
    BY <1>2, <1>6 DEF MyFlush, MyFlushDrop, Read, SqlWrite, sqlVars
  <1>7. CASE MyUndoUser(p)
    <2>1. /\ pc[p] = "myUndoUser"
          /\ \/ UNCHANGED sqlVars
             \/ job[p].userMade /\ DropRole(My, UserOf(p))
      BY <1>7 DEF MyUndoUser, SqlCall, Call, Local, At, sqlVars
    <2> QED
      BY <1>1, <1>2, <2>1 DEF SqlWrite, My
  <1>8. CASE MyUndoDatabase(p)
    <2>1. /\ pc[p] = "myUndoDatabase"
          /\ \/ UNCHANGED sqlVars
             \/ job[p].dbMade /\ DropDb(My, DbOf(p))
      BY <1>8 DEF MyUndoDatabase, SqlCall, Call, Local, At, sqlVars
    <2> QED
      BY <1>1, <1>2, <2>1 DEF SqlWrite, My
  <1>9. CASE MyDropUser(p)
    <2>1. pc[p] = "myDropUser" /\ (UNCHANGED sqlVars \/ DropRole(My, UserOf(p)))
      BY <1>9 DEF MyDropUser, SqlCall, Call, At
    <2> QED
      BY <1>1, <1>2, <2>1 DEF SqlWrite, My
  <1>10. CASE MyDropDatabase(p)
    <2>1. pc[p] = "myDropDatabase" /\ (UNCHANGED sqlVars \/ DropDb(My, DbOf(p)))
      BY <1>10 DEF MyDropDatabase, SqlCall, Call, At
    <2> QED
      BY <1>1, <1>2, <2>1 DEF SqlWrite, My
  <1> QED
    BY <1>3, <1>4, <1>5, <1>6, <1>7, <1>8, <1>9, <1>10 DEF MyStep

LEMMA ProvisionWrites ==
    ASSUME NEW p \in Invocations, ProvisionStep(p)
    PROVE  UNCHANGED sqlVars /\ VaultWrite(p)
  <1>1. UNCHANGED sqlVars
    BY DEF ProvisionStep, Prepare, CreateFolder, FolderExists, Inspect, CheckDatabase, CheckUser,
       Provisioned, Sync, SyncDone, PrintCredentials, PrintsPassword, VaultCall, Read, Local, sqlVars
  <1>2. CASE CreateFolder(p)
    BY <1>1, <1>2 DEF CreateFolder, VaultCall, Call, VaultWrite
  <1>3. CASE Sync(p)
    BY <1>1, <1>3 DEF Sync, VaultCall, Call, VaultWrite
  <1>4. CASE /\ ~CreateFolder(p) /\ ~Sync(p)
    <2>1. UNCHANGED vaultVars
      BY <1>4 DEF ProvisionStep, Prepare, FolderExists, Inspect, CheckDatabase, CheckUser,
         Provisioned, SyncDone, PrintCredentials, PrintsPassword, Read, Local, vaultVars
    <2> QED
      BY <1>1, <2>1 DEF VaultWrite
  <1> QED
    BY <1>2, <1>3, <1>4

LEMMA RotateWrites ==
    ASSUME NEW p \in Invocations, RotateStep(p)
    PROVE  SqlWrite(p) /\ VaultWrite(p)
  <1>1. CASE Alter(p)
    BY <1>1 DEF Alter, RotatePassword, SqlCall, Call, SqlWrite, VaultWrite, vaultVars
  <1>2. CASE Restore(p)
    BY <1>2 DEF Restore, RotatePassword, SqlCall, Call, SqlWrite, VaultWrite, vaultVars
  <1>3. CASE Record(p)
    BY <1>3 DEF Record, VaultCall, Call, CanCreate, CanUpdate, SqlWrite, VaultWrite, sqlVars
  <1>4. CASE ResolveAgain(p) \/ Verify(p) \/ PrintRotated(p)
    BY <1>4 DEF ResolveAgain, Verify, PrintRotated, Read, Local, SqlWrite, VaultWrite, sqlVars, vaultVars
  <1> QED
    BY <1>1, <1>2, <1>3, <1>4 DEF RotateStep

LEMMA DeleteWrites ==
    ASSUME RouteInv, NEW p \in Invocations, DeleteStep(p)
    PROVE  UNCHANGED sqlVars /\ VaultWrite(p)
  <1>0. /\ pc \in [Invocations -> Steps] /\ job \in [Invocations -> Job] /\ job[p] \in Job
    BY DEF RouteInv, TypeInv, TypeOK
  <1>1. UNCHANGED sqlVars
    BY DEF DeleteStep, ListSecrets, Erase, DeleteFolder, VaultCall, Read, sqlVars
  <1>2. CASE ListSecrets(p)
    BY <1>1, <1>2 DEF ListSecrets, Read, VaultWrite, vaultVars
  <1>3. CASE Erase(p)
    <2>1. PICK k \in NextToErase(job[p].left) :
            VaultCall(CanUpdate(Site(p), k), Put(Site(p), k, Absent),
                      GotoWith(p, "erase", [job[p] EXCEPT !.left = @ \ {k}]),
                      Goto(p, "failed"))
      BY <1>3 DEF Erase
    <2>2. k \in job[p].left /\ k \in Keys
      BY <1>0 DEF NextToErase, Keys
    <2>3. [job[p] EXCEPT !.left = @ \ {k}].left # job[p].left
      BY <1>0, <2>2 DEF Job
    <2>4. pc[p] = "erase"
      BY <1>3 DEF Erase, At
    <2>5. \/ GotoWith(p, "erase", [job[p] EXCEPT !.left = @ \ {k}])
          \/ Goto(p, "failed")
      BY <2>1 DEF VaultCall, Call
    <2>6. Moves(p)
      BY <1>0, <2>3, <2>4, <2>5 DEF Moves, Goto, GotoWith
    <2>7. \/ UNCHANGED vaultVars
          \/ CanUpdate(Site(p), k) /\ Put(Site(p), k, Absent)
      BY <2>1 DEF VaultCall, Call
    <2> QED
      BY <1>1, <2>2, <2>4, <2>6, <2>7 DEF VaultWrite, At
  <1>4. CASE DeleteFolder(p)
    <2>1. Moves(p)
      BY <1>0, <1>4 DEF DeleteFolder, At, Moves, VaultCall, Call, Goto
    <2> QED
      BY <1>1, <1>4, <2>1 DEF DeleteFolder, VaultCall, Call, VaultWrite
  <1> QED
    BY <1>2, <1>3, <1>4 DEF DeleteStep

\* The only steps that write, and what they write.
LEMMA Writes ==
    ASSUME RouteInv, NEW p \in Invocations, Step(p)
    PROVE  SqlWrite(p) /\ VaultWrite(p)
  <1>1. CASE PgStep(p) \/ MyStep(p)
    BY <1>1, PgWrites, MyWrites DEF VaultWrite
  <1>2. CASE ProvisionStep(p) \/ DeleteStep(p)
    BY <1>2, ProvisionWrites, DeleteWrites DEF SqlWrite
  <1>3. CASE ResolveStep(p)
    BY <1>3 DEF ResolveStep, Resolve, Confirm, Decline, Read, Local, SqlWrite, VaultWrite,
       sqlVars, vaultVars
  <1> QED
    BY <1>1, <1>2, <1>3, RotateWrites DEF Step

\* Only steps of commands write: a start or a crash writes nothing.
LEMMA WritersOnly ==
    ASSUME RouteInv, [Next]_vars
    PROVE  \/ UNCHANGED <<role, owner, access, hardening, secrets, folder>>
           \/ \E p \in Invocations : Step(p) /\ SqlWrite(p) /\ VaultWrite(p)
  BY Writes DEF Next, vars, Start, Crash, Local

\* Whoever makes a step moves only itself.
LEMMA OneMoves ==
    ASSUME RouteInv, [Next]_vars
    PROVE  \/ UNCHANGED <<pc, job>>
           \/ \E p \in Invocations :
                /\ \E l, j : GotoWith(p, l, j)
                /\ \A q \in Invocations \ {p} : pc'[q] = pc[q] /\ job'[q] = job[q] /\ ~Moves(q)
                /\ \/ Step(p)
                   \/ /\ Crash(p) \/ \E r \in Requests : Start(p, r)
                      /\ UNCHANGED <<role, owner, access, hardening, secrets, folder>>
  <1>1. ASSUME NEW p \in Invocations, Step(p) \/ Crash(p) \/ \E r \in Requests : Start(p, r)
        PROVE  \E l, j : GotoWith(p, l, j)
    BY <1>1, PgFollows, MyFollows, ProvisionFollows, ResolveFollows, RotateFollows, DeleteFollows,
       StartFollows, CrashFollows DEF Step, Follows
  <1>2. ASSUME NEW p \in Invocations, NEW l, NEW j, GotoWith(p, l, j)
        PROVE  \A q \in Invocations \ {p} : pc'[q] = pc[q] /\ job'[q] = job[q] /\ ~Moves(q)
    BY <1>2 DEF GotoWith, Moves, RouteInv, TypeInv, TypeOK
  <1>3. CASE UNCHANGED vars
    BY <1>3 DEF vars
  <1>4. CASE Next
    <2>1. PICK p \in Invocations : Step(p) \/ Crash(p) \/ \E r \in Requests : Start(p, r)
      BY <1>4 DEF Next
    <2>2. (Crash(p) \/ \E r \in Requests : Start(p, r)) =>
            UNCHANGED <<role, owner, access, hardening, secrets, folder>>
      BY DEF Crash, Start, Local
    <2> QED
      BY <1>1, <1>2, <2>1, <2>2
  <1> QED
    BY <1>3, <1>4

----------------------------------------------------------------------------
(* What a sync has left to do is always part of its plan.                  *)

LeftInv ==
    /\ RouteInv
    /\ \A p \in Invocations : At(p, "sync") => job[p].left \subseteq Touched(Plan(p))

\* The key it writes next, then, is one of the contract that it has left.
LEMMA NextOfPlan ==
    ASSUME LeftInv, NEW p \in Invocations, At(p, "sync"), job[p].left # {}
    PROVE  LET k == NextOperation(Plan(p), job[p].left)
           IN  /\ k \in job[p].left /\ k \in ContractKeys
               /\ k \in Touched(Plan(p))
  <1> DEFINE c == Plan(p).creates
             u == Plan(p).updates
             d == Plan(p).deletes
             left == job[p].left
             k == NextOperation(Plan(p), left)
  <1>1. left \subseteq c \cup u \cup d
    BY DEF LeftInv, Touched
  <1>2. c \subseteq ContractKeys /\ u \subseteq ContractKeys /\ d \subseteq ContractKeys
    BY DEF Plan, PlanSecretSync
  <1>3. PICK S \in {c, u, d} : k = Earliest(SerializationOrder, S \cap left) /\ S \cap left # {}
    BY <1>1 DEF NextOperation
  <1>4. S \cap left \in SUBSET ContractKeys
    BY <1>2
  <1>5. k \in S \cap left
    BY <1>3, <1>4, EarliestKey
  <1> QED
    BY <1>2, <1>5 DEF Touched

\* A plan is made of what an invocation saw, of its request and of its engine.
LEMMA PlanKept ==
    ASSUME NEW p, job'[p].req = job[p].req, job'[p].engine = job[p].engine,
           job'[p].seen = job[p].seen
    PROVE  Plan(p)' = Plan(p)
  <1>1. Request(p)' = Request(p) /\ Engine(p)' = Engine(p)
    BY DEF Request, Engine
  <1>2. Options(Request(p))' = Options(Request(p))
    BY <1>1 DEF Options
  <1>3. Desired(p)' = Desired(p)
    BY <1>1, <1>2 DEF Desired
  <1> QED
    BY <1>3 DEF Plan

LEMMA LeftInvInductive ==
    ASSUME LeftInv, [Next]_vars
    PROVE  LeftInv'
  <1>0. /\ RouteInv /\ RouteInv'
        /\ job \in [Invocations -> Job] /\ pc \in [Invocations -> Steps]
    BY RouteInvInductive DEF LeftInv, RouteInv, TypeInv, TypeOK
  <1>1. ASSUME NEW p \in Invocations, pc'[p] = pc[p], job'[p] = job[p], At(p, "sync")
        PROVE  (job[p].left \subseteq Touched(Plan(p)))'
    BY <1>1, PlanKept DEF LeftInv, Touched
  <1>2. ASSUME NEW p \in Invocations, pc'[p] = "sync", Step(p)
        PROVE  (job[p].left \subseteq Touched(Plan(p)))'
    <2>1. CASE Provisioned(p)
      <3>1. job'[p] = [job[p] EXCEPT !.left = Touched(Plan(p))]
        BY <1>0, <1>2, <2>1 DEF Provisioned, Local, Goto, GotoWith
      <3>2. /\ job'[p].req = job[p].req /\ job'[p].engine = job[p].engine
            /\ job'[p].seen = job[p].seen /\ job'[p].left = Touched(Plan(p))
        BY <1>0, <3>1 DEF Job
      <3> QED
        BY <3>2, PlanKept DEF Touched
    <2>2. CASE Sync(p)
      <3>1. PICK k : job'[p] = [job[p] EXCEPT !.left = @ \ {k}]
        BY <1>0, <1>2, <2>2 DEF Sync, VaultCall, Call, Goto, GotoWith
      <3>2. /\ job'[p].req = job[p].req /\ job'[p].engine = job[p].engine
            /\ job'[p].seen = job[p].seen /\ job'[p].left \subseteq job[p].left
        BY <1>0, <3>1 DEF Job
      <3>3. job[p].left \subseteq Touched(Plan(p))
        BY <2>2 DEF LeftInv, Sync
      <3> QED
        BY <3>2, <3>3, PlanKept DEF Touched
    <2>3. ~(\/ PgStep(p) \/ MyStep(p) \/ ResolveStep(p) \/ RotateStep(p) \/ DeleteStep(p))
      <3>1. pc'[p] # "sync" \/ ~PgStep(p)
        BY <1>0 DEF PgStep, PgUser, PgDatabase, PgLockdown, LockdownStep, PgGrant, PgUndoDatabase,
           PgUndoUser, PgDropDatabase, PgDropUser, SqlCall, Call, Local, Goto, GotoWith
      <3>2. pc'[p] # "sync" \/ ~MyStep(p)
        BY <1>0 DEF MyStep, MyDatabase, MyUser, MyGrant, MyFlush, MyUndoUser, MyUndoDatabase,
           MyDropUser, MyDropDatabase, MyFlushDrop, SqlCall, Call, Read, Local, Goto, GotoWith
      <3>3. pc'[p] # "sync" \/ ~ResolveStep(p)
        <4>1. AfterConfirm(p) # "sync" \/ ~Confirm(p)
          <5>1. At(p, "confirm") => Engine(p) \in Engines
            BY <1>0, WorkingEngine DEF At, Finished, RouteInv
          <5> QED
            BY <1>0, <5>1, CommandCases DEF AfterConfirm, FirstDrop, Engines, RouteInv, Confirm
        <4> QED
          BY <1>0, <4>1 DEF ResolveStep, Resolve, Confirm, Decline, Read, Local, Goto, GotoWith
      <3>4. pc'[p] # "sync" \/ ~RotateStep(p)
        BY <1>0 DEF RotateStep, ResolveAgain, Alter, Record, Verify, Restore, PrintRotated,
           RotatePassword, AfterRecordFailed, SqlCall, VaultCall, Call, Read, Local, Goto, GotoWith
      <3>5. pc'[p] # "sync" \/ ~DeleteStep(p)
        BY <1>0 DEF DeleteStep, ListSecrets, Erase, DeleteFolder, VaultCall, Call, Read, Goto, GotoWith
      <3> QED
        BY <1>2, <3>1, <3>2, <3>3, <3>4, <3>5
    <2>4. \/ Provisioned(p) \/ Sync(p)
          \/ ~(\/ Prepare(p) \/ CreateFolder(p) \/ FolderExists(p) \/ Inspect(p) \/ CheckDatabase(p)
               \/ CheckUser(p) \/ SyncDone(p) \/ PrintCredentials(p))
      <3>1. CheckUser(p) => FirstStatement[Engine(p)] # "sync"
        BY <1>0, OnEngine DEF CheckUser, At, Changing, FirstStatement, Engines
      <3> QED
        BY <1>0, <1>2, <3>1 DEF Prepare, CreateFolder, FolderExists, Inspect, CheckDatabase,
           CheckUser, SyncDone, PrintCredentials, PrintsPassword, VaultCall, Call, Read, Local,
           Goto, GotoWith
    <2> QED
      BY <1>2, <2>1, <2>2, <2>3, <2>4 DEF Step, ProvisionStep
  <1>3. ASSUME NEW p \in Invocations, Crash(p) \/ \E r \in Requests : Start(p, r)
        PROVE  pc'[p] # "sync"
    BY <1>0, <1>3 DEF Crash, Start, Local, Goto, GotoWith, FirstStep
  <1>4. \A p \in Invocations : pc'[p] = "sync" => (job[p].left \subseteq Touched(Plan(p)))'
    BY <1>0, <1>1, <1>2, <1>3, OneMoves DEF At
  <1> QED
    BY <1>0, <1>4 DEF LeftInv, At

LEMMA LeftInvariance == Spec => []LeftInv
  <1>1. Init => LeftInv
    BY RouteInit DEF Init, LeftInv, At
  <1>2. LeftInv /\ [Next]_vars => LeftInv'
    BY LeftInvInductive
  <1> QED
    BY <1>1, <1>2, PTL DEF Spec

\* The operator's own keys survive whatever overlaps and fails: no step but one
\* of a delete that is past its drops changes any of them (syncplan.go plans
\* over the contract's keys alone, Rotate writes DB_PASSWORD alone).
THEOREM OperatorsKeys == Spec => ExtrasSurvive
  <1> DEFINE Kept1 == \A s \in Sites, k \in ExtraKeys : secrets'[s][k] # secrets[s][k] =>
                        \E p \in Invocations : At(p, "erase") /\ Site(p) = s /\ Moves(p)
  <1>1. LeftInv /\ [Next]_vars => [Kept1]_vars
    <2> SUFFICES ASSUME LeftInv, [Next]_vars, NEW s \in Sites, NEW k \in ExtraKeys,
                        secrets'[s][k] # secrets[s][k]
                 PROVE  \E p \in Invocations : At(p, "erase") /\ Site(p) = s /\ Moves(p)
      OBVIOUS
    <2>0. RouteInv /\ secrets \in [Sites -> SecretMaps]
      BY DEF LeftInv, RouteInv, TypeInv, TypeOK
    <2>1. PICK p \in Invocations : Step(p) /\ VaultWrite(p)
      BY <2>0, WritersOnly
    <2>2. Site(p) \in Sites /\ k \notin ContractKeys /\ k # "DB_PASSWORD" /\ k \in Keys
      BY <2>0, Locals, KeysAssumption DEF ContractKeys, Keys
    <2>3. ASSUME NEW key, NEW v, Put(Site(p), key, v)
          PROVE  s = Site(p) /\ k = key
      BY <2>0, <2>2, <2>3 DEF Put, SecretMaps
    <2>4. ASSUME RemoveFolder(Site(p)) PROVE s = Site(p)
      BY <2>0, <2>2, <2>4 DEF RemoveFolder
    <2>5. CASE At(p, "sync") /\ job[p].left # {}
               /\ Put(Site(p), NextOperation(Plan(p), job[p].left),
                      Desired(p)[NextOperation(Plan(p), job[p].left)])
      BY <2>2, <2>3, <2>5, NextOfPlan
    <2> QED
      BY <2>1, <2>2, <2>3, <2>4, <2>5 DEF VaultWrite, vaultVars, MakeFolder
  <1> QED
    BY <1>1, LeftInvariance, PTL DEF Spec, ExtrasSurvive

\* A strict run overwrites nothing, whatever runs beside it and however it
\* fails: it records only keys that are absent when it writes them, and sets a
\* password only on a user that is not there (the vault client's create fails
\* on an existing key, CREATE USER on an existing user).
THEOREM StrictOverwritesNothing == Spec => StrictNeverOverwrites
  <1> DEFINE Spares == \A p \in Invocations : Moves(p) /\ Strict(p) /\ Active(p) =>
        /\ \A s \in Sites, k \in Keys :
              secrets[s][k] # Absent => secrets'[s][k] = secrets[s][k]
        /\ \A e \in Engines, u \in Users :
              role[e][u] # Absent => role'[e][u] \in {role[e][u], Absent}
  <1>1. LeftInv /\ [Next]_vars => [Spares]_vars
    <2> SUFFICES ASSUME LeftInv, [Next]_vars, NEW p \in Invocations, Moves(p), Strict(p), Active(p)
                 PROVE  /\ \A s \in Sites, k \in Keys :
                             secrets[s][k] # Absent => secrets'[s][k] = secrets[s][k]
                        /\ \A e \in Engines, u \in Users :
                             role[e][u] # Absent => role'[e][u] \in {role[e][u], Absent}
      OBVIOUS
    <2>0. RouteInv /\ secrets \in [Sites -> SecretMaps] /\ role \in Roles
      BY DEF LeftInv, RouteInv, TypeInv, TypeOK
    <2>1. CASE UNCHANGED <<role, owner, access, hardening, secrets, folder>>
      BY <2>1
    <2>2. CASE SqlWrite(p) /\ VaultWrite(p)
      <3>1. Provisioning(p) /\ ~At(p, "record") /\ ~At(p, "erase") /\ ~At(p, "alter") /\ ~At(p, "restore")
        BY <2>0, OnEngine DEF Strict, Provisioning, At, Rotating, Dropping
      <3>2. /\ \A k \in ContractKeys : job[p].seen[k] = Absent
            /\ pc[p] \in PgCalls \cup MyCalls => ~job[p].userThere
        BY <2>0, Locals DEF Noted, Strict, Provisioning
      <3>3. Plan(p).updates = {} /\ Plan(p).deletes = {}
        BY <3>2 DEF Plan, PlanSecretSync
      <3>4. ASSUME NEW k, NEW v, secrets[Site(p)][k] = Absent, Put(Site(p), k, v)
            PROVE  \A s \in Sites, key \in Keys :
                     secrets[s][key] # Absent => secrets'[s][key] = secrets[s][key]
        BY <2>0, <3>4 DEF Put, SecretMaps
      <3>5. \A s \in Sites, k \in Keys : secrets[s][k] # Absent => secrets'[s][k] = secrets[s][k]
        <4>1. CASE At(p, "sync") /\ job[p].left # {}
          <5>1. PICK k : k = NextOperation(Plan(p), job[p].left)
            OBVIOUS
          <5>2. k \in Plan(p).creates
            BY <3>3, <4>1, <5>1, NextOfPlan DEF Touched
          <5>3. UNCHANGED vaultVars \/ (CanCreate(Site(p), k) /\ Put(Site(p), k, Desired(p)[k]))
            BY <2>2, <4>1, <5>1, <5>2 DEF VaultWrite, At
          <5> QED
            BY <3>4, <5>3 DEF CanCreate, vaultVars
        <4>2. CASE ~(At(p, "sync") /\ job[p].left # {})
          BY <2>2, <3>1, <4>2 DEF VaultWrite, MakeFolder, vaultVars
        <4> QED
          BY <4>1, <4>2
      <3>6. \A e \in Engines, u \in Users :
              role[e][u] # Absent => role'[e][u] \in {role[e][u], Absent}
        <4>1. CASE pc[p] \in {"pgUser", "myUser"} /\ ~RoleExists(Engine(p), UserOf(p))
                   /\ SetPassword(Engine(p), UserOf(p), p)
          <5>1. Engine(p) \in Engines /\ UserOf(p) \in Users
            BY <2>0, <4>1, OnEngine DEF ValidNames, Changing, PgCalls, MyCalls
          <5>2. role[Engine(p)][UserOf(p)] = Absent
            BY <4>1, <5>1 DEF RoleExists
          <5> QED
            BY <2>0, <4>1, <5>1, <5>2 DEF SetPassword, Roles
        <4>2. CASE DropRole(Engine(p), UserOf(p))
          BY <2>0, <4>2 DEF DropRole, Roles
        <4>3. CASE role' = role
          BY <4>3
        <4> QED
          BY <2>2, <3>1, <3>2, <4>1, <4>2, <4>3 DEF SqlWrite, sqlVars, CreateDb, SetOwner, Harden,
             GrantAccess, DropDb, PgCalls, MyCalls
      <3> QED
        BY <3>5, <3>6
    <2>3. \/ UNCHANGED <<role, owner, access, hardening, secrets, folder>>
          \/ SqlWrite(p) /\ VaultWrite(p)
      <3>1. ~UNCHANGED <<pc, job>>
        BY DEF Moves
      <3> QED
        BY <2>0, <3>1, OneMoves, Writes
    <2> QED
      BY <2>1, <2>2, <2>3
  <1> QED
    BY <1>1, LeftInvariance, PTL DEF Spec, StrictNeverOverwrites

----------------------------------------------------------------------------
(* What a delete has dropped stays dropped: if operators wait for each      *)
(* other, or if nobody provisions.                                          *)

NoneProvisioned == \A p \in Invocations : Provisioning(p) => At(p, "idle")

\* Operators that wait for each other are one at a time.
Alone == \A p, q \in Invocations : Active(p) /\ Active(q) => p = q

Cleared(p) ==
    /\ pc[p] \in {"pgDropUser", "myFlushDrop", "listSecrets", "erase"} =>
        ~DbExists(Engine(p), DbOf(p))
    /\ pc[p] \in {"myDropDatabase", "myFlushDrop", "listSecrets", "erase"} =>
        ~RoleExists(Engine(p), UserOf(p))

DropInv ==
    /\ RouteInv
    /\ Exclusive => Alone
    /\ Exclusive \/ NoneProvisioned => \A p \in Invocations : Cleared(p)
    /\ NoneProvisioned => \A p \in Invocations : At(p, "deleted") => Gone(p)

\* A step keeps the request of its invocation and does not unmake its start.
LEMMA StepKeeps ==
    ASSUME RouteInv, NEW p \in Invocations, Step(p)
    PROVE  job'[p].req = job[p].req /\ pc'[p] # "idle" /\ Active(p)
  <1>0. job \in [Invocations -> Job] /\ pc \in [Invocations -> Steps] /\ job[p] \in Job
    BY DEF RouteInv, TypeInv, TypeOK
  <1>1. ASSUME NEW l, l # "idle"
        PROVE  \A b : \/ GotoWith(p, l, [job[p] EXCEPT !.userMade = b])
                      \/ GotoWith(p, l, [job[p] EXCEPT !.dbMade = b])
                      \/ GotoWith(p, l, [job[p] EXCEPT !.dbThere = b])
                      \/ GotoWith(p, l, [job[p] EXCEPT !.userThere = b])
                      \/ GotoWith(p, l, [job[p] EXCEPT !.left = b])
                      \/ GotoWith(p, l, [job[p] EXCEPT !.seen = b])
                      => job'[p].req = job[p].req /\ pc'[p] # "idle"
    <2>1. ASSUME NEW i, i.req = job[p].req, GotoWith(p, l, i)
          PROVE  job'[p].req = job[p].req /\ pc'[p] # "idle"
      BY <1>0, <1>1, <2>1 DEF GotoWith
    <2>2. \A b : /\ [job[p] EXCEPT !.userMade = b].req = job[p].req
                 /\ [job[p] EXCEPT !.dbMade = b].req = job[p].req
                 /\ [job[p] EXCEPT !.dbThere = b].req = job[p].req
                 /\ [job[p] EXCEPT !.userThere = b].req = job[p].req
                 /\ [job[p] EXCEPT !.left = b].req = job[p].req
                 /\ [job[p] EXCEPT !.seen = b].req = job[p].req
      BY <1>0 DEF Job
    <2> QED
      BY <2>1, <2>2
  <1>2. ASSUME NEW l, l # "idle", Goto(p, l)
        PROVE  job'[p].req = job[p].req /\ pc'[p] # "idle"
    BY <1>0, <1>2 DEF Goto
  <1>3. CASE PgStep(p)
    <2>1. Active(p)
      BY <1>3 DEF PgStep, PgUser, PgDatabase, PgLockdown, LockdownStep, PgGrant, PgUndoDatabase,
         PgUndoUser, PgDropDatabase, PgDropUser, At, Active, Finished
    <2>2. job'[p].req = job[p].req /\ pc'[p] # "idle"
      BY <1>1, <1>2, <1>3 DEF PgStep, PgUser, PgDatabase, PgLockdown, LockdownStep, PgGrant,
         PgUndoDatabase, PgUndoUser, PgDropDatabase, PgDropUser, SqlCall, Call, Local
    <2> QED
      BY <2>1, <2>2
  <1>4. CASE MyStep(p)
    <2>1. Active(p)
      BY <1>4 DEF MyStep, MyDatabase, MyUser, MyGrant, MyFlush, MyUndoUser, MyUndoDatabase,
         MyDropUser, MyDropDatabase, MyFlushDrop, At, Active, Finished
    <2>2. job'[p].req = job[p].req /\ pc'[p] # "idle"
      BY <1>1, <1>2, <1>4 DEF MyStep, MyDatabase, MyUser, MyGrant, MyFlush, MyUndoUser, MyUndoDatabase,
         MyDropUser, MyDropDatabase, MyFlushDrop, SqlCall, Call, Read, Local
    <2> QED
      BY <2>1, <2>2
  <1>5. CASE ProvisionStep(p)
    <2>1. Active(p)
      BY <1>5 DEF ProvisionStep, Prepare, CreateFolder, FolderExists, Inspect, CheckDatabase, CheckUser,
         Provisioned, Sync, SyncDone, PrintCredentials, PrintsPassword, At, Active, Finished
    <2>2. CheckUser(p) => FirstStatement[Engine(p)] # "idle"
      BY OnEngine DEF CheckUser, At, Changing, FirstStatement, Engines
    <2>3. CASE CheckUser(p)
      BY <1>1, <1>2, <2>1, <2>2, <2>3 DEF CheckUser, Read
    <2>4. CASE Sync(p) \/ Provisioned(p) \/ Inspect(p) \/ CheckDatabase(p)
      BY <1>1, <1>2, <2>1, <2>4 DEF Sync, Provisioned, Inspect, CheckDatabase, VaultCall, Call, Read, Local
    <2>5. CASE Prepare(p) \/ CreateFolder(p) \/ FolderExists(p) \/ SyncDone(p) \/ PrintCredentials(p)
      BY <1>1, <1>2, <2>1, <2>5 DEF Prepare, CreateFolder, FolderExists, SyncDone, PrintCredentials,
         PrintsPassword, VaultCall, Call, Read, Local
    <2> QED
      BY <1>5, <2>1, <2>3, <2>4, <2>5 DEF ProvisionStep
  <1>6. CASE ResolveStep(p)
    <2>1. Active(p)
      BY <1>6 DEF ResolveStep, Resolve, Confirm, Decline, At, Active, Finished
    <2>2. CASE Resolve(p)
      <3>1. CASE Goto(p, "failed")
        BY <1>0, <2>1, <3>1 DEF Goto
      <3>2. \A m, e : [job[p] EXCEPT !.seen = m, !.engine = e].req = job[p].req
        BY <1>0 DEF Job
      <3>3. ASSUME NEW i, GotoWith(p, "confirm", i), i.req = job[p].req
            PROVE  job'[p].req = job[p].req /\ pc'[p] # "idle"
        BY <1>0, <3>3 DEF GotoWith
      <3> QED
        BY <2>1, <2>2, <3>1, <3>2, <3>3 DEF Resolve, Read
    <2>3. CASE Confirm(p)
      <3>1. Engine(p) \in Engines
        BY <2>3, WorkingEngine DEF Confirm, At, Finished, RouteInv
      <3>2. AfterConfirm(p) # "idle"
        BY <3>1, CommandCases DEF AfterConfirm, FirstDrop, Engines, RouteInv
      <3> QED
        BY <1>1, <1>2, <2>1, <2>3, <3>2 DEF Confirm, Local
    <2>4. CASE Decline(p)
      BY <1>1, <1>2, <2>1, <2>4 DEF Decline, Local
    <2> QED
      BY <1>6, <2>1, <2>2, <2>3, <2>4 DEF ResolveStep
  <1>7. CASE RotateStep(p)
    <2>1. Active(p)
      BY <1>7 DEF RotateStep, ResolveAgain, Alter, Record, Verify, Restore, PrintRotated,
         At, Active, Finished
    <2>2. AfterRecordFailed(p) # "idle"
      BY DEF AfterRecordFailed
    <2>3. job'[p].req = job[p].req /\ pc'[p] # "idle"
      BY <1>1, <1>2, <1>7, <2>2 DEF RotateStep, ResolveAgain, Alter, Record, Verify, Restore,
         PrintRotated, RotatePassword, SqlCall, VaultCall, Call, Read, Local
    <2> QED
      BY <2>1, <2>3
  <1>8. CASE DeleteStep(p)
    <2>1. Active(p)
      BY <1>8 DEF DeleteStep, ListSecrets, Erase, DeleteFolder, At, Active, Finished
    <2>2. job'[p].req = job[p].req /\ pc'[p] # "idle"
      BY <1>1, <1>2, <1>8 DEF DeleteStep, ListSecrets, Erase, DeleteFolder, VaultCall, Call, Read
    <2> QED
      BY <2>1, <2>2
  <1> QED
    BY <1>3, <1>4, <1>5, <1>6, <1>7, <1>8 DEF Step

\* A rotation or a delete brings nothing back.
LEMMA Removes ==
    ASSUME RouteInv, NEW p \in Invocations, Step(p), ~Provisioning(p)
    PROVE  /\ \A e \in Engines : \A d : ~DbExists(e, d) => ~DbExists(e, d)'
           /\ \A e \in Engines : \A u : ~RoleExists(e, u) => ~RoleExists(e, u)'
           /\ \A s \in Sites : ~folder[s] /\ (\A k \in Keys : secrets[s][k] = Absent) =>
                ~folder'[s] /\ \A k \in Keys : secrets'[s][k] = Absent
  <1>0. /\ role \in Roles /\ owner \in Owners /\ secrets \in [Sites -> SecretMaps]
        /\ folder \in [Sites -> BOOLEAN]
    BY DEF RouteInv, TypeInv, TypeOK
  <1>1. pc[p] \notin Looking \cup Changing \cup {"prepare"}
    BY OnEngine
  <1>2. SqlWrite(p) /\ VaultWrite(p)
    BY Writes
  <1>3. \/ UNCHANGED sqlVars
        \/ \E pw : RoleExists(Engine(p), UserOf(p)) /\ SetPassword(Engine(p), UserOf(p), pw)
        \/ DropDb(Engine(p), DbOf(p))
        \/ DropRole(Engine(p), UserOf(p))
    BY <1>1, <1>2 DEF SqlWrite, At, Changing, PgCalls, MyCalls, Locking
  <1>4. ASSUME NEW e \in Engines, NEW d, ~DbExists(e, d)
        PROVE  ~DbExists(e, d)'
    BY <1>0, <1>3, <1>4 DEF DbExists, sqlVars, SetPassword, DropDb, DropRole, Owners
  <1>5. ASSUME NEW e \in Engines, NEW u, ~RoleExists(e, u)
        PROVE  ~RoleExists(e, u)'
    BY <1>0, <1>3, <1>5 DEF RoleExists, sqlVars, SetPassword, DropDb, DropRole, Roles
  <1>6. ASSUME NEW s \in Sites, ~folder[s], \A k \in Keys : secrets[s][k] = Absent
        PROVE  ~folder'[s] /\ \A k \in Keys : secrets'[s][k] = Absent
    <2>1. \/ UNCHANGED vaultVars
          \/ \E k, v : folder[Site(p)] /\ Put(Site(p), k, v)
          \/ RemoveFolder(Site(p))
      BY <1>1, <1>2 DEF VaultWrite, At, Looking, Changing, Ending, CanUpdate
    <2> QED
      BY <1>0, <1>6, <2>1 DEF vaultVars, Put, RemoveFolder
  <1> QED
    BY <1>4, <1>5, <1>6

\* Only a delete goes on to the steps after its first drop.
LEMMA ToDropping ==
    ASSUME RouteInv, RouteInv', NEW p \in Invocations, Step(p), pc'[p] \in Dropping
    PROVE  \/ PgDropDatabase(p) \/ PgDropUser(p) \/ MyDropUser(p) \/ MyDropDatabase(p)
           \/ MyFlushDrop(p) \/ DeleteStep(p)
  <1>0. pc \in [Invocations -> Steps]
    BY DEF RouteInv, TypeInv, TypeOK
  <1>1. job'[p].req.cmd = "delete"
    BY DEF RouteInv, Routed
  <1>2. job[p].req.cmd = "delete"
    BY <1>1, StepKeeps
  <1>3. pc[p] \notin {"prepare"} \cup Looking \cup Changing \cup Rotating
    BY <1>2, Locals DEF Routed
  <1>4. ~ProvisionStep(p) /\ ~RotateStep(p)
    BY <1>3 DEF ProvisionStep, Prepare, CreateFolder, FolderExists, Inspect, CheckDatabase, CheckUser,
       Provisioned, Sync, SyncDone, PrintCredentials, PrintsPassword, RotateStep, ResolveAgain, Alter,
       Record, Verify, Restore, PrintRotated, At, Looking, Changing, Ending, Rotating
  <1>5. /\ PgStep(p) => PgDropDatabase(p) \/ PgDropUser(p)
        /\ MyStep(p) => MyDropUser(p) \/ MyDropDatabase(p) \/ MyFlushDrop(p)
    BY <1>3 DEF PgStep, PgUser, PgDatabase, PgLockdown, LockdownStep, PgGrant, PgUndoDatabase, PgUndoUser,
       MyStep, MyDatabase, MyUser, MyGrant, MyFlush, MyUndoUser, MyUndoDatabase, At, Changing,
       PgCalls, MyCalls, Locking
  <1>6. ~ResolveStep(p)
    <2>1. Confirm(p) => Engine(p) \in Engines
      BY WorkingEngine DEF Confirm, At, Finished, RouteInv
    <2>2. Confirm(p) => AfterConfirm(p) \notin Dropping
      BY <1>2, <2>1 DEF AfterConfirm, FirstDrop, Engines, Request, Dropping
    <2> QED
      BY <1>0, <2>2 DEF ResolveStep, Resolve, Confirm, Decline, Read, Local, Goto, GotoWith, Dropping
  <1> QED
    BY <1>4, <1>5, <1>6 DEF Step

\* Each step of a delete goes on only after its drop, and undoes none.
LEMMA DropStep ==
    ASSUME RouteInv, RouteInv', NEW p \in Invocations, Cleared(p), Step(p)
    PROVE  Cleared(p)' /\ (At(p, "deleted")' => Gone(p)')
  <1>0. /\ pc \in [Invocations -> Steps] /\ job \in [Invocations -> Job] /\ job[p] \in Job
        /\ role \in Roles /\ owner \in Owners /\ folder \in [Sites -> BOOLEAN]
        /\ secrets \in [Sites -> SecretMaps] /\ Site(p) \in Sites
    BY Locals DEF RouteInv, TypeInv, TypeOK
  <1>1. CASE pc'[p] \notin Dropping
    BY <1>1 DEF Cleared, Dropping, At
  <1>2. CASE pc'[p] \in Dropping
    <2>1. job'[p].req = job[p].req /\ job'[p].seen = job[p].seen /\ job'[p].engine = job[p].engine
      <3>1. ASSUME NEW l, Goto(p, l)
            PROVE  job'[p] = job[p]
        BY <1>0, <3>1 DEF Goto
      <3>2. ASSUME NEW l, NEW b, GotoWith(p, l, [job[p] EXCEPT !.left = b])
            PROVE  job'[p] = [job[p] EXCEPT !.left = b]
        BY <1>0, <3>2 DEF GotoWith
      <3>3. job'[p] = job[p] \/ \E b : job'[p] = [job[p] EXCEPT !.left = b]
        <4>1. CASE PgDropDatabase(p) \/ PgDropUser(p)
          BY <3>1, <4>1 DEF PgDropDatabase, PgDropUser, SqlCall, Call
        <4>2. CASE MyDropUser(p) \/ MyDropDatabase(p) \/ MyFlushDrop(p)
          BY <3>1, <4>2 DEF MyDropUser, MyDropDatabase, MyFlushDrop, SqlCall, Call, Read
        <4>3. CASE DeleteStep(p)
          BY <3>1, <3>2, <4>3 DEF DeleteStep, ListSecrets, Erase, DeleteFolder, VaultCall, Call, Read
        <4> QED
          BY <1>2, <4>1, <4>2, <4>3, ToDropping
      <3> QED
        BY <1>0, <3>3 DEF Job
    <2>2. /\ Engine(p)' = Engine(p) /\ DbOf(p)' = DbOf(p) /\ UserOf(p)' = UserOf(p) /\ Site(p)' = Site(p)
          /\ ValidNames(p)' <=> ValidNames(p)
      BY <2>1 DEF Engine, ValidNames, DbOf, UserOf, Request, Options, Lookup, Site
    <2>3. Engine(p) \in Engines /\ DbOf(p) \in Databases /\ UserOf(p) \in Users
      <3>1. Engine(p)' \in Engines /\ ValidNames(p)'
        BY <1>2 DEF RouteInv, Routed, Engine, ValidNames, DbOf, UserOf, DbFor, UserFor, Request, Options, Lookup
      <3> QED
        BY <2>2, <3>1 DEF ValidNames
    <2>4. CASE PgDropDatabase(p)
      <3>1. Engine(p) = Pg /\ pc'[p] = "pgDropUser" /\ DropDb(Pg, DbOf(p))
        BY <1>0, <1>2, <2>4, OnEngine DEF PgDropDatabase, At, SqlCall, Call, Goto, Dropping, Pg
      <3> QED
        BY <1>0, <2>2, <2>3, <3>1 DEF DropDb, DbExists, Cleared, At, Owners
    <2>5. CASE PgDropUser(p)
      <3>1. /\ Engine(p) = Pg /\ pc[p] = "pgDropUser" /\ pc'[p] = "listSecrets"
            /\ DropRole(Pg, UserOf(p))
        BY <1>0, <1>2, <2>5, OnEngine DEF PgDropUser, At, SqlCall, Call, Goto, Dropping, Pg
      <3> QED
        BY <1>0, <2>2, <2>3, <3>1 DEF DropRole, DbExists, RoleExists, Cleared, At, Roles
    <2>6. CASE MyDropUser(p)
      <3>1. Engine(p) = My /\ pc'[p] = "myDropDatabase" /\ DropRole(My, UserOf(p))
        BY <1>0, <1>2, <2>6, OnEngine DEF MyDropUser, At, SqlCall, Call, Goto, Dropping, My
      <3> QED
        BY <1>0, <2>2, <2>3, <3>1 DEF DropRole, RoleExists, Cleared, At, Roles
    <2>7. CASE MyDropDatabase(p)
      <3>1. /\ Engine(p) = My /\ pc[p] = "myDropDatabase" /\ pc'[p] = "myFlushDrop"
            /\ DropDb(My, DbOf(p))
        BY <1>0, <1>2, <2>7, OnEngine DEF MyDropDatabase, At, SqlCall, Call, Goto, Dropping, My
      <3> QED
        BY <1>0, <2>2, <2>3, <3>1 DEF DropDb, DbExists, RoleExists, Cleared, At, Owners
    <2>8. CASE MyFlushDrop(p) \/ ListSecrets(p) \/ Erase(p)
      <3>1. /\ pc[p] \in {"myFlushDrop", "listSecrets", "erase"}
            /\ pc'[p] # "deleted" /\ UNCHANGED sqlVars
        BY <1>0, <1>2, <2>8 DEF MyFlushDrop, ListSecrets, Erase, At, VaultCall, Call, Read, Goto, GotoWith,
           Dropping, sqlVars
      <3> QED
        BY <2>2, <3>1 DEF sqlVars, DbExists, RoleExists, Cleared, At
    <2>9. CASE DeleteFolder(p)
      <3>1. pc[p] = "erase" /\ pc'[p] = "deleted" /\ RemoveFolder(Site(p)) /\ UNCHANGED sqlVars
        BY <1>0, <1>2, <2>9 DEF DeleteFolder, At, VaultCall, Call, Goto, Dropping, sqlVars
      <3>2. ~DbExists(Engine(p), DbOf(p))' /\ ~RoleExists(Engine(p), UserOf(p))'
        BY <2>2, <3>1 DEF sqlVars, DbExists, RoleExists, Cleared
      <3>3. ~folder'[Site(p)] /\ \A k \in Keys : secrets'[Site(p)][k] = Absent
        BY <1>0, <3>1 DEF RemoveFolder
      <3> QED
        BY <2>2, <3>1, <3>2, <3>3 DEF Cleared, Gone
    <2> QED
      BY <1>2, <2>4, <2>5, <2>6, <2>7, <2>8, <2>9, ToDropping DEF DeleteStep
  <1> QED
    BY <1>1, <1>2

\* A run that is not moved keeps its names and its engine.
LEMMA StaysPut ==
    ASSUME NEW p, pc'[p] = pc[p], job'[p] = job[p]
    PROVE  /\ Engine(p)' = Engine(p) /\ DbOf(p)' = DbOf(p) /\ UserOf(p)' = UserOf(p)
           /\ Site(p)' = Site(p) /\ (Provisioning(p)' <=> Provisioning(p))
           /\ (Active(p)' <=> Active(p)) /\ Request(p)' = Request(p)
           /\ \A step : At(p, step)' <=> At(p, step)
  BY DEF Engine, DbOf, UserOf, Request, Options, Lookup, Site, Provisioning, Active, At

\* Nobody provisions now if nobody does after the next step.
LEMMA NoneBefore ==
    ASSUME RouteInv, [Next]_vars, NoneProvisioned'
    PROVE  NoneProvisioned
  <1>1. CASE UNCHANGED <<pc, job>>
    BY <1>1, StaysPut DEF NoneProvisioned
  <1>2. CASE \E p \in Invocations :
                /\ \A q \in Invocations \ {p} : pc'[q] = pc[q] /\ job'[q] = job[q]
                /\ Step(p) \/ Crash(p) \/ \E r \in Requests : Start(p, r)
    <2>1. PICK p \in Invocations :
                /\ \A q \in Invocations \ {p} : pc'[q] = pc[q] /\ job'[q] = job[q]
                /\ Step(p) \/ Crash(p) \/ \E r \in Requests : Start(p, r)
      BY <1>2
    <2>2. \A q \in Invocations \ {p} : Provisioning(q) => At(q, "idle")
      BY <2>1, StaysPut DEF NoneProvisioned
    <2>3. Provisioning(p) => At(p, "idle")
      <3>1. CASE Step(p)
        <4>1. job'[p].req = job[p].req /\ pc'[p] # "idle"
          BY <3>1, StepKeeps
        <4> QED
          BY <4>1 DEF NoneProvisioned, Provisioning, Request, At
      <3>2. CASE Crash(p)
        <4>1. job' = job /\ pc'[p] = "crashed"
          BY <3>2 DEF Crash, Goto, RouteInv, TypeInv, TypeOK
        <4> QED
          BY <4>1 DEF NoneProvisioned, Provisioning, Request, At
      <3>3. CASE \E r \in Requests : Start(p, r)
        BY <3>3 DEF Start
      <3> QED
        BY <2>1, <3>1, <3>2, <3>3
    <2> QED
      BY <2>2, <2>3 DEF NoneProvisioned
  <1> QED
    BY <1>1, <1>2, OneMoves

\* The step of another invocation leaves what a delete has dropped as it is.
LEMMA OthersSpare ==
    ASSUME RouteInv, NEW p \in Invocations, NEW q \in Invocations, Step(p), ~Provisioning(p),
           pc'[q] = pc[q], job'[q] = job[q]
    PROVE  /\ Cleared(q) => Cleared(q)'
           /\ At(q, "deleted") /\ Gone(q) => Gone(q)'
  <1>1. /\ Engine(q)' = Engine(q) /\ DbOf(q)' = DbOf(q) /\ UserOf(q)' = UserOf(q)
        /\ Site(q)' = Site(q) /\ Site(q) \in Sites
    BY StaysPut, Locals
  <1>2. pc[q] \in Dropping => Engine(q) \in Engines
    BY OnEngine
  <1>3. /\ Engine(q) \in Engines =>
            /\ ~DbExists(Engine(q), DbOf(q)) => ~DbExists(Engine(q), DbOf(q))'
            /\ ~RoleExists(Engine(q), UserOf(q)) => ~RoleExists(Engine(q), UserOf(q))'
        /\ ~folder[Site(q)] /\ (\A k \in Keys : secrets[Site(q)][k] = Absent) =>
            ~folder'[Site(q)] /\ \A k \in Keys : secrets'[Site(q)][k] = Absent
    <2>1. Engine(q) \in Engines /\ ~DbExists(Engine(q), DbOf(q)) => ~DbExists(Engine(q), DbOf(q))'
      <3>1. PICK e, d : e = Engine(q) /\ d = DbOf(q)
        OBVIOUS
      <3>2. e \in Engines /\ ~DbExists(e, d) => ~DbExists(e, d)'
        BY Removes
      <3> QED
        BY <1>1, <3>1, <3>2 DEF DbExists
    <2>2. Engine(q) \in Engines /\ ~RoleExists(Engine(q), UserOf(q)) => ~RoleExists(Engine(q), UserOf(q))'
      <3>1. PICK e, u : e = Engine(q) /\ u = UserOf(q)
        OBVIOUS
      <3>2. e \in Engines /\ ~RoleExists(e, u) => ~RoleExists(e, u)'
        BY Removes
      <3> QED
        BY <1>1, <3>1, <3>2 DEF RoleExists
    <2> QED
      BY <1>1, <2>1, <2>2, Removes
  <1>4. Cleared(q) => Cleared(q)'
    BY <1>1, <1>2, <1>3 DEF Cleared, Dropping
  <1>5. At(q, "deleted") /\ Gone(q) => Gone(q)'
    BY <1>1, <1>2, <1>3 DEF Gone, At, Dropping
  <1> QED
    BY <1>4, <1>5

LEMMA DropInvInductive ==
    ASSUME DropInv, [Next]_vars
    PROVE  DropInv'
  <1>0. RouteInv /\ RouteInv' /\ (NoneProvisioned' => NoneProvisioned)
    BY RouteInvInductive, NoneBefore DEF DropInv
  <1>1. CASE UNCHANGED vars
    <2>1. pc' = pc /\ job' = job /\ UNCHANGED sqlVars /\ UNCHANGED vaultVars
      BY <1>1 DEF vars, sqlVars, vaultVars
    <2>2. \A p \in Invocations : (Active(p)' <=> Active(p)) /\ (Cleared(p)' <=> Cleared(p))
             /\ (Gone(p)' <=> Gone(p)) /\ (At(p, "deleted")' <=> At(p, "deleted"))
      BY <2>1, StaysPut DEF sqlVars, vaultVars, Cleared, Gone, DbExists, RoleExists
    <2> QED
      BY <1>0, <2>2 DEF DropInv, Alone
  <1>2. ASSUME NEW p \in Invocations, Crash(p) \/ \E r \in Requests : Start(p, r),
               \A q \in Invocations \ {p} : pc'[q] = pc[q] /\ job'[q] = job[q],
               UNCHANGED <<role, owner, access, hardening, secrets, folder>>
        PROVE  DropInv'
    <2>1. ASSUME NEW q \in Invocations \ {p}
          PROVE  /\ Active(q)' <=> Active(q)
                 /\ Cleared(q)' <=> Cleared(q)
                 /\ Gone(q)' <=> Gone(q)
                 /\ At(q, "deleted")' <=> At(q, "deleted")
      BY <1>2, StaysPut DEF Cleared, Gone, DbExists, RoleExists
    <2>2. pc'[p] \notin Dropping
      BY <1>0, <1>2 DEF Crash, Start, Local, Goto, GotoWith, FirstStep, Dropping, RouteInv, TypeInv, TypeOK
    <2>3. Cleared(p)' /\ ~At(p, "deleted")'
      BY <2>2 DEF Cleared, Dropping, At
    <2>4. ASSUME Exclusive PROVE Alone'
      <3>1. CASE Crash(p)
        <4>1. ~Active(p)'
          BY <1>0, <3>1 DEF Crash, Goto, Active, Finished, RouteInv, TypeInv, TypeOK
        <4> QED
          BY <2>1, <2>4, <4>1 DEF DropInv, Alone
      <3>2. CASE \E r \in Requests : Start(p, r)
        <4>1. \A q \in Invocations : ~Active(q)
          BY <2>4, <3>2 DEF Start
        <4> QED
          BY <2>1, <4>1 DEF Alone
      <3> QED
        BY <1>2, <3>1, <3>2
    <2> QED
      BY <1>0, <2>1, <2>3, <2>4 DEF DropInv
  <1>3. ASSUME NEW p \in Invocations, Step(p),
               \A q \in Invocations \ {p} : pc'[q] = pc[q] /\ job'[q] = job[q]
        PROVE  DropInv'
    <2>1. Active(p)
      BY <1>0, <1>3, StepKeeps
    <2>2. ASSUME NEW q \in Invocations \ {p}
          PROVE  Active(q)' <=> Active(q)
      BY <1>3, StaysPut
    <2>3. ASSUME Exclusive PROVE Alone'
      BY <2>1, <2>2, <2>3 DEF DropInv, Alone
    <2>4. ASSUME Exclusive, NEW q \in Invocations \ {p} PROVE Cleared(q)'
      <3>1. ~Active(q)'
        BY <2>1, <2>2, <2>4 DEF DropInv, Alone
      <3> QED
        BY <3>1 DEF Cleared, Active, Finished, At
    <2>5. NoneProvisioned => ~Provisioning(p)
      BY <2>1 DEF NoneProvisioned, Active, At
    <2>6. ASSUME NoneProvisioned, NEW q \in Invocations \ {p}
          PROVE  Cleared(q)' /\ (At(q, "deleted")' => Gone(q)')
      <3>1. Cleared(q) /\ (At(q, "deleted") => Gone(q))
        BY <2>6 DEF DropInv
      <3>2. At(q, "deleted")' <=> At(q, "deleted")
        BY <1>3, StaysPut
      <3> QED
        BY <1>0, <1>3, <2>5, <2>6, <3>1, <3>2, OthersSpare
    <2>7. ASSUME Exclusive \/ NoneProvisioned
          PROVE  Cleared(p)' /\ (At(p, "deleted")' => Gone(p)')
      BY <1>0, <1>3, <2>7, DropStep DEF DropInv
    <2> QED
      BY <1>0, <2>3, <2>4, <2>6, <2>7 DEF DropInv
  <1>4. CASE UNCHANGED <<pc, job>> /\ Next
    <2>1. PICK p \in Invocations : Step(p) \/ Crash(p) \/ \E r \in Requests : Start(p, r)
      BY <1>4 DEF Next
    <2>2. UNCHANGED <<role, owner, access, hardening, secrets, folder>> \/ Step(p)
      BY <2>1 DEF Crash, Start, Local
    <2>3. \A q \in Invocations : pc'[q] = pc[q] /\ job'[q] = job[q]
      BY <1>4
    <2> QED
      BY <1>2, <1>3, <2>1, <2>2, <2>3
  <1> QED
    BY <1>0, <1>1, <1>2, <1>3, <1>4, OneMoves

LEMMA DropInvariance == Spec => []DropInv
  <1>1. Init => DropInv
    BY RouteInit DEF Init, DropInv, Alone, Active, Cleared, At
  <1>2. DropInv /\ [Next]_vars => DropInv'
    BY DropInvInductive
  <1> QED
    BY <1>1, <1>2, PTL DEF Spec

\* Rotations and deletes that overlap in any way and fail at any call: once a
\* delete has reported success, nothing of its app comes back until somebody
\* provisions. No statement of a rotation creates a user (ALTER), and no secret
\* can be written without its folder.
THEOREM DeletedIsGone == Spec => []DeletedStaysGone
  <1>1. DropInv => DeletedStaysGone
    BY DEF DropInv, DeletedStaysGone, NoneProvisioned
  <1> QED
    BY <1>1, DropInvariance, PTL

\* Operators who wait for each other: the secrets of an app are erased only once
\* the database and the user they name are gone, wherever a delete failed before
\* (Deprovision calls the adapter's Delete, which checks every drop, first).
THEOREM ForgottenAfterDropped ==
    ASSUME Exclusive
    PROVE  Spec => []DropBeforeForget
  <1>1. DropInv => DropBeforeForget
    BY DEF DropInv, Cleared, DropBeforeForget
  <1> QED
    BY <1>1, DropInvariance, PTL
=============================================================================
