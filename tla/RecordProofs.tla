---------------------------- MODULE RecordProofs ----------------------------
(***************************************************************************)
(* The race of strict provisioning runs for one app's record: of any number *)
(* of them that record it at once, the one that creates its first key keeps *)
(* it. The vault offers no transaction and no lock, only the refusal to     *)
(* create what is there; that the plan begins with DB_TYPE, for everybody,  *)
(* makes that one key the lock of all.                                     *)
(***************************************************************************)
EXTENDS StrictProofs

\* Past the refusal of a schema, and past the reading of the vault.
Past == {"createFolder", "folderExists", "inspect", "checkDatabase", "checkUser"} \cup Working
Inspected == {"checkDatabase", "checkUser"} \cup Working

Creates(p) == {k \in ContractKeys : Desired(p)[k] # Absent}

\* What a run knows: nothing of the contract is recorded, so far as it saw.
Knows(l, j) ==
    /\ \A k \in ContractKeys : j.seen[k] = Absent
    /\ j.engine = j.req.engine
    /\ l \in Past => ~SchemaRefused(j.req)
    /\ l \in {"createFolder", "folderExists", "inspect", "sync", "synced"} => j.req.online

\* What it has still to record: all of it, or all but DB_TYPE and more.
Progress(p) ==
    /\ pc[p] = "sync" =>
        /\ job[p].left \subseteq Creates(p)
        /\ "DB_TYPE" \in job[p].left => job[p].left = Creates(p)
    /\ pc[p] = "synced" => job[p].left = {}

\* The run that created DB_TYPE and has not failed since.
HasRecord(p) ==
    \/ pc[p] = "sync" /\ "DB_TYPE" \notin job[p].left
    \/ pc[p] = "synced"

\* What it has recorded is there, and nothing else.
Keeps(p) ==
    HasRecord(p) =>
        /\ folder[Site(p)]
        /\ \A k \in ContractKeys :
              secrets[Site(p)][k] = IF k \in job[p].left THEN Absent ELSE Desired(p)[k]

\* Where a run found nothing recorded, whatever is now began with DB_TYPE.
TypeFirst(p) ==
    pc[p] \in Inspected /\ job[p].req.online =>
        \A k \in ContractKeys :
            secrets[Site(p)][k] # Absent => secrets[Site(p)]["DB_TYPE"] # Absent

OneRecord ==
    \A p, q \in Invocations : p # q /\ HasRecord(p) /\ HasRecord(q) => Site(p) # Site(q)

RecordInv ==
    /\ StrictInv
    /\ \A p \in Invocations : Knows(pc[p], job[p]) /\ Progress(p) /\ Keeps(p) /\ TypeFirst(p)
    /\ OneRecord

----------------------------------------------------------------------------
(* The contract a run wants, and the order it records it in.               *)

LEMMA DesiredKept ==
    ASSUME NEW p, job'[p].req = job[p].req, job'[p].engine = job[p].engine
    PROVE  Desired(p)' = Desired(p) /\ Site(p)' = Site(p) /\ Creates(p)' = Creates(p)
  <1>1. Request(p)' = Request(p) /\ Engine(p)' = Engine(p)
    BY DEF Request, Engine
  <1>2. Options(Request(p))' = Options(Request(p))
    BY <1>1 DEF Options
  <1>3. Desired(p)' = Desired(p)
    BY <1>1, <1>2 DEF Desired
  <1> QED
    BY <1>1, <1>3 DEF Creates, Site, Request

\* The options, key by key, of a run that works on valid names.
LEMMA DesiredKeys ==
    ASSUME RecordInv, NEW p \in Invocations, pc[p] \in Working
    PROVE  /\ Desired(p)["DB_TYPE"] = Engine(p) /\ Desired(p)["DB_NAME"] = Db(job[p])
           /\ Desired(p)["DB_USER"] = User(job[p]) /\ Desired(p)["DB_PASSWORD"] = p
           /\ Desired(p)["DB_HOST"] = Engine(p) /\ Desired(p)["DB_PORT"] = Engine(p)
           /\ Desired(p)["DB_SCHEMA"] =
                IF Options(Request(p)).schema # "" THEN Options(Request(p)).schema ELSE Absent
  BY DEF Desired, ToSecrets, Keys, ContractKeys, Db, User, Request

LEMMA FirstKey ==
    ASSUME RecordInv, NEW p \in Invocations, pc[p] \in Working
    PROVE  "DB_TYPE" \in Creates(p)
  <1>1. Engine(p) \in Engines
    BY DEF RecordInv, StrictInv, Notes, Engine
  <1>2. Engine(p) # Absent
    BY <1>1, NamesAssumption DEF Values
  <1> QED
    BY <1>2, DesiredKeys DEF Creates, ContractKeys

\* The plan made of what the run saw only creates.
LEMMA PlanCreates ==
    ASSUME RecordInv, NEW p \in Invocations
    PROVE  /\ Plan(p).creates = Creates(p) /\ Plan(p).updates = {} /\ Plan(p).deletes = {}
           /\ Touched(Plan(p)) = Creates(p)
  <1>1. \A k \in ContractKeys : job[p].seen[k] = Absent
    BY DEF RecordInv, Knows
  <1>2. Plan(p).creates = Creates(p) /\ Plan(p).updates = {} /\ Plan(p).deletes = {}
    BY <1>1 DEF Plan, PlanSecretSync, Creates
  <1> QED
    BY <1>2 DEF Touched

\* The key a run records next, at every step of its sync.
LEMMA NextKey ==
    ASSUME RecordInv, NEW p \in Invocations, At(p, "sync"), job[p].left # {}
    PROVE  LET k == NextOperation(Plan(p), job[p].left)
           IN  /\ k \in job[p].left /\ k \in Creates(p) /\ k \in ContractKeys
               /\ "DB_TYPE" \in job[p].left => k = "DB_TYPE"
  <1>1. job[p].left \subseteq Creates(p) /\ Creates(p) \subseteq ContractKeys
    BY DEF RecordInv, Progress, At, Creates
  <1>2. Plan(p).creates = Creates(p)
    BY PlanCreates
  <1>3. NextOperation(Plan(p), job[p].left) = Earliest(SerializationOrder, job[p].left)
    <2>1. Creates(p) \cap job[p].left = job[p].left
      BY <1>1
    <2> QED
      BY <1>2, <2>1 DEF NextOperation
  <1> QED
    BY <1>1, <1>3, EarliestKey

----------------------------------------------------------------------------
(* Steps that leave the secrets alone and record nothing.                  *)

Passive(p) ==
    \E l \in Steps, j \in Job :
        /\ GotoWith(p, l, j) /\ secrets' = secrets
        /\ \A s \in Sites : folder[s] => folder'[s]
        /\ Knows(l, j) /\ l \notin {"sync", "synced"}
        /\ l \in Inspected /\ j.req.online =>
            \/ pc[p] \in Inspected /\ j.req = job[p].req
            \/ \A k \in ContractKeys : secrets[j.req.site][k] = Absent

\* What a run that does not move keeps if its site's secrets stay.
LEMMA Unmoved ==
    ASSUME RecordInv, NEW q \in Invocations, pc'[q] = pc[q], job'[q] = job[q],
           secrets'[Site(q)] = secrets[Site(q)], folder[Site(q)] => folder'[Site(q)]
    PROVE  /\ Knows(pc[q], job[q])' /\ Progress(q)' /\ Keeps(q)' /\ TypeFirst(q)'
           /\ HasRecord(q)' = HasRecord(q) /\ Site(q)' = Site(q)
  <1>1. Desired(q)' = Desired(q) /\ Site(q)' = Site(q) /\ Creates(q)' = Creates(q)
    BY DesiredKept
  <1>2. Knows(pc[q], job[q]) /\ Progress(q) /\ Keeps(q) /\ TypeFirst(q)
    BY DEF RecordInv
  <1>3. Knows(pc[q], job[q])'
    BY <1>2 DEF Knows, SchemaRefused
  <1>4. Progress(q)'
    BY <1>1, <1>2 DEF Progress
  <1>5. HasRecord(q)' = HasRecord(q)
    BY DEF HasRecord
  <1>6. Keeps(q)'
    BY <1>1, <1>2, <1>5 DEF Keeps
  <1>7. TypeFirst(q)'
    BY <1>1, <1>2 DEF TypeFirst
  <1> QED
    BY <1>1, <1>3, <1>4, <1>5, <1>6, <1>7

LEMMA PassivePreserves ==
    ASSUME RecordInv, StrictInv', NEW p \in Invocations, Passive(p)
    PROVE  RecordInv'
  <1>1. PICK l \in Steps, j \in Job :
            /\ GotoWith(p, l, j) /\ secrets' = secrets
            /\ \A s \in Sites : folder[s] => folder'[s]
            /\ Knows(l, j) /\ l \notin {"sync", "synced"}
            /\ l \in Inspected /\ j.req.online =>
                \/ pc[p] \in Inspected /\ j.req = job[p].req
                \/ \A k \in ContractKeys : secrets[j.req.site][k] = Absent
    BY DEF Passive
  <1>2. /\ pc'[p] = l /\ job'[p] = j
        /\ \A q \in Invocations : q # p => pc'[q] = pc[q] /\ job'[q] = job[q]
    BY <1>1 DEF RecordInv, StrictInv, TypeInv, TypeOK, GotoWith
  <1>3. \A q \in Invocations : Site(q) \in Sites
    BY JobTypes DEF RecordInv, StrictInv
  <1>4. ASSUME NEW q \in Invocations, q # p
        PROVE  /\ Knows(pc[q], job[q])' /\ Progress(q)' /\ Keeps(q)' /\ TypeFirst(q)'
               /\ HasRecord(q)' = HasRecord(q) /\ Site(q)' = Site(q)
    BY <1>1, <1>2, <1>3, <1>4, Unmoved
  <1>5. ~HasRecord(p)' /\ Progress(p)' /\ Keeps(p)'
    BY <1>1, <1>2 DEF HasRecord, Progress, Keeps
  <1>6. Knows(pc[p], job[p])'
    BY <1>1, <1>2 DEF Knows, SchemaRefused
  <1>7. TypeFirst(p)'
    <2>1. Site(p)' = j.req.site /\ job'[p].req = j.req
      BY <1>2 DEF Site
    <2>2. CASE pc[p] \in Inspected /\ j.req = job[p].req
      BY <1>1, <1>2, <2>1, <2>2 DEF RecordInv, TypeFirst, Site
    <2>3. CASE \A k \in ContractKeys : secrets[j.req.site][k] = Absent
      BY <1>1, <2>1, <2>3 DEF TypeFirst
    <2> QED
      BY <1>1, <1>2, <2>1, <2>2, <2>3 DEF TypeFirst
  <1>8. OneRecord'
    <2> SUFFICES ASSUME NEW q \in Invocations, NEW r \in Invocations, q # r,
                        HasRecord(q)', HasRecord(r)'
                 PROVE  Site(q)' # Site(r)'
      BY DEF OneRecord
    <2>1. q # p /\ r # p
      BY <1>5
    <2> QED
      BY <1>4, <2>1 DEF RecordInv, OneRecord
  <1>9. \A q \in Invocations :
            (Knows(pc[q], job[q]) /\ Progress(q) /\ Keeps(q) /\ TypeFirst(q))'
    BY <1>4, <1>5, <1>6, <1>7
  <1> QED
    BY <1>8, <1>9 DEF RecordInv

----------------------------------------------------------------------------
(* Which steps those are: all but the ones that record.                    *)

\* A step on, or to an end, that keeps the request and what was seen.
LEMMA Onward ==
    ASSUME RecordInv, StrictOnly, NEW p \in Invocations, NEW l \in Steps, NEW j \in Job,
           GotoWith(p, l, j), secrets' = secrets, \A s \in Sites : folder[s] => folder'[s],
           j.req = job[p].req, j.seen = job[p].seen, j.engine = job[p].engine,
           l \in Ended \/ (pc[p] \in Inspected /\ l \in Inspected \ {"sync", "synced"})
    PROVE  Passive(p)
  <1>1. Knows(pc[p], job[p])
    BY DEF RecordInv
  <1>2. l \in Past => pc[p] \in Past
    BY DEF Past, Ended, Inspected, Working, PgSteps, MySteps, LockdownSteps, After
  <1>3. l \notin {"createFolder", "folderExists", "inspect", "sync", "synced"}
    BY DEF Ended, Inspected, Working, PgSteps, MySteps, LockdownSteps, After
  <1>4. Knows(l, j)
    BY <1>1, <1>2, <1>3 DEF Knows
  <1>5. l \in Inspected => pc[p] \in Inspected
    BY DEF Ended, Inspected, Working, PgSteps, MySteps, LockdownSteps, After
  <1> QED
    BY <1>3, <1>4, <1>5 DEF Passive

\* The same for a step that may note what it did or found.
LEMMA GoesOn ==
    ASSUME RecordInv, StrictOnly, NEW p \in Invocations, NEW l \in Steps,
           UNCHANGED vaultVars, NEW b \in BOOLEAN,
           \/ Goto(p, l)
           \/ GotoWith(p, l, [job[p] EXCEPT !.dbMade = b])
           \/ GotoWith(p, l, [job[p] EXCEPT !.userMade = b])
           \/ GotoWith(p, l, [job[p] EXCEPT !.dbThere = b])
           \/ GotoWith(p, l, [job[p] EXCEPT !.userThere = b]),
           l \in Ended \/ (pc[p] \in Inspected /\ l \in Inspected \ {"sync", "synced"})
    PROVE  Passive(p)
  <1>1. job[p] \in Job /\ (Goto(p, l) => GotoWith(p, l, job[p]))
    BY StrictNames DEF RecordInv
  <1>2. secrets' = secrets /\ folder' = folder
    BY DEF vaultVars
  <1>3. PICK j \in Job :
            /\ GotoWith(p, l, j)
            /\ j.req = job[p].req /\ j.seen = job[p].seen /\ j.engine = job[p].engine
    <2> DEFINE Noted(j) == j \in Job /\ j.req = job[p].req /\ j.seen = job[p].seen
                                    /\ j.engine = job[p].engine
    <2>1. /\ Noted(job[p]) /\ Noted([job[p] EXCEPT !.dbMade = b])
          /\ Noted([job[p] EXCEPT !.userMade = b]) /\ Noted([job[p] EXCEPT !.dbThere = b])
          /\ Noted([job[p] EXCEPT !.userThere = b])
      BY <1>1 DEF Job
    <2> QED
      BY <1>1, <2>1
  <1> QED
    BY <1>2, <1>3, Onward

LEMMA PgPassive ==
    ASSUME RecordInv, StrictOnly, NEW p \in Invocations, pc[p] \in Working, PgStep(p)
    PROVE  Passive(p)
  <1>1. ASSUME NEW l \in PgSteps \cup {"provisioned", "failed"}, UNCHANGED vaultVars,
               \/ Goto(p, l) \/ GotoWith(p, l, [job[p] EXCEPT !.dbMade = TRUE])
               \/ GotoWith(p, l, [job[p] EXCEPT !.userMade = TRUE])
        PROVE  Passive(p)
    <2>1. l \in Steps /\ pc[p] \in Inspected
      BY DEF Steps, PgSteps, LockdownSteps, Finished, Inspected
    <2>2. l \in Ended \/ l \in Inspected \ {"sync", "synced"}
      BY DEF PgSteps, LockdownSteps, After, Ended, Inspected, Working
    <2> QED
      BY <1>1, <2>1, <2>2, GoesOn
  <1>2. CASE PgUser(p)
    BY <1>1, <1>2 DEF PgUser, Local, SqlCall, Call, vaultVars, PgSteps
  <1>3. CASE PgDatabase(p)
    BY <1>1, <1>3 DEF PgDatabase, Local, SqlCall, Call, vaultVars, PgSteps, LockdownSteps
  <1>4. CASE PgLockdown(p)
    BY <1>1, <1>4 DEF PgLockdown, LockdownStep, SqlCall, Call, vaultVars, PgSteps, LockdownSteps
  <1>5. CASE PgGrant(p)
    BY <1>1, <1>5 DEF PgGrant, SqlCall, Call, vaultVars, PgSteps
  <1>6. CASE PgUndoDatabase(p)
    BY <1>1, <1>6 DEF PgUndoDatabase, Local, SqlCall, Call, vaultVars, PgSteps
  <1>7. CASE PgUndoUser(p)
    BY <1>1, <1>7 DEF PgUndoUser, Local, SqlCall, Call, vaultVars
  <1>8. ~PgDropDatabase(p) /\ ~PgDropUser(p)
    BY DEF PgDropDatabase, PgDropUser, At, Working, PgSteps, MySteps, LockdownSteps, After
  <1> QED
    BY <1>2, <1>3, <1>4, <1>5, <1>6, <1>7, <1>8 DEF PgStep

LEMMA MyPassive ==
    ASSUME RecordInv, StrictOnly, NEW p \in Invocations, pc[p] \in Working, MyStep(p)
    PROVE  Passive(p)
  <1>1. ASSUME NEW l \in MySteps \cup {"provisioned", "failed"}, UNCHANGED vaultVars,
               \/ Goto(p, l) \/ GotoWith(p, l, [job[p] EXCEPT !.dbMade = TRUE])
               \/ GotoWith(p, l, [job[p] EXCEPT !.userMade = TRUE])
        PROVE  Passive(p)
    <2>1. l \in Steps /\ pc[p] \in Inspected
      BY DEF Steps, MySteps, Finished, Inspected
    <2>2. l \in Ended \/ l \in Inspected \ {"sync", "synced"}
      BY DEF MySteps, After, Ended, Inspected, Working
    <2> QED
      BY <1>1, <2>1, <2>2, GoesOn
  <1>2. CASE MyDatabase(p)
    BY <1>1, <1>2 DEF MyDatabase, Local, SqlCall, Call, vaultVars, MySteps
  <1>3. CASE MyUser(p)
    BY <1>1, <1>3 DEF MyUser, SqlCall, Call, vaultVars, MySteps
  <1>4. CASE MyGrant(p)
    BY <1>1, <1>4 DEF MyGrant, SqlCall, Call, vaultVars, MySteps
  <1>5. CASE MyFlush(p)
    BY <1>1, <1>5 DEF MyFlush, Read, vaultVars, MySteps
  <1>6. CASE MyUndoUser(p)
    BY <1>1, <1>6 DEF MyUndoUser, Local, SqlCall, Call, vaultVars, MySteps
  <1>7. CASE MyUndoDatabase(p)
    BY <1>1, <1>7 DEF MyUndoDatabase, Local, SqlCall, Call, vaultVars
  <1>8. ~MyDropUser(p) /\ ~MyDropDatabase(p) /\ ~MyFlushDrop(p)
    BY DEF MyDropUser, MyDropDatabase, MyFlushDrop, At, Working, PgSteps, MySteps, LockdownSteps, After
  <1> QED
    BY <1>2, <1>3, <1>4, <1>5, <1>6, <1>7, <1>8 DEF MyStep

\* A step before the vault is read: the request is one that may go on.
LEMMA EarlyPassive ==
    ASSUME RecordInv, StrictOnly, NEW p \in Invocations,
           Prepare(p) \/ CreateFolder(p) \/ FolderExists(p) \/ Inspect(p)
    PROVE  Passive(p)
  <1>1. /\ job[p] \in Job /\ (\A l : Goto(p, l) => GotoWith(p, l, job[p]))
        /\ ~Request(p).adopt
    BY StrictNames DEF RecordInv
  <1>2. Knows(pc[p], job[p]) /\ folder \in [Sites -> BOOLEAN] /\ secrets \in [Sites -> SecretMaps]
    BY DEF RecordInv, StrictInv, TypeInv, TypeOK
  <1>3. ASSUME Goto(p, "failed"), secrets' = secrets, \A s \in Sites : folder[s] => folder'[s]
        PROVE  Passive(p)
    BY <1>1, <1>3, Onward DEF Steps, Finished, Ended
  <1>4. ASSUME NEW l \in {"createFolder", "folderExists", "inspect"}, Goto(p, l),
               secrets' = secrets, \A s \in Sites : folder[s] => folder'[s],
               ~SchemaRefused(job[p].req), job[p].req.online
        PROVE  Passive(p)
    <2>1. l \in Steps /\ l \notin Inspected
      BY DEF Steps, Inspected, Working, PgSteps, MySteps, LockdownSteps, After
    <2>2. Knows(l, job[p])
      BY <1>2, <1>4 DEF Knows
    <2> QED
      BY <1>1, <1>4, <2>1, <2>2 DEF Passive
  <1>5. CASE Prepare(p)
    <2>1. secrets' = secrets /\ folder' = folder
      BY <1>5 DEF Prepare, Local
    <2>2. CASE SchemaRefused(Request(p)) /\ Goto(p, "failed")
      BY <1>3, <2>1, <2>2
    <2>3. CASE ~SchemaRefused(Request(p)) /\ Request(p).online /\ Goto(p, "createFolder")
      BY <1>4, <2>1, <2>3 DEF Request
    <2>4. CASE ~SchemaRefused(Request(p)) /\ ~Request(p).online /\ Goto(p, "checkDatabase")
      <3>1. Knows("checkDatabase", job[p])
        BY <1>2, <2>4 DEF Knows, Request
      <3> QED
        BY <1>1, <2>1, <2>4, <3>1 DEF Passive, Steps, Request
    <2> QED
      BY <1>5, <2>2, <2>3, <2>4 DEF Prepare, Local
  <1>6. ASSUME pc[p] \in {"createFolder", "folderExists", "inspect"}
        PROVE  ~SchemaRefused(job[p].req) /\ job[p].req.online
    BY <1>2, <1>6 DEF Knows, Past
  <1>7. CASE CreateFolder(p)
    <2>1. secrets' = secrets /\ \A s \in Sites : folder[s] => folder'[s]
      BY <1>2, <1>7 DEF CreateFolder, VaultCall, Call, MakeFolder, vaultVars
    <2>2. \E l \in {"inspect", "folderExists"} : Goto(p, l)
      BY <1>7 DEF CreateFolder, VaultCall, Call
    <2> QED
      BY <1>4, <1>6, <1>7, <2>1, <2>2 DEF CreateFolder, At
  <1>8. CASE FolderExists(p)
    <2>1. secrets' = secrets /\ folder' = folder
      BY <1>8 DEF FolderExists, Read
    <2>2. Goto(p, "inspect") \/ Goto(p, "failed")
      BY <1>8 DEF FolderExists, Read
    <2> QED
      BY <1>3, <1>4, <1>6, <1>8, <2>1, <2>2 DEF FolderExists, At
  <1>9. CASE Inspect(p)
    <2>1. secrets' = secrets /\ folder' = folder /\ pc[p] = "inspect"
      BY <1>9 DEF Inspect, Read, At
    <2>2. CASE Goto(p, "failed")
      BY <1>3, <2>1, <2>2
    <2>3. CASE /\ Acceptable(Request(p), secrets[Site(p)])
               /\ GotoWith(p, "checkDatabase", [job[p] EXCEPT !.seen = secrets[Site(p)]])
      <3>1. PICK j : j = [job[p] EXCEPT !.seen = secrets[Site(p)]]
        OBVIOUS
      <3>2. Site(p) \in Sites
        BY JobTypes DEF RecordInv, StrictInv
      <3>3. /\ j \in Job /\ j.req = job[p].req /\ j.engine = job[p].engine
            /\ j.seen = secrets[Site(p)]
        BY <1>1, <1>2, <3>1, <3>2 DEF Job
      <3>4. \A k \in ContractKeys : secrets[Site(p)][k] = Absent
        BY <1>1, <2>3 DEF Acceptable
      <3>5. Knows("checkDatabase", j)
        BY <1>2, <1>6, <2>1, <3>3, <3>4 DEF Knows
      <3>6. GotoWith(p, "checkDatabase", j) /\ "checkDatabase" \in Steps
        BY <2>3, <3>1 DEF Steps
      <3> QED
        BY <2>1, <3>3, <3>4, <3>5, <3>6 DEF Passive, Site
    <2> QED
      BY <1>9, <2>2, <2>3 DEF Inspect, Read
  <1> QED
    BY <1>5, <1>7, <1>8, <1>9

\* The adapter's checks, and the steps that end a run without a record.
LEMMA LatePassive ==
    ASSUME RecordInv, StrictOnly, NEW p \in Invocations,
           CheckDatabase(p) \/ CheckUser(p) \/ PrintCredentials(p) \/ Crash(p)
    PROVE  Passive(p)
  <1>1. CASE CheckDatabase(p)
    <2>1. UNCHANGED vaultVars /\ pc[p] \in Inspected
      BY <1>1 DEF CheckDatabase, Read, At, vaultVars, Inspected
    <2>2. PICK b \in BOOLEAN : b = DbExists(Engine(p), DbOf(p))
      BY DEF DbExists
    <2>3. \/ Goto(p, "failed")
          \/ GotoWith(p, "checkUser", [job[p] EXCEPT !.dbThere = b])
      BY <1>1, <2>2 DEF CheckDatabase, Read
    <2>4. /\ "failed" \in Ended \cap Steps /\ "checkUser" \in Steps
          /\ "checkUser" \in Inspected \ {"sync", "synced"}
      BY DEF Inspected, Ended, Steps, Finished
    <2> QED
      BY <2>1, <2>2, <2>3, <2>4, GoesOn
  <1>2. CASE CheckUser(p)
    <2>1. UNCHANGED vaultVars /\ pc[p] = "checkUser" /\ pc[p] \in Inspected
      BY <1>2 DEF CheckUser, Read, At, vaultVars, Inspected
    <2>2. CASE Goto(p, "failed")
      BY <2>1, <2>2, GoesOn DEF Ended, Steps, Finished
    <2>3. CASE GotoWith(p, FirstStatement[Engine(p)],
                        [job[p] EXCEPT !.userThere = RoleExists(Engine(p), UserOf(p))])
      <3>1. Engine(p) \in Engines
        BY <2>1 DEF RecordInv, StrictInv, TypeInv, EngineKnown, Finished
      <3>2. PICK l : l = FirstStatement[Engine(p)]
        OBVIOUS
      <3>3. l \in {"pgUser", "myDatabase"}
        BY <3>1, <3>2 DEF FirstStatement, Engines
      <3>4. l \in Steps /\ l \in Inspected \ {"sync", "synced"}
        BY <3>3 DEF Steps, Inspected, Working, PgSteps, MySteps
      <3>5. PICK b : b = RoleExists(Engine(p), UserOf(p))
        OBVIOUS
      <3>6. b \in BOOLEAN /\ GotoWith(p, l, [job[p] EXCEPT !.userThere = b])
        BY <2>3, <3>2, <3>5 DEF RoleExists
      <3> QED
        BY <2>1, <3>4, <3>6, GoesOn
    <2> QED
      BY <1>2, <2>2, <2>3 DEF CheckUser, Read
  <1>3. CASE PrintCredentials(p)
    <2>1. UNCHANGED vaultVars /\ pc[p] \in Inspected
      BY <1>3 DEF PrintCredentials, PrintsPassword, At, vaultVars, Inspected, Working, After
    <2>2. Goto(p, "failed") \/ Goto(p, "offline")
      BY <1>3 DEF PrintCredentials, PrintsPassword
    <2> QED
      BY <2>1, <2>2, GoesOn DEF Inspected, Working, After, Ended, Steps, Finished
  <1>4. CASE Crash(p)
    BY <1>4, GoesOn DEF Crash, vaultVars, Ended, Steps, Finished
  <1> QED
    BY <1>1, <1>2, <1>3, <1>4

LEMMA StartPassive ==
    ASSUME RecordInv, StrictOnly, TypeInv', NEW p \in Invocations, NEW r \in Requests, Start(p, r)
    PROVE  Passive(p)
  <1>1. PICK j : j = NewJob(r)
    OBVIOUS
  <1>2. GotoWith(p, "prepare", j) /\ secrets' = secrets /\ folder' = folder
    BY <1>1 DEF Start, Local, FirstStep, StrictOnly
  <1>3. "prepare" \in Steps /\ j \in Job
    BY <1>2 DEF RecordInv, StrictInv, TypeInv, TypeOK, GotoWith
  <1>4. Knows("prepare", j)
    BY <1>1 DEF NewJob, Knows, Keys, Past, Working, PgSteps, MySteps, LockdownSteps, After
  <1>5. "prepare" \notin Inspected
    BY DEF Inspected, Working, PgSteps, MySteps, LockdownSteps, After
  <1> QED
    BY <1>2, <1>3, <1>4, <1>5 DEF Passive

----------------------------------------------------------------------------
(* The steps that record.                                                  *)

\* The others, while p moves and their sites keep their secrets.
LEMMA OthersUnmoved ==
    ASSUME RecordInv, NEW p \in Invocations, NEW q \in Invocations, q # p,
           NEW l, NEW j, GotoWith(p, l, j),
           secrets'[Site(q)] = secrets[Site(q)], folder' = folder
    PROVE  /\ (Knows(pc[q], job[q]) /\ Progress(q) /\ Keeps(q) /\ TypeFirst(q))'
           /\ HasRecord(q)' = HasRecord(q) /\ Site(q)' = Site(q)
  <1>1. pc'[q] = pc[q] /\ job'[q] = job[q]
    BY DEF RecordInv, StrictInv, TypeInv, TypeOK, GotoWith
  <1> QED
    BY <1>1, Unmoved

\* The plan is made: all of the contract is still to be recorded.
LEMMA Planned ==
    ASSUME RecordInv, StrictInv', NEW p \in Invocations, At(p, "provisioned"), Request(p).online,
           GotoWith(p, "sync", [job[p] EXCEPT !.left = Touched(Plan(p))]),
           secrets' = secrets, folder' = folder
    PROVE  RecordInv'
  <1>1. PICK j : j = [job[p] EXCEPT !.left = Touched(Plan(p))]
    OBVIOUS
  <1>2. /\ j.req = job[p].req /\ j.engine = job[p].engine /\ j.seen = job[p].seen
        /\ j.left = Creates(p)
    <2>1. job[p] \in Job
      BY DEF RecordInv, StrictInv, TypeInv, TypeOK
    <2>2. Touched(Plan(p)) = Creates(p)
      BY PlanCreates
    <2> QED
      BY <1>1, <2>1, <2>2 DEF Job
  <1>3. pc'[p] = "sync" /\ job'[p] = j
    BY <1>1 DEF RecordInv, StrictInv, TypeInv, TypeOK, GotoWith
  <1>4. pc[p] \in Working /\ pc[p] \in Inspected /\ pc[p] \in Past
    BY DEF At, Working, After, Inspected, Past
  <1>5. Knows("sync", j)
    BY <1>2, <1>4 DEF RecordInv, Knows, Request
  <1>6. Site(p)' = Site(p) /\ Creates(p)' = Creates(p)
    BY <1>2, <1>3, DesiredKept
  <1>7. "DB_TYPE" \in Creates(p)
    BY <1>4, FirstKey
  <1>8. Progress(p)' /\ ~HasRecord(p)'
    BY <1>2, <1>3, <1>6, <1>7 DEF Progress, HasRecord
  <1>9. Keeps(p)'
    BY <1>8 DEF Keeps
  <1>10. TypeFirst(p)'
    BY <1>2, <1>3, <1>4, <1>6 DEF RecordInv, TypeFirst
  <1>11. ASSUME NEW q \in Invocations, q # p
         PROVE  /\ (Knows(pc[q], job[q]) /\ Progress(q) /\ Keeps(q) /\ TypeFirst(q))'
                /\ HasRecord(q)' = HasRecord(q) /\ Site(q)' = Site(q)
    BY <1>11, OthersUnmoved
  <1>12. OneRecord'
    <2> SUFFICES ASSUME NEW q \in Invocations, NEW r \in Invocations, q # r,
                        HasRecord(q)', HasRecord(r)'
                 PROVE  Site(q)' # Site(r)'
      BY DEF OneRecord
    <2>1. q # p /\ r # p
      BY <1>8
    <2> QED
      BY <1>11, <2>1 DEF RecordInv, OneRecord
  <1>13. Knows(pc[p], job[p])'
    BY <1>3, <1>5 DEF Knows, SchemaRefused
  <1> QED
    BY <1>8, <1>9, <1>10, <1>11, <1>12, <1>13 DEF RecordInv

\* The vault takes the next key, and the run goes on or is not told.
LEMMA Recording ==
    ASSUME RecordInv, StrictInv', NEW p \in Invocations, At(p, "sync"), job[p].left # {},
           NEW k, k = NextOperation(Plan(p), job[p].left),
           CanCreate(Site(p), k), Put(Site(p), k, Desired(p)[k]),
           NEW l, NEW j, GotoWith(p, l, j), j.req = job[p].req, j.engine = job[p].engine,
           j.seen = job[p].seen,
           \/ l = "sync" /\ j.left = job[p].left \ {k}
           \/ l = "printCredentials"
    PROVE  RecordInv'
  <1> DEFINE s == Site(p)
  <1>1. /\ k \in job[p].left /\ k \in Creates(p) /\ k \in ContractKeys
        /\ "DB_TYPE" \in job[p].left => k = "DB_TYPE"
    BY NextKey
  <1>2. /\ secrets[s][k] = Absent /\ folder[s] /\ folder' = folder
        /\ secrets' = [secrets EXCEPT ![s][k] = Desired(p)[k]]
    BY DEF CanCreate, Put
  <1>3. /\ pc'[p] = l /\ job'[p] = j /\ pc[p] = "sync"
        /\ secrets \in [Sites -> SecretMaps] /\ s \in Sites /\ k \in Keys
    BY <1>1, JobTypes DEF RecordInv, StrictInv, TypeInv, TypeOK, GotoWith, At, Keys
  <1>4. /\ \A t \in Sites : t # s => secrets'[t] = secrets[t]
        /\ secrets'[s][k] = Desired(p)[k]
        /\ \A i \in Keys : i # k => secrets'[s][i] = secrets[s][i]
    BY <1>2, <1>3 DEF SecretMaps
  <1>5. /\ Knows(pc[p], job[p]) /\ Progress(p) /\ Keeps(p) /\ TypeFirst(p)
        /\ pc[p] \in Inspected /\ pc[p] \in Working /\ pc[p] \in Past
    BY <1>3 DEF RecordInv, Inspected, Working, After, Past
  <1>6. job[p].req.online
    BY <1>3, <1>5 DEF Knows
  <1>7. Desired(p)' = Desired(p) /\ Site(p)' = s /\ Creates(p)' = Creates(p)
    BY <1>3, DesiredKept
  <1>8. Desired(p)[k] # Absent /\ Desired(p)["DB_TYPE"] # Absent
    BY <1>1, <1>5, FirstKey DEF Creates
  <1>9. secrets'[s]["DB_TYPE"] # Absent
    <2>1. CASE k = "DB_TYPE"
      BY <1>4, <1>8, <2>1
    <2>2. CASE "DB_TYPE" \notin job[p].left
      BY <1>3, <1>4, <1>5, <1>8, <2>2 DEF Keeps, HasRecord, ContractKeys, Keys
    <2> QED
      BY <1>1, <2>1, <2>2
  <1>10. ASSUME NEW q \in Invocations, q # p, HasRecord(q)
         PROVE  Site(q) # s
    <2>1. CASE HasRecord(p)
      BY <1>10, <2>1 DEF RecordInv, OneRecord
    <2>2. CASE ~HasRecord(p) /\ Site(q) = s
      <3>1. k = "DB_TYPE"
        BY <1>1, <1>3, <2>2 DEF HasRecord
      <3>2. pc[q] \in Working /\ "DB_TYPE" \notin job[q].left
        BY <1>10 DEF RecordInv, HasRecord, Progress, Working, After
      <3>3. Desired(q)["DB_TYPE"] # Absent
        BY <3>2, FirstKey DEF Creates
      <3>4. secrets[s]["DB_TYPE"] = Desired(q)["DB_TYPE"]
        BY <1>10, <2>2, <3>2 DEF RecordInv, Keeps, ContractKeys
      <3> QED
        BY <1>2, <3>1, <3>3, <3>4
    <2> QED
      BY <2>1, <2>2
  <1>11. ASSUME NEW q \in Invocations, q # p
         PROVE  /\ (Knows(pc[q], job[q]) /\ Progress(q) /\ Keeps(q) /\ TypeFirst(q))'
                /\ HasRecord(q)' = HasRecord(q) /\ Site(q)' = Site(q)
    <2>1. CASE Site(q) # s
      <3>1. secrets'[Site(q)] = secrets[Site(q)]
        BY <1>4, <2>1, JobTypes DEF RecordInv, StrictInv
      <3> QED
        BY <1>2, <1>11, <3>1, OthersUnmoved
    <2>2. CASE Site(q) = s
      <3>1. pc'[q] = pc[q] /\ job'[q] = job[q]
        BY <1>11 DEF RecordInv, StrictInv, TypeInv, TypeOK, GotoWith
      <3>2. Desired(q)' = Desired(q) /\ Site(q)' = Site(q) /\ Creates(q)' = Creates(q)
        BY <3>1, DesiredKept
      <3>3. HasRecord(q)' = HasRecord(q) /\ ~HasRecord(q)
        BY <1>10, <1>11, <2>2, <3>1 DEF HasRecord
      <3>4. Keeps(q)' /\ TypeFirst(q)'
        BY <1>9, <2>2, <3>2, <3>3 DEF Keeps, TypeFirst
      <3>5. Knows(pc[q], job[q]) /\ Progress(q)
        BY DEF RecordInv
      <3>6. Knows(pc[q], job[q])'
        BY <3>1, <3>5 DEF Knows, SchemaRefused
      <3>7. Progress(q)'
        BY <3>1, <3>2, <3>5 DEF Progress
      <3> QED
        BY <3>2, <3>3, <3>4, <3>6, <3>7
    <2> QED
      BY <2>1, <2>2
  <1>12. Knows(pc[p], job[p])'
    <2>1. Knows(l, j)
      <3>1. l \in Past
        BY DEF Past, Working, After
      <3> QED
        BY <1>5, <1>6, <3>1 DEF Knows
    <2> QED
      BY <1>3, <2>1 DEF Knows, SchemaRefused
  <1>13. Progress(p)'
    BY <1>1, <1>3, <1>5, <1>7 DEF Progress
  <1>14. TypeFirst(p)'
    BY <1>7, <1>9 DEF TypeFirst
  <1>15. Keeps(p)'
    <2> SUFFICES ASSUME l = "sync", j.left = job[p].left \ {k}, NEW i \in ContractKeys
                 PROVE  secrets'[s][i] = IF i \in j.left THEN Absent ELSE Desired(p)[i]
      BY <1>2, <1>3, <1>7 DEF Keeps, HasRecord
    <2>1. CASE i = k
      BY <1>4, <2>1
    <2>2. CASE i # k /\ HasRecord(p)
      BY <1>4, <1>5, <2>2 DEF Keeps, Keys
    <2>3. CASE i # k /\ ~HasRecord(p)
      <3>1. "DB_TYPE" \in job[p].left /\ job[p].left = Creates(p) /\ k = "DB_TYPE"
        BY <1>1, <1>3, <1>5, <2>3 DEF HasRecord, Progress
      <3>2. secrets[s][i] = Absent
        BY <1>2, <1>5, <1>6, <3>1 DEF TypeFirst
      <3>3. secrets'[s][i] = Absent
        BY <1>4, <2>3, <3>2 DEF Keys
      <3>4. i \notin j.left => Desired(p)[i] = Absent
        BY <2>3, <3>1 DEF Creates
      <3> QED
        BY <3>3, <3>4
    <2> QED
      BY <2>1, <2>2, <2>3
  <1>16. OneRecord'
    <2> SUFFICES ASSUME NEW q \in Invocations, NEW r \in Invocations, q # r,
                        HasRecord(q)', HasRecord(r)'
                 PROVE  Site(q)' # Site(r)'
      BY DEF OneRecord
    <2>1. CASE q # p /\ r # p
      BY <1>11, <2>1 DEF RecordInv, OneRecord
    <2>2. CASE q = p
      BY <1>7, <1>10, <1>11, <2>2
    <2>3. CASE r = p
      BY <1>7, <1>10, <1>11, <2>3
    <2> QED
      BY <2>1, <2>2, <2>3
  <1> QED
    BY <1>11, <1>12, <1>13, <1>14, <1>15, <1>16 DEF RecordInv

\* All is recorded.
LEMMA Finishing ==
    ASSUME RecordInv, StrictInv', NEW p \in Invocations, SyncDone(p)
    PROVE  RecordInv'
  <1>1. /\ At(p, "sync") /\ job[p].left = {} /\ Goto(p, "synced")
        /\ secrets' = secrets /\ folder' = folder
    BY DEF SyncDone, Local
  <1>2. /\ pc'[p] = "synced" /\ job' = job /\ pc[p] = "sync"
        /\ \A q \in Invocations : q # p => pc'[q] = pc[q]
    BY <1>1 DEF RecordInv, StrictInv, TypeInv, TypeOK, Goto, At
  <1>3. \A q \in Invocations :
            Desired(q)' = Desired(q) /\ Site(q)' = Site(q) /\ Creates(q)' = Creates(q)
    BY <1>2, DesiredKept
  <1>4. \A q \in Invocations : HasRecord(q)' = HasRecord(q)
    <2>1. HasRecord(p)' /\ HasRecord(p)
      BY <1>1, <1>2 DEF HasRecord
    <2>2. ASSUME NEW q \in Invocations, q # p
          PROVE  HasRecord(q)' = HasRecord(q)
      BY <1>2, <2>2 DEF HasRecord
    <2> QED
      BY <2>1, <2>2 DEF HasRecord
  <1>5. OneRecord'
    BY <1>3, <1>4 DEF RecordInv, OneRecord
  <1>6. ASSUME NEW q \in Invocations
        PROVE  (Knows(pc[q], job[q]) /\ Progress(q) /\ Keeps(q) /\ TypeFirst(q))'
    <2>1. Knows(pc[q], job[q]) /\ Progress(q) /\ Keeps(q) /\ TypeFirst(q)
      BY DEF RecordInv
    <2>2. CASE q # p
      BY <1>1, <1>2, <2>2, Unmoved
    <2>3. CASE q = p
      <3>1. "sync" \in Past /\ "sync" \in Inspected
        BY DEF Past, Inspected, Working, After
      <3>2. Knows("synced", job[p])
        BY <1>2, <2>1, <2>3, <3>1 DEF Knows
      <3>3. Knows(pc[p], job[p])'
        BY <1>2, <3>2 DEF Knows, SchemaRefused
      <3>4. Progress(p)'
        BY <1>1, <1>2 DEF Progress
      <3>5. Keeps(p)'
        BY <1>1, <1>2, <1>3, <1>4, <2>1, <2>3 DEF Keeps
      <3>6. TypeFirst(p)'
        BY <1>1, <1>2, <1>3, <2>1, <2>3, <3>1 DEF TypeFirst
      <3> QED
        BY <2>3, <3>3, <3>4, <3>5, <3>6
    <2> QED
      BY <2>2, <2>3
  <1> QED
    BY <1>5, <1>6 DEF RecordInv

----------------------------------------------------------------------------
(* The theorem.                                                            *)

LEMMA RecordInit ==
    ASSUME Init, StrictOnly
    PROVE  RecordInv
  <1>1. StrictInv
    BY StrictInit
  <1>2. PICK r : r = CHOOSE request \in Requests : TRUE
    OBVIOUS
  <1>3. \A p \in Invocations : pc[p] = "idle" /\ job[p] = NewJob(r)
    BY <1>2 DEF Init
  <1>4. "idle" \notin Inspected \cup Past \cup {"sync", "synced"}
    BY DEF Inspected, Past, Working, PgSteps, MySteps, LockdownSteps, After
  <1>5. \A p \in Invocations : Knows(pc[p], job[p])
    BY <1>3, <1>4 DEF Knows, NewJob, Keys
  <1>6. \A p \in Invocations : ~HasRecord(p) /\ Progress(p)
    BY <1>3 DEF HasRecord, Progress
  <1>7. \A p \in Invocations : TypeFirst(p)
    BY <1>3, <1>4 DEF TypeFirst
  <1> QED
    BY <1>1, <1>5, <1>6, <1>7 DEF RecordInv, Keeps, OneRecord

LEMMA SyncPreserves ==
    ASSUME RecordInv, StrictInv', StrictOnly, NEW p \in Invocations, Sync(p)
    PROVE  RecordInv'
  <1>1. PICK k : k = NextOperation(Plan(p), job[p].left)
    OBVIOUS
  <1>2. At(p, "sync") /\ job[p].left # {} /\ job[p] \in Job
    BY StrictNames DEF Sync, RecordInv
  <1>3. k \in Creates(p) /\ Plan(p).creates = Creates(p)
    BY <1>1, <1>2, NextKey, PlanCreates
  <1>4. VaultCall(CanCreate(Site(p), k), Put(Site(p), k, Desired(p)[k]),
                  GotoWith(p, "sync", [job[p] EXCEPT !.left = @ \ {k}]),
                  Goto(p, "printCredentials"))
    BY <1>1, <1>3 DEF Sync
  <1>5. CASE UNCHANGED vaultVars /\ Goto(p, "printCredentials")
    <2>1. "sync" \in Inspected /\ "printCredentials" \in Inspected /\ "printCredentials" \in Steps
      BY DEF Inspected, Working, After, Steps
    <2>2. Passive(p)
      BY <1>2, <1>5, <2>1, GoesOn DEF At
    <2> QED
      BY <2>2, PassivePreserves
  <1>6. CASE /\ CanCreate(Site(p), k) /\ Put(Site(p), k, Desired(p)[k])
             /\ Goto(p, "printCredentials")
    <2>1. GotoWith(p, "printCredentials", job[p])
      BY <1>6, StrictNames DEF RecordInv
    <2> QED
      BY <1>1, <1>2, <1>6, <2>1, Recording
  <1>7. CASE /\ CanCreate(Site(p), k) /\ Put(Site(p), k, Desired(p)[k])
             /\ GotoWith(p, "sync", [job[p] EXCEPT !.left = @ \ {k}])
    <2>1. PICK j : j = [job[p] EXCEPT !.left = @ \ {k}]
      OBVIOUS
    <2>2. /\ j.req = job[p].req /\ j.engine = job[p].engine /\ j.seen = job[p].seen
          /\ j.left = job[p].left \ {k}
      BY <1>2, <2>1 DEF Job
    <2>3. GotoWith(p, "sync", j)
      BY <1>7, <2>1
    <2> QED
      BY <1>1, <1>2, <1>7, <2>2, <2>3, Recording
  <1> QED
    BY <1>4, <1>5, <1>6, <1>7 DEF VaultCall, Call

LEMMA ProvisionPreserves ==
    ASSUME RecordInv, StrictInv', StrictOnly, NEW p \in Invocations, ProvisionStep(p)
    PROVE  RecordInv'
  <1>1. CASE Prepare(p) \/ CreateFolder(p) \/ FolderExists(p) \/ Inspect(p)
    BY <1>1, EarlyPassive, PassivePreserves
  <1>2. CASE CheckDatabase(p) \/ CheckUser(p) \/ PrintCredentials(p)
    BY <1>2, LatePassive, PassivePreserves
  <1>3. CASE Provisioned(p)
    <2>1. At(p, "provisioned") /\ UNCHANGED vaultVars
      BY <1>3 DEF Provisioned, Local, vaultVars
    <2>2. CASE /\ Request(p).online
               /\ GotoWith(p, "sync", [job[p] EXCEPT !.left = Touched(Plan(p))])
      BY <2>1, <2>2, Planned DEF vaultVars
    <2>3. CASE Goto(p, "printOffline")
      <3>1. /\ "provisioned" \in Inspected /\ "printOffline" \in Inspected
            /\ "printOffline" \in Steps
        BY DEF Inspected, Working, After, Steps
      <3>2. Passive(p)
        BY <2>1, <2>3, <3>1, GoesOn DEF At
      <3> QED
        BY <3>2, PassivePreserves
    <2> QED
      BY <1>3, <2>2, <2>3 DEF Provisioned, Local
  <1>4. CASE Sync(p)
    BY <1>4, SyncPreserves
  <1>5. CASE SyncDone(p)
    BY <1>5, Finishing
  <1> QED
    BY <1>1, <1>2, <1>3, <1>4, <1>5 DEF ProvisionStep

LEMMA RecordInvInductive ==
    ASSUME RecordInv, StrictOnly, [Next]_vars
    PROVE  RecordInv'
  <1>1. StrictInv'
    BY StrictInvInductive DEF RecordInv
  <1>2. CASE UNCHANGED vars
    <2>1. pc' = pc /\ job' = job /\ secrets' = secrets /\ folder' = folder
      BY <1>2 DEF vars
    <2>2. ASSUME NEW q \in Invocations
          PROVE  /\ (Knows(pc[q], job[q]) /\ Progress(q) /\ Keeps(q) /\ TypeFirst(q))'
                 /\ HasRecord(q)' = HasRecord(q) /\ Site(q)' = Site(q)
      BY <2>1, Unmoved
    <2>3. OneRecord'
      BY <2>2 DEF RecordInv, OneRecord
    <2> QED
      BY <1>1, <2>2, <2>3 DEF RecordInv
  <1>3. CASE Next
    <2>1. PICK p \in Invocations : Step(p) \/ Crash(p) \/ \E r \in Requests : Start(p, r)
      BY <1>3 DEF Next
    <2>2. CASE Crash(p)
      BY <1>1, <2>2, LatePassive, PassivePreserves
    <2>3. CASE \E r \in Requests : Start(p, r)
      <3>1. TypeInv'
        BY <1>1 DEF StrictInv
      <3> QED
        BY <1>1, <2>3, <3>1, StartPassive, PassivePreserves
    <2>4. CASE Step(p)
      <3>1. pc[p] \in Before \cup Working \cup Ended
        BY DEF RecordInv, StrictInv, Notes
      <3>2. CASE ProvisionStep(p)
        BY <1>1, <3>2, ProvisionPreserves
      <3>3. CASE PgStep(p)
        <4>1. pc[p] \notin Before \cup Ended
          BY <3>3 DEF PgStep, PgUser, PgDatabase, PgLockdown, LockdownStep, PgGrant,
                 PgUndoDatabase, PgUndoUser, PgDropDatabase, PgDropUser, At, Before, Ended
        <4> QED
          BY <1>1, <3>1, <3>3, <4>1, PgPassive, PassivePreserves
      <3>4. CASE MyStep(p)
        <4>1. pc[p] \notin Before \cup Ended
          BY <3>4 DEF MyStep, MyDatabase, MyUser, MyGrant, MyFlush, MyUndoUser, MyUndoDatabase,
                 MyDropUser, MyDropDatabase, MyFlushDrop, At, Before, Ended
        <4> QED
          BY <1>1, <3>1, <3>4, <4>1, MyPassive, PassivePreserves
      <3>5. ~ResolveStep(p)
        BY <3>1 DEF ResolveStep, Resolve, Confirm, Decline, At, Before, Working, PgSteps, MySteps,
               LockdownSteps, After, Ended
      <3>6. ~RotateStep(p)
        BY <3>1 DEF RotateStep, ResolveAgain, Alter, Record, AfterRecordFailed, Verify, Restore,
               PrintRotated, At, Before, Working, PgSteps, MySteps, LockdownSteps, After, Ended
      <3>7. ~DeleteStep(p)
        BY <3>1 DEF DeleteStep, ListSecrets, Erase, DeleteFolder, At, Before, Working, PgSteps,
               MySteps, LockdownSteps, After, Ended
      <3> QED
        BY <2>4, <3>2, <3>3, <3>4, <3>5, <3>6, <3>7 DEF Step
    <2> QED
      BY <2>1, <2>2, <2>3, <2>4
  <1> QED
    BY <1>2, <1>3

LEMMA RecordInvImplies ==
    ASSUME RecordInv, StrictOnly
    PROVE  StrictSuccessKeepsRecord
  <1>1. SUFFICES ASSUME NEW p \in Invocations, At(p, "synced")
                 PROVE  Recorded(p)
    BY DEF StrictSuccessKeepsRecord
  <1> DEFINE found == secrets[Site(p)]
             o == Options(Request(p))
  <1>2. pc[p] = "synced" /\ pc[p] \in Working /\ pc[p] \in Past
    BY <1>1 DEF At, Working, After, Past
  <1>3. Knows(pc[p], job[p]) /\ Progress(p) /\ Keeps(p) /\ Notes(pc[p], job[p])
    BY DEF RecordInv, StrictInv
  <1>4. folder[Site(p)] /\ \A k \in ContractKeys : found[k] = Desired(p)[k]
    BY <1>2, <1>3 DEF Keeps, HasRecord, Progress
  <1>5. /\ found["DB_NAME"] = Db(job[p]) /\ found["DB_USER"] = User(job[p])
        /\ found["DB_PASSWORD"] = p /\ found["DB_HOST"] = Engine(p)
        /\ found["DB_PORT"] = Engine(p)
        /\ found["DB_SCHEMA"] = IF o.schema # "" THEN o.schema ELSE Absent
    BY <1>2, <1>4, DesiredKeys DEF ContractKeys
  <1>6. /\ Db(job[p]) \in Databases /\ User(job[p]) \in Users /\ p \in Passwords
        /\ Engine(p) \in Engines /\ Engine(p) = Request(p).engine
    BY <1>2, <1>3 DEF Notes, Knows, Engine, Request, Passwords
  <1>7. /\ Db(job[p]) # "" /\ User(job[p]) # "" /\ p # "" /\ Engine(p) # ""
        /\ Absent \notin {Db(job[p]), User(job[p]), p, Engine(p)}
    BY <1>6, NamesAssumption DEF Values, Passwords, Engines
  <1>8. RequireCore(ParseCredentials(found))
    BY <1>5, <1>7 DEF RequireCore, ParseCredentials, Lookup, ContractKeys
  <1>9. /\ Engine(p) = "postgres" => o.schema # ""
        /\ Engine(p) = "mysql" => o.schema = ""
    BY <1>2, <1>3, <1>6 DEF Knows, SchemaRefused, Options, Request
  <1>10. Engine(p) = "postgres" => o.schema # Absent
    <2>1. Request(p) \in RequestType
      BY JobTypes DEF RecordInv, StrictInv
    <2>2. o.schema \in Values
      BY <2>1, NamesAssumption DEF Options, RequestType, Values
    <2> QED
      BY <2>2, NamesAssumption
  <1>11. ParseCredentials(found)["DB_SCHEMA"] = o.schema
    BY <1>5, <1>6, <1>9, <1>10 DEF ParseCredentials, Lookup, ContractKeys, Engines
  <1> QED
    BY <1>4, <1>8, <1>9, <1>11 DEF Recorded, ValidateContract

\* However many strict runs record one app at once, and whatever calls of
\* theirs are refused, lost or cut off: a run that reported that it recorded the
\* app has its whole contract in the vault, and no other run has replaced or
\* added a key of it. It rests on the vault's refusal to create what exists, on
\* DB_TYPE being in every contract and first in its order, and on the check that
\* nothing was recorded when the run began.
THEOREM StrictRecord ==
    ASSUME StrictOnly
    PROVE  Spec => []StrictSuccessKeepsRecord
  <1>1. Init => RecordInv
    BY RecordInit
  <1>2. RecordInv /\ [Next]_vars => RecordInv'
    BY RecordInvInductive
  <1>3. RecordInv => StrictSuccessKeepsRecord
    BY RecordInvImplies
  <1> QED
    BY <1>1, <1>2, <1>3, PTL DEF Spec
=============================================================================
