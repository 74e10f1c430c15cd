--------------------------- MODULE ReadersProofs ---------------------------
(***************************************************************************)
(* What the readers can rely on: over any folder, that they and the         *)
(* commands that manage apps accept the same records, and that a rotation   *)
(* restores them; beside strict runs that race, that what they have read    *)
(* opens the database it names.                                             *)
(***************************************************************************)
EXTENDS Readers, RecordProofs, SerialProofs

Readings ==
    [step : {"idle", "fetch", "render", "dial", "done", "failed"}, req : ReadRequests,
     found : SecretMaps, says : SUBSET (Sites \cup Keys \cup [ContractKeys -> Values \cup {Mask}])]

\* What conn and test have checked of the folder they go on with.
ReaderInv ==
    /\ TypeInv
    /\ reader \in Readings
    /\ reader.step = "render" =>
        /\ reader.req.cmd = "conn" /\ Fetched(reader.found)
        /\ ConnAccepts(reader.req, ParseCredentials(reader.found))
    /\ reader.step = "dial" =>
        reader.req.cmd = "test" /\ TestAccepts(ParseCredentials(reader.found))

LEMMA ParsedTypes ==
    ASSUME NEW found \in SecretMaps
    PROVE  ParseCredentials(found) \in [ContractKeys -> Values]
  BY LookupTypes DEF ParseCredentials, Keys

\* A step of the reader.
LEMMA ReaderMoves ==
    ASSUME ReaderInv, ReaderNext, UNCHANGED vars
    PROVE  ReaderInv'
  <1>0. /\ reader \in Readings /\ reader.req \in ReadRequests /\ reader.req \in ReadRequestType
        /\ secrets \in [Sites -> SecretMaps] /\ reader.found \in SecretMaps
        /\ secrets[reader.req.site] \in SecretMaps
    BY ReadRequestsAssumption DEF ReaderInv, Readings, ReadRequestType, TypeInv, TypeOK
  <1>1. TypeInv'
    <2>1. [Next]_vars
      OBVIOUS
    <2> QED
      BY <2>1, TypeInvInductive DEF ReaderInv
  <1>2. ASSUME NEW r \in ReadRequests, ReadStart(r)
        PROVE  ReaderInv'
    <2>1. NotReading \in Readings
      BY ReadRequestsAssumption DEF NotReading, Nothing, Readings, SecretMaps
    <2>2. reader' \in Readings /\ reader'.step \in {"fetch", "failed"}
      BY <1>2, <2>1 DEF ReadStart, Readings
    <2> QED
      BY <1>1, <2>2 DEF ReaderInv
  <1>3. CASE Fetch
    <2>1. PICK found : found = secrets[reader.req.site]
      OBVIOUS
    <2>2. {s \in Sites : folder[s]} \subseteq Sites /\ {k \in Keys : found[k] # Absent} \subseteq Keys
      OBVIOUS
    <2>3. ASSUME NEW next \in Readings, next.step \notin {"render", "dial"}, reader' = next
          PROVE  ReaderInv'
      BY <1>1, <2>3 DEF ReaderInv
    <2>4. CASE reader' = [reader EXCEPT !.step = "failed"]
      <3>1. [reader EXCEPT !.step = "failed"] \in Readings
        BY <1>0 DEF Readings
      <3> QED
        BY <2>3, <2>4, <3>1 DEF Readings
    <2>5. CASE /\ reader.req.cmd = "conn"
               /\ reader' = [reader EXCEPT
                    !.found = found,
                    !.step = IF Fetched(found) /\ ConnAccepts(reader.req, ParseCredentials(found))
                             THEN "render" ELSE "failed"]
      <3>1. /\ reader' \in Readings /\ reader'.found = found /\ reader'.req = reader.req
            /\ \/ reader'.step = "failed"
               \/ /\ reader'.step = "render" /\ Fetched(found)
                  /\ ConnAccepts(reader.req, ParseCredentials(found))
        BY <1>0, <2>1, <2>5 DEF Readings
      <3> QED
        BY <1>1, <2>5, <3>1 DEF ReaderInv
    <2>6. CASE /\ reader.req.cmd = "test"
               /\ reader' = [reader EXCEPT
                    !.found = found,
                    !.step = IF Fetched(found) /\ TestAccepts(ParseCredentials(found))
                             THEN "dial" ELSE "failed"]
      <3>1. /\ reader' \in Readings /\ reader'.found = found /\ reader'.req = reader.req
            /\ \/ reader'.step = "failed"
               \/ reader'.step = "dial" /\ TestAccepts(ParseCredentials(found))
        BY <1>0, <2>1, <2>6 DEF Readings
      <3> QED
        BY <1>1, <2>6, <3>1 DEF ReaderInv
    <2>7. CASE \/ reader' = [reader EXCEPT !.step = "done", !.says = {s \in Sites : folder[s]}]
               \/ reader' = [reader EXCEPT !.step = "done", !.says = {k \in Keys : found[k] # Absent}]
      <3>1. reader' \in Readings /\ reader'.step = "done"
        BY <1>0, <2>2, <2>7 DEF Readings
      <3> QED
        BY <1>1, <3>1 DEF ReaderInv
    <2>8. CASE \E key \in Keys :
                reader' = [reader EXCEPT !.says = {key} \cap {k \in Keys : found[k] # Absent},
                                         !.step = IF found[key] # Absent THEN "done" ELSE "failed"]
      <3>1. PICK key \in Keys :
                reader' = [reader EXCEPT !.says = {key} \cap {k \in Keys : found[k] # Absent},
                                         !.step = IF found[key] # Absent THEN "done" ELSE "failed"]
        BY <2>8
      <3>2. PICK said : said = {key} \cap {k \in Keys : found[k] # Absent}
        OBVIOUS
      <3>3. PICK step \in {"done", "failed"} : reader' = [reader EXCEPT !.says = said, !.step = step]
        BY <3>1, <3>2
      <3>4. reader' \in Readings /\ reader'.step \in {"done", "failed"}
        <4>1. said \subseteq Keys
          BY <3>2
        <4> QED
          BY <1>0, <3>3, <4>1 DEF Readings
      <3> QED
        BY <1>1, <3>4 DEF ReaderInv
    <2>9. reader.req.key \in Keys
      BY <1>0 DEF ReadRequestType
    <2>10. \/ reader' = [reader EXCEPT !.step = "failed"]
           \/ /\ reader.req.cmd = "conn"
              /\ reader' = [reader EXCEPT
                    !.found = found,
                    !.step = IF Fetched(found) /\ ConnAccepts(reader.req, ParseCredentials(found))
                             THEN "render" ELSE "failed"]
           \/ /\ reader.req.cmd = "test"
              /\ reader' = [reader EXCEPT
                    !.found = found,
                    !.step = IF Fetched(found) /\ TestAccepts(ParseCredentials(found))
                             THEN "dial" ELSE "failed"]
           \/ reader' = [reader EXCEPT !.step = "done", !.says = {s \in Sites : folder[s]}]
           \/ reader' = [reader EXCEPT !.step = "done", !.says = {k \in Keys : found[k] # Absent}]
           \/ reader' = [reader EXCEPT
                    !.says = {reader.req.key} \cap {k \in Keys : found[k] # Absent},
                    !.step = IF found[reader.req.key] # Absent THEN "done" ELSE "failed"]
      BY <1>3, <2>1, Zenon DEF Fetch
    <2> QED
      BY <2>4, <2>5, <2>6, <2>7, <2>8, <2>9, <2>10, Zenon
  <1>4. CASE Render
    <2>1. PICK creds : creds = ParseCredentials(reader.found)
      OBVIOUS
    <2>2. Shown(reader.req, creds) \in [ContractKeys -> Values \cup {Mask}]
      BY <1>0, <2>1, ParsedTypes DEF Shown, ContractKeys
    <2>3. reader' \in Readings /\ reader'.step \in {"done", "failed"}
      BY <1>0, <1>4, <2>1, <2>2 DEF Render, Readings
    <2> QED
      BY <1>1, <2>3 DEF ReaderInv
  <1>5. CASE Dial
    <2>1. reader' \in Readings /\ reader'.step \in {"done", "failed"}
      BY <1>0, <1>5 DEF Dial, Readings
    <2> QED
      BY <1>1, <2>1 DEF ReaderInv
  <1> QED
    BY <1>2, <1>3, <1>4, <1>5 DEF ReaderNext

LEMMA ReaderInvInductive ==
    ASSUME ReaderInv, [ReadersNext]_<<vars, reader>>
    PROVE  ReaderInv'
  <1>1. CASE [Next]_vars /\ UNCHANGED reader
    <2>1. TypeInv'
      BY <1>1, TypeInvInductive DEF ReaderInv
    <2> QED
      BY <1>1, <2>1 DEF ReaderInv
  <1>2. CASE ReaderNext /\ UNCHANGED vars
    BY <1>2, ReaderMoves
  <1> QED
    BY <1>1, <1>2 DEF ReadersNext

LEMMA ReaderInvariance == ReadersSpec => []ReaderInv
  <1>1. ReadersInit => ReaderInv
    <2>1. NotReading \in Readings /\ NotReading.step = "idle"
      BY ReadRequestsAssumption DEF NotReading, Nothing, Readings, SecretMaps
    <2> QED
      BY <2>1, InitTyped DEF ReadersInit, ReaderInv
  <1>2. ReaderInv /\ [ReadersNext]_<<vars, reader>> => ReaderInv'
    BY ReaderInvInductive
  <1> QED
    BY <1>1, <1>2, PTL DEF ReadersSpec

\* Whatever a folder holds, and whatever commands overlap: an app that conn
\* accepts (conn.go, ResolveType and ValidateContract) is one that test accepts,
\* and that rotate and delete resolve (ResolveApp, resolveEngine), to the same
\* engine.
THEOREM ConnectableApps == ReadersSpec => []ConnectableIsResolvable
  <1>1. ASSUME ReaderInv, reader.step = "render"
        PROVE  LET creds == ParseCredentials(reader.found)
               IN  /\ TestAccepts(creds)
                   /\ Resolvable(reader.found)
                   /\ ResolveEngine(creds, "") = creds["DB_TYPE"]
    <2>1. PICK creds : creds = ParseCredentials(reader.found)
      OBVIOUS
    <2>2. ResolveType(creds) /\ RequireCore(creds) /\ Fetched(reader.found)
      BY <1>1, <2>1 DEF ReaderInv, ConnAccepts, ValidateContract
    <2>3. creds["DB_NAME"] # "" /\ creds["DB_USER"] # ""
      BY <2>2 DEF RequireCore
    <2>4. /\ creds["DB_NAME"] = Lookup(reader.found, "DB_NAME")
          /\ creds["DB_USER"] = Lookup(reader.found, "DB_USER")
      BY <2>1 DEF ParseCredentials, ContractKeys
    <2> QED
      BY <2>1, <2>2, <2>3, <2>4 DEF TestAccepts, Resolvable, Fetched, ResolveEngine
  <1>2. ReaderInv => ConnectableIsResolvable
    BY <1>1 DEF ConnectableIsResolvable
  <1> QED
    BY <1>2, ReaderInvariance, PTL

\* And the formats it accepts for an engine (validateFormatForDatabase) are ones
\* the engine's generator renders, those in the rows of the table included.
THEOREM FormatsAgree == ReadersSpec => AcceptedIsRendered
  <1>1. ASSUME ReaderInv, [ReadersNext]_<<vars, reader>>, reader.step = "render", reader'.step # "render"
        PROVE  reader'.step = "done"
    <2>1. PICK engine : engine = ParseCredentials(reader.found)["DB_TYPE"]
      OBVIOUS
    <2>2. Render
      BY <1>1 DEF ReadersNext, ReaderNext, ReadStart, Fetch, Dial
    <2>3. engine \in Engines /\ reader.req.format \in ValidFormats[engine]
      BY <1>1, <2>1 DEF ReaderInv, ConnAccepts, ResolveType
    <2>4. ToRender(reader.req, engine) \subseteq Rendered[engine]
      BY <2>3 DEF Engines, ToRender, TableRows, Rendered, ValidFormats
    <2> QED
      BY <1>1, <2>1, <2>2, <2>4 DEF Render, ReaderInv, Readings
  <1>2. ReaderInv /\ [ReadersNext]_<<vars, reader>> =>
            [reader.step = "render" /\ reader'.step # "render" => reader'.step = "done"]_<<vars, reader>>
    BY <1>1
  <1> QED
    BY <1>2, ReaderInvariance, PTL DEF ReadersSpec, AcceptedIsRendered

\* Operators who wait for each other, and any faults: if everything but the
\* password is recorded as readers want it when a rotation reads the record,
\* they accept the app once the rotation has reported success.
THEOREM RotationRestores ==
    ASSUME Exclusive
    PROVE  ReadersSpec => RotationRestoresReaders
  <1>1. ASSUME SerialInv, [Next]_vars, NEW p \in Invocations, Ends(p, "rotated")
        PROVE  ParseCredentials(secrets'[Site(p)]) =
                    [ParseCredentials(job[p].seen) EXCEPT !["DB_PASSWORD"] = p]
    <2>1. SerialFacts(p)' /\ pc'[p] = "rotated" /\ Step(p) /\ LeftInv /\ p # Absent
      BY <1>1, EndFacts, StoreTypes DEF Reported, SerialInv
    <2>2. Site(p)' = Site(p) /\ job'[p].seen = job[p].seen
      BY <2>1, EndNotes, SameNames DEF SameNotes, Reported
    <2>3. /\ secrets'[Site(p)]["DB_PASSWORD"] = p
          /\ \A k \in ContractKeys \ {"DB_PASSWORD"} : secrets'[Site(p)][k] = job[p].seen[k]
      BY <2>1, <2>2 DEF SerialFacts, Rekeyed
    <2>4. \A k \in ContractKeys : Lookup(secrets'[Site(p)], k) =
            IF k = "DB_PASSWORD" THEN p ELSE Lookup(job[p].seen, k)
      BY <2>1, <2>3 DEF Lookup
    <2> QED
      BY <2>4 DEF ParseCredentials
  <1>2. SerialInv /\ [Next]_vars => [\A p \in Invocations : Ends(p, "rotated") =>
            LET e == Engine(p)
                after == ParseCredentials(secrets'[Site(p)])
                whole(creds) == creds["DB_TYPE"] = e /\ ValidateContract(creds, e)
            IN  whole([ParseCredentials(job[p].seen) EXCEPT !["DB_PASSWORD"] = p]) => whole(after)]_vars
    BY <1>1
  <1>3. ReadersInit => Init
    BY DEF ReadersInit
  <1>4. [ReadersNext]_<<vars, reader>> => [Next]_vars
    BY DEF ReadersNext
  <1> QED
    BY <1>2, <1>3, <1>4, SerialInvariance, PTL DEF Spec, ReadersSpec, RotationRestoresReaders

----------------------------------------------------------------------------
(* Beside strict runs: what has been read stays true.                      *)

\* Where the run is whose password somebody may have read.
Tail == {"sync", "printCredentials", "synced", "failed", "crashed"}

\* They open a database that no run under way may still drop, but the one that
\* has recorded them; and that one is past the steps that drop anything.
Safe(creds) ==
    /\ creds["DB_TYPE"] \in Engines /\ LetsIn(creds["DB_TYPE"], creds)
    /\ \A p \in Invocations :
        /\ HasDb(pc[p], job[p])
        /\ job[p].engine = creds["DB_TYPE"] /\ Db(job[p]) = creds["DB_NAME"]
        => creds["DB_PASSWORD"] = p
    /\ \A p \in Invocations : creds["DB_PASSWORD"] = p => pc[p] \in Tail

SeenInv ==
    /\ StrictInv /\ RecordInv /\ LeftInv /\ ReaderInv
    /\ \A s \in Sites :
        TestAccepts(ParseCredentials(secrets[s])) => Safe(ParseCredentials(secrets[s]))
    /\ reader.step \in {"render", "dial"} => Safe(ParseCredentials(reader.found))
    /\ Says("conn") => \A creds \in reader.says : creds["DB_PASSWORD"] # Mask => Safe(creds)

\* The steps of a strict run that change a server, as far as others see them.
LEMMA StrictWrites ==
    ASSUME StrictInv, StrictOnly, RouteInv, NEW p \in Invocations, Step(p),
           NEW engine, engine = Engine(p), NEW db, db = DbOf(p), NEW user, user = UserOf(p)
    PROVE  \/ UNCHANGED sqlVars
           \/ /\ pc[p] \in PgSteps \cup MySteps /\ engine \in Engines /\ db \in Databases /\ user \in Users
              /\ \/ role[engine][user] = Absent /\ SetPassword(engine, user, p)
                 \/ owner[engine][db] = Absent /\ \E o : CreateDb(engine, db, o)
                 \/ HasDb(pc[p], job[p]) /\ \E statement \in Lockdown : Harden(engine, db, statement)
                 \/ GrantAccess(engine, db, user)
                 \/ HasDb(pc[p], job[p]) /\ DropDb(engine, db)
                 \/ HasUser(pc[p], job[p]) /\ DropRole(engine, user)
  <1>0. /\ Engine(p) = job[p].engine /\ DbOf(p) = Db(job[p]) /\ UserOf(p) = User(job[p])
        /\ Notes(pc[p], job[p])
    BY StrictNames
  <1>1. CASE pc[p] \notin PgSteps \cup MySteps
    <2>1. pc[p] \in Before \cup Ended \cup After
      BY <1>0, <1>1 DEF Notes, Working
    <2>2. SqlWrite(p)
      BY Writes
    <2> QED
      BY <1>1, <2>1, <2>2 DEF SqlWrite, At, Before, Ended, After, PgSteps, MySteps, LockdownSteps, Locking
  <1>2. CASE pc[p] \in PgSteps \cup MySteps
    <2>1. SqlWrite(p)
      BY Writes
    <2>2. /\ engine \in Engines /\ db \in Databases /\ user \in Users /\ ~job[p].dbThere /\ ~job[p].userThere
      BY <1>0, <1>2 DEF Notes, Working
    <2>3. /\ pc[p] \in Locking => HasDb(pc[p], job[p])
          /\ pc[p] \in {"pgUndoDatabase", "myUndoDatabase"} /\ job[p].dbMade => HasDb(pc[p], job[p])
          /\ pc[p] \in {"pgUndoUser", "myUndoUser"} /\ job[p].userMade => HasUser(pc[p], job[p])
      BY <1>0 DEF Notes, HasDb, HasUser, Locking, DbSteps, LockdownSteps, Ended
    <2>4. /\ RoleExists(engine, user) <=> role[engine][user] # Absent
          /\ DbExists(engine, db) <=> owner[engine][db] # Absent
      BY <2>2 DEF RoleExists, DbExists
    <2>5. \/ UNCHANGED sqlVars
          \/ ~RoleExists(engine, user) /\ SetPassword(engine, user, p)
          \/ ~DbExists(engine, db) /\ \E o : CreateDb(engine, db, o)
          \/ pc[p] \in Locking /\ \E statement \in Lockdown : Harden(engine, db, statement)
          \/ GrantAccess(engine, db, user)
          \/ /\ pc[p] \in {"pgUndoDatabase", "myUndoDatabase"} /\ job[p].dbMade
             /\ DropDb(engine, db)
          \/ /\ pc[p] \in {"pgUndoUser", "myUndoUser"} /\ job[p].userMade
             /\ DropRole(engine, user)
      BY <1>2, <2>1, <2>2 DEF SqlWrite, At, PgSteps, MySteps, LockdownSteps
    <2> QED
      BY <1>2, <2>2, <2>3, <2>4, <2>5
  <1> QED
    BY <1>1, <1>2

\* Past its adapter a run drops nothing any more.
LEMMA TailGoesOn ==
    ASSUME RouteInv, NEW p \in Invocations, Step(p), pc[p] \in Tail
    PROVE  pc'[p] \in Tail
  <1>0. pc \in [Invocations -> Steps] /\ pc[p] \in {"sync", "printCredentials"}
    BY StepKeeps DEF RouteInv, TypeInv, TypeOK, Tail, Active, Finished
  <1>1. Sync(p) \/ SyncDone(p) \/ PrintCredentials(p)
    BY <1>0 DEF Step, PgStep, PgUser, PgDatabase, PgLockdown, LockdownStep, PgGrant, PgUndoUser,
       PgUndoDatabase, PgDropDatabase, PgDropUser, MyStep, MyDatabase, MyUser, MyGrant, MyFlush,
       MyUndoUser, MyUndoDatabase, MyDropUser, MyDropDatabase, MyFlushDrop, ProvisionStep, Prepare,
       CreateFolder, FolderExists, Inspect, CheckDatabase, CheckUser, Provisioned, ResolveStep, Resolve,
       Confirm, Decline, RotateStep, ResolveAgain, Alter, Record, Verify, Restore, PrintRotated,
       DeleteStep, ListSecrets, Erase, DeleteFolder, At
  <1> QED
    BY <1>0, <1>1 DEF Sync, SyncDone, PrintCredentials, PrintsPassword, VaultCall, Call, Local, Goto,
       GotoWith, At, Tail

\* A run comes to hold a database only where there was none.
LEMMA NewHolder ==
    ASSUME StrictInv, StrictOnly, TypeInv', NEW p \in Invocations, Step(p), HasDb(pc'[p], job'[p])
    PROVE  /\ job'[p].engine = job[p].engine /\ Db(job'[p]) = Db(job[p])
           /\ HasDb(pc[p], job[p]) \/ owner[job[p].engine][Db(job[p])] = Absent
  <1>1. StrictMove(p)
    BY StepMoves
  <1>2. PICK l \in Steps, j \in Job :
            /\ pc' = [pc EXCEPT ![p] = l] /\ job' = [job EXCEPT ![p] = j]
            /\ HasDb(l, j) => /\ j.engine = job[p].engine /\ Db(j) = Db(job[p])
                              /\ HasDb(pc[p], job[p]) \/ owner[j.engine][Db(j)] = Absent
    BY <1>1 DEF StrictMove
  <1>3. pc \in [Invocations -> Steps] /\ job \in [Invocations -> Job]
    BY DEF StrictInv, TypeInv, TypeOK
  <1> QED
    BY <1>2, <1>3

LEMMA SafeKept ==
    ASSUME StrictInv, StrictOnly, RouteInv, TypeInv', [Next]_vars,
           NEW creds, Safe(creds)
    PROVE  Safe(creds)'
  <1> DEFINE Others(p) == \A q \in Invocations \ {p} : pc'[q] = pc[q] /\ job'[q] = job[q]
  <1>0. /\ role \in Roles /\ owner \in Owners /\ access \in Accesses /\ hardening \in Hardenings
        /\ pc \in [Invocations -> Steps] /\ job \in [Invocations -> Job]
    BY DEF StrictInv, TypeInv, TypeOK
  <1>1. PICK e, d, u, pw : /\ e = creds["DB_TYPE"] /\ d = creds["DB_NAME"]
                           /\ u = creds["DB_USER"] /\ pw = creds["DB_PASSWORD"]
    OBVIOUS
  <1>2. /\ e \in Engines /\ d \in Databases /\ u \in Users /\ owner[e][d] # Absent
        /\ role[e][u] # Absent /\ role[e][u] = pw
        /\ e = "postgres" => owner[e][d] = u \/ "connectRevoked" \notin hardening[e][d]
        /\ e = "mysql" => u \in access[e][d]
    BY <1>1 DEF Safe, LetsIn, DbExists, RoleExists
  <1>3. ASSUME /\ owner'[e][d] = owner[e][d] /\ hardening'[e][d] = hardening[e][d]
               /\ role'[e][u] = role[e][u] /\ (u \in access[e][d] => u \in access'[e][d])
        PROVE  LetsIn(creds["DB_TYPE"], creds)'
    BY <1>1, <1>2, <1>3 DEF LetsIn, DbExists, RoleExists
  <1>4. ASSUME NEW p \in Invocations, Others(p), LetsIn(creds["DB_TYPE"], creds)',
               HasDb(pc'[p], job'[p]) /\ job'[p].engine = e /\ Db(job'[p]) = d =>
                    HasDb(pc[p], job[p]) /\ job[p].engine = e /\ Db(job[p]) = d,
               pc[p] \in Tail => pc'[p] \in Tail
        PROVE  Safe(creds)'
    <2>1. ASSUME NEW q \in Invocations
          PROVE  /\ HasDb(pc'[q], job'[q]) /\ job'[q].engine = e /\ Db(job'[q]) = d => pw = q
                 /\ pw = q => pc'[q] \in Tail
      BY <1>1, <1>4 DEF Safe
    <2> QED
      BY <1>1, <1>2, <1>4, <2>1 DEF Safe
  <1>5. CASE UNCHANGED vars
    BY <1>5 DEF vars, Safe, LetsIn, DbExists, RoleExists
  <1>6. ASSUME NEW p \in Invocations, Crash(p) \/ \E r \in Requests : Start(p, r)
        PROVE  Safe(creds)'
    <2>1. /\ role' = role /\ owner' = owner /\ access' = access /\ hardening' = hardening
      BY <1>6 DEF Crash, Start, Local
    <2>2. /\ Others(p) /\ ~HasDb(pc'[p], job'[p])
          /\ pc[p] \in Tail => pc'[p] \in Tail
      <3>1. CASE Crash(p)
        BY <1>0, <3>1 DEF Crash, Goto, HasDb, Ended, Tail
      <3>2. CASE \E r \in Requests : Start(p, r)
        <4>1. PICK r \in Requests : Start(p, r)
          BY <3>2
        <4>2. GotoWith(p, FirstStep(r), NewJob(r)) /\ pc[p] = "idle"
          BY <4>1 DEF Start, Local, At
        <4>3. Others(p) /\ job'[p] = NewJob(r)
          BY <1>0, <4>2 DEF GotoWith
        <4> QED
          BY <4>2, <4>3 DEF NewJob, HasDb, Tail
      <3> QED
        BY <1>6, <3>1, <3>2
    <2>3. LetsIn(creds["DB_TYPE"], creds)'
      BY <1>3, <2>1
    <2> HIDE DEF Others
    <2> QED
      BY <1>4, <2>2, <2>3
  <1>7. ASSUME NEW p \in Invocations, Step(p)
        PROVE  Safe(creds)'
    <2>1. Others(p)
      <3>1. \E l, j : GotoWith(p, l, j)
        BY <1>7, PgFollows, MyFollows, ProvisionFollows, ResolveFollows, RotateFollows,
           DeleteFollows DEF Step, Follows
      <3> QED
        BY <1>0, <3>1 DEF GotoWith
    <2>2. PICK engine, db, user : engine = Engine(p) /\ db = DbOf(p) /\ user = UserOf(p)
      OBVIOUS
    <2>3. /\ engine = job[p].engine /\ db = Db(job[p]) /\ user = User(job[p])
          /\ HasUser(pc[p], job[p]) => role[engine][user] = p
      BY <2>2, StrictNames DEF Holds
    <2>4. HasDb(pc[p], job[p]) /\ engine = e /\ db = d => pw = p
      BY <1>1, <2>3 DEF Safe
    <2>5. pw = p => pc[p] \notin PgSteps \cup MySteps
      BY <1>1 DEF Safe, Tail, PgSteps, MySteps, LockdownSteps
    <2>6. LetsIn(creds["DB_TYPE"], creds)'
      <3>1. CASE UNCHANGED sqlVars
        BY <1>3, <3>1 DEF sqlVars
      <3>2. CASE ~UNCHANGED sqlVars
        <4>1. /\ pc[p] \in PgSteps \cup MySteps /\ engine \in Engines /\ db \in Databases /\ user \in Users
              /\ \/ role[engine][user] = Absent /\ SetPassword(engine, user, p)
                 \/ owner[engine][db] = Absent /\ \E o : CreateDb(engine, db, o)
                 \/ HasDb(pc[p], job[p]) /\ \E statement \in Lockdown : Harden(engine, db, statement)
                 \/ GrantAccess(engine, db, user)
                 \/ HasDb(pc[p], job[p]) /\ DropDb(engine, db)
                 \/ HasUser(pc[p], job[p]) /\ DropRole(engine, user)
          BY <1>7, <2>2, <3>2, StrictWrites
        <4>2. ~(HasDb(pc[p], job[p]) /\ engine = e /\ db = d)
          BY <2>4, <2>5, <4>1
        <4>3. ~(HasUser(pc[p], job[p]) /\ engine = e /\ user = u)
          BY <1>2, <2>3, <2>5, <4>1
        <4>4. CASE role[engine][user] = Absent /\ SetPassword(engine, user, p)
          BY <1>0, <1>2, <1>3, <4>1, <4>4 DEF SetPassword, Roles
        <4>5. CASE owner[engine][db] = Absent /\ \E o : CreateDb(engine, db, o)
          BY <1>0, <1>2, <1>3, <4>1, <4>5 DEF CreateDb, Owners, Hardenings
        <4>6. CASE HasDb(pc[p], job[p]) /\ \E statement \in Lockdown : Harden(engine, db, statement)
          BY <1>0, <1>2, <1>3, <4>1, <4>2, <4>6 DEF Harden, Hardenings
        <4>7. CASE GrantAccess(engine, db, user)
          BY <1>0, <1>2, <1>3, <4>1, <4>7 DEF GrantAccess, Accesses
        <4>8. CASE HasDb(pc[p], job[p]) /\ DropDb(engine, db)
          BY <1>0, <1>2, <1>3, <4>1, <4>2, <4>8 DEF DropDb, Owners, Accesses, Hardenings
        <4>9. CASE HasUser(pc[p], job[p]) /\ DropRole(engine, user)
          BY <1>0, <1>2, <1>3, <4>1, <4>3, <4>9 DEF DropRole, Roles, Accesses
        <4> QED
          BY <4>1, <4>4, <4>5, <4>6, <4>7, <4>8, <4>9
      <3> QED
        BY <3>1, <3>2
    <2>7. HasDb(pc'[p], job'[p]) /\ job'[p].engine = e /\ Db(job'[p]) = d =>
            HasDb(pc[p], job[p]) /\ job[p].engine = e /\ Db(job[p]) = d
      BY <1>2, <1>7, NewHolder
    <2> HIDE DEF Others
    <2> QED
      BY <1>4, <1>7, <2>1, <2>6, <2>7, TailGoesOn
  <1> QED
    BY <1>5, <1>6, <1>7 DEF Next

\* A folder a strict run has just written a key of holds what the run made, as
\* far as it goes, or too little to be accepted.
LEMMA WrittenIsSafe ==
    ASSUME StrictInv, RecordInv, StrictOnly, LeftInv, RouteInv, TypeInv', NEW p \in Invocations, Step(p),
           At(p, "sync"), job[p].left # {},
           NEW k, k = NextOperation(Plan(p), job[p].left),
           CanCreate(Site(p), k), Put(Site(p), k, Desired(p)[k]), UNCHANGED sqlVars,
           NEW creds, creds = ParseCredentials(secrets'[Site(p)]), TestAccepts(creds)
    PROVE  Safe(creds)'
  <1>0. /\ pc \in [Invocations -> Steps] /\ job \in [Invocations -> Job]
        /\ secrets \in [Sites -> SecretMaps] /\ Site(p) \in Sites
        /\ p # Absent
    BY StoreTypes
  <1>1. k \in ContractKeys /\ k \in job[p].left /\ ("DB_TYPE" \in job[p].left => k = "DB_TYPE")
    BY NextKey
  <1>2. PICK after : after = secrets'[Site(p)] /\ creds = ParseCredentials(after)
    OBVIOUS
  <1>3. /\ after[k] = Desired(p)[k]
        /\ \A other \in ContractKeys \ {k} : after[other] = secrets[Site(p)][other]
    BY <1>0, <1>1, <1>2 DEF Put, SecretMaps, Keys
  <1>4. \A key \in ContractKeys : creds[key] # "" => after[key] # Absent /\ creds[key] = after[key]
    BY <1>2 DEF ParseCredentials, Lookup
  <1>5. /\ {"DB_HOST", "DB_NAME", "DB_USER", "DB_PASSWORD", "DB_TYPE"} \subseteq ContractKeys
        /\ \A key \in {"DB_HOST", "DB_NAME", "DB_USER", "DB_PASSWORD"} : creds[key] # ""
        /\ creds["DB_TYPE"] \in Engines /\ creds["DB_TYPE"] # ""
    BY <1>2 DEF TestAccepts, RequireCore, ResolveType, ContractKeys, Engines
  <1>6. "DB_TYPE" \notin job[p].left
    <2>1. SUFFICES ASSUME "DB_TYPE" \in job[p].left
                   PROVE  FALSE
      OBVIOUS
    <2>2. k = "DB_TYPE" /\ secrets[Site(p)]["DB_TYPE"] = Absent
      BY <1>1, <2>1 DEF CanCreate
    <2>3. job[p].req.online /\ pc[p] \in Inspected
      BY DEF RecordInv, Knows, Inspected, Working, After, At
    <2>4. secrets[Site(p)]["DB_HOST"] = Absent
      BY <1>5, <2>2, <2>3 DEF RecordInv, TypeFirst
    <2> QED
      BY <1>3, <1>4, <1>5, <2>2, <2>4
  <1>7. \A key \in ContractKeys : after[key] \in {Absent, Desired(p)[key]}
    BY <1>1, <1>3, <1>6 DEF RecordInv, Keeps, HasRecord, At
  <1>8. pc[p] \in Working
    BY DEF At, Working, After
  <1>9. /\ creds["DB_TYPE"] = Engine(p) /\ creds["DB_NAME"] = Db(job[p])
        /\ creds["DB_USER"] = User(job[p]) /\ creds["DB_PASSWORD"] = p
    <2>1. \A key \in {"DB_TYPE", "DB_NAME", "DB_USER", "DB_PASSWORD"} : creds[key] = Desired(p)[key]
      BY <1>4, <1>5, <1>7
    <2> QED
      BY <1>8, <2>1, DesiredKeys
  <1>10. /\ HasDb(pc[p], job[p]) /\ Engine(p) = job[p].engine
         /\ role[Engine(p)][User(job[p])] = p /\ owner[Engine(p)][Db(job[p])] # Absent
         /\ Engine(p) = "postgres" => owner[Engine(p)][Db(job[p])] = User(job[p])
         /\ User(job[p]) \in access[Engine(p)][Db(job[p])]
         /\ Db(job[p]) \in Databases /\ User(job[p]) \in Users
    <2>1. Notes(pc[p], job[p]) /\ Holds(p, pc[p], job[p]) /\ Engine(p) = job[p].engine
      BY StrictNames
    <2>2. job[p].dbMade /\ job[p].userMade
      BY <2>1 DEF Notes, UserSteps, DbSteps, After, At
    <2>3. HasDb(pc[p], job[p]) /\ HasUser(pc[p], job[p])
      BY <2>2 DEF HasDb, HasUser, Ended, At
    <2> QED
      BY <1>8, <2>1, <2>3 DEF Notes, Holds, Granted, After, At
  <1>11. LetsIn(creds["DB_TYPE"], creds)
    BY <1>0, <1>9, <1>10 DEF LetsIn, DbExists, RoleExists
  <1>12. \A q \in Invocations : /\ HasDb(pc[q], job[q])
                                /\ job[q].engine = creds["DB_TYPE"] /\ Db(job[q]) = creds["DB_NAME"]
                                => q = p
    BY <1>9, <1>10 DEF StrictInv, NoSharing
  <1>13. LetsIn(creds["DB_TYPE"], creds)'
    BY <1>11 DEF LetsIn, DbExists, RoleExists, sqlVars
  <1>14. ASSUME NEW q \in Invocations
         PROVE  /\ HasDb(pc'[q], job'[q]) /\ job'[q].engine = creds["DB_TYPE"]
                   /\ Db(job'[q]) = creds["DB_NAME"] => creds["DB_PASSWORD"] = q
                /\ creds["DB_PASSWORD"] = q => pc'[q] \in Tail
    <2>1. CASE q = p
      <3>1. pc[p] \in Tail
        BY DEF Tail, At
      <3> QED
        BY <1>9, <2>1, <3>1, TailGoesOn
    <2>2. CASE q # p
      <3>1. \E l, j : GotoWith(p, l, j)
        BY PgFollows, MyFollows, ProvisionFollows, ResolveFollows, RotateFollows, DeleteFollows
        DEF Step, Follows
      <3>2. pc'[q] = pc[q] /\ job'[q] = job[q]
        BY <1>0, <2>2, <3>1 DEF GotoWith
      <3> QED
        BY <1>9, <1>12, <2>2, <3>2
    <2> QED
      BY <2>1, <2>2
  <1> QED
    BY <1>5, <1>13, <1>14 DEF Safe

\* What no step of a command but a strict run's sync does to a folder.
LEMMA StrictVault ==
    ASSUME StrictInv, RecordInv, StrictOnly, LeftInv, RouteInv, [Next]_vars, NEW s \in Sites,
           secrets'[s] # secrets[s]
    PROVE  \E p \in Invocations : \E k :
                /\ Step(p) /\ s = Site(p) /\ At(p, "sync") /\ job[p].left # {}
                /\ k = NextOperation(Plan(p), job[p].left)
                /\ CanCreate(Site(p), k) /\ Put(Site(p), k, Desired(p)[k]) /\ UNCHANGED sqlVars
  <1>1. PICK p \in Invocations : Step(p) /\ SqlWrite(p) /\ VaultWrite(p)
    BY WritersOnly
  <1>2. Notes(pc[p], job[p])
    BY StrictNames
  <1>3. PICK k : k = NextOperation(Plan(p), job[p].left)
    OBVIOUS
  <1>4. ~At(p, "record") /\ ~At(p, "erase")
    BY <1>2 DEF Notes, At, Before, Working, Ended, PgSteps, MySteps, LockdownSteps, After
  <1>5. ~UNCHANGED secrets
    OBVIOUS
  <1>6. /\ At(p, "sync") /\ job[p].left # {} /\ Put(Site(p), k, Desired(p)[k])
        /\ IF k \in Plan(p).creates THEN CanCreate(Site(p), k) ELSE CanUpdate(Site(p), k)
    BY <1>1, <1>3, <1>4, <1>5 DEF VaultWrite, MakeFolder, vaultVars
  <1>7. k \in Plan(p).creates
    BY <1>3, <1>6, NextKey, PlanCreates
  <1>8. s = Site(p)
    <2>1. secrets \in [Sites -> SecretMaps]
      BY StoreTypes
    <2> QED
      BY <1>6, <2>1 DEF Put
  <1>9. UNCHANGED sqlVars
    BY <1>1, <1>6 DEF SqlWrite, At, Locking
  <1> QED
    BY <1>1, <1>3, <1>6, <1>7, <1>8, <1>9

LEMMA SeenInvInductive ==
    ASSUME SeenInv, StrictOnly, [ReadersNext]_<<vars, reader>>
    PROVE  SeenInv'
  <1>0. [Next]_vars
    BY DEF ReadersNext
  <1>1. /\ StrictInv' /\ RecordInv' /\ LeftInv' /\ ReaderInv'
        /\ StrictInv /\ RecordInv /\ LeftInv /\ RouteInv /\ TypeInv' /\ ReaderInv
    BY <1>0, RecordInvInductive, LeftInvInductive, ReaderInvInductive DEF SeenInv, RecordInv, StrictInv, LeftInv
  <1>2. \A creds : Safe(creds) => Safe(creds)'
    BY <1>0, <1>1, SafeKept
  <1>3. ASSUME NEW s \in Sites, NEW creds, creds = ParseCredentials(secrets'[s]), TestAccepts(creds)
        PROVE  Safe(creds)'
    <2>1. CASE secrets'[s] = secrets[s]
      <3>1. Safe(creds)
        BY <1>3, <2>1 DEF SeenInv
      <3> QED
        BY <1>2, <3>1
    <2>2. CASE secrets'[s] # secrets[s]
      BY <1>0, <1>1, <1>3, <2>2, StrictVault, WrittenIsSafe
    <2> QED
      BY <2>1, <2>2
  <1>4. ASSUME reader'.step \in {"render", "dial"}, NEW creds, creds = ParseCredentials(reader'.found)
        PROVE  Safe(creds)'
    <2>1. CASE UNCHANGED reader
      BY <1>2, <1>4, <2>1 DEF SeenInv
    <2>2. CASE ReaderNext /\ UNCHANGED vars
      <3>1. Fetch
        <4>1. ~Render /\ ~Dial /\ \A r \in ReadRequests : ~ReadStart(r)
          BY <1>1, <1>4 DEF Render, Dial, ReadStart, ReaderInv, Readings, NotReading
        <4> QED
          BY <2>2, <4>1 DEF ReaderNext
      <3>2. PICK found : found = secrets[reader.req.site]
        OBVIOUS
      <3>3. reader'.found = found
        BY <1>1, <1>4, <3>1, <3>2 DEF Fetch, ReaderInv, Readings
      <3>4. TestAccepts(creds)
        BY <1>1, <1>4 DEF ReaderInv, ConnAccepts, TestAccepts, ValidateContract
      <3>5. reader.req.site \in Sites
        BY <1>1, ReadRequestsAssumption DEF ReaderInv, Readings, ReadRequestType
      <3>6. Safe(creds)
        BY <1>4, <3>2, <3>3, <3>4, <3>5 DEF SeenInv
      <3> QED
        BY <1>2, <3>6
    <2> QED
      BY <2>1, <2>2 DEF ReadersNext
  <1>5. ASSUME Says("conn")', NEW creds \in reader'.says, creds["DB_PASSWORD"] # Mask
        PROVE  Safe(creds)'
    <2>1. CASE UNCHANGED reader
      BY <1>2, <1>5, <2>1 DEF SeenInv, Says
    <2>2. CASE ReaderNext /\ UNCHANGED vars
      <3>1. Render
        <4>1. \A r \in ReadRequests : ~ReadStart(r)
          BY <1>5 DEF Says, ReadStart, NotReading
        <4>2. ~Dial
          BY <1>1, <1>5 DEF Dial, Says, ReaderInv, Readings
        <4>3. ~Fetch
          BY <1>1, <1>5 DEF Fetch, Says, ReaderInv, Readings
        <4> QED
          BY <2>2, <4>1, <4>2, <4>3 DEF ReaderNext
      <3>2. PICK found, parsed : found = ParseCredentials(reader.found) /\ parsed = Shown(reader.req, found)
        OBVIOUS
      <3>3. reader.step = "render" /\ creds = parsed
        BY <1>1, <1>5, <3>1, <3>2 DEF Render, Says, ReaderInv, Readings
      <3>4. parsed = found
        <4>1. found = [k \in ContractKeys |-> Lookup(reader.found, k)]
          BY <3>2 DEF ParseCredentials
        <4>2. [found EXCEPT !["DB_PASSWORD"] = Mask]["DB_PASSWORD"] = Mask
          BY <4>1 DEF ContractKeys
        <4> QED
          BY <1>5, <3>2, <3>3, <4>2 DEF Shown
      <3>5. Safe(creds)
        BY <3>2, <3>3, <3>4 DEF SeenInv
      <3> QED
        BY <1>2, <3>5
    <2> QED
      BY <2>1, <2>2 DEF ReadersNext
  <1>6. \A s \in Sites : TestAccepts(ParseCredentials(secrets[s]))' => Safe(ParseCredentials(secrets[s]))'
    <2> SUFFICES ASSUME NEW s \in Sites, TestAccepts(ParseCredentials(secrets'[s]))
                 PROVE  Safe(ParseCredentials(secrets[s]))'
      OBVIOUS
    <2>1. PICK creds : creds = ParseCredentials(secrets'[s])
      OBVIOUS
    <2>2. Safe(creds)'
      BY <1>3, <2>1
    <2> QED
      BY <2>1, <2>2 DEF Safe, LetsIn, DbExists, RoleExists
  <1>7. reader'.step \in {"render", "dial"} => Safe(ParseCredentials(reader.found))'
    <2> SUFFICES ASSUME reader'.step \in {"render", "dial"}
                 PROVE  Safe(ParseCredentials(reader.found))'
      OBVIOUS
    <2>1. PICK creds : creds = ParseCredentials(reader'.found)
      OBVIOUS
    <2>2. Safe(creds)'
      BY <1>4, <2>1
    <2> QED
      BY <2>1, <2>2 DEF Safe, LetsIn, DbExists, RoleExists
  <1> QED
    BY <1>1, <1>5, <1>6, <1>7 DEF SeenInv

\* Every record a reader would take, at first, is of an app that works.
FirstAppsWork ==
    \A s \in Sites :
        LET creds == ParseCredentials(secrets[s])
        IN  TestAccepts(creds) => LetsIn(creds["DB_TYPE"], creds)

\* Strict runs that overlap in any way and fail in any way, on stores whose
\* recorded apps work: what a reader has fetched, and is about to render or dial
\* with, or has printed, opens the database it names, for good (conn.go and
\* test.go read once, executeSyncPlan writes key by key).
THEOREM ReadersReadWorkingApps ==
    ASSUME StrictOnly
    PROVE  ReadersSpec /\ FirstAppsWork => []ReadersSeeWorkingApps
  <1>1. ReadersInit /\ FirstAppsWork => SeenInv
    <2> SUFFICES ASSUME ReadersInit, FirstAppsWork
                 PROVE  SeenInv
      OBVIOUS
    <2>1. Init /\ reader = NotReading
      BY DEF ReadersInit
    <2>2. StrictInv /\ RecordInv /\ RouteInv
      BY <2>1, StrictInit, RecordInit, RouteInit
    <2>3. LeftInv
      BY <2>1, <2>2 DEF LeftInv, Init, At
    <2>4. ReaderInv
      <3>1. NotReading \in Readings /\ NotReading.step = "idle"
        BY ReadRequestsAssumption DEF NotReading, Nothing, Readings, SecretMaps
      <3> QED
        BY <2>1, <3>1, InitTyped DEF ReaderInv
    <2>5. ASSUME NEW s \in Sites, TestAccepts(ParseCredentials(secrets[s]))
          PROVE  Safe(ParseCredentials(secrets[s]))
      <3>1. PICK creds : creds = ParseCredentials(secrets[s])
        OBVIOUS
      <3>2. \A p \in Invocations : ~HasDb(pc[p], job[p])
        BY <2>1 DEF Init, NewJob, HasDb
      <3>3. creds["DB_PASSWORD"] \notin Invocations
        <4>1. creds["DB_PASSWORD"] = Lookup(secrets[s], "DB_PASSWORD")
          BY <3>1 DEF ParseCredentials, ContractKeys
        <4>2. secrets[s]["DB_PASSWORD"] \notin Invocations
          BY <2>1, FirstStatesAssumption DEF Init
        <4>3. "" \notin Invocations
          BY NamesAssumption DEF Passwords
        <4> QED
          BY <4>1, <4>2, <4>3 DEF Lookup
      <3>4. creds["DB_TYPE"] \in Engines /\ LetsIn(creds["DB_TYPE"], creds)
        BY <2>5, <3>1 DEF FirstAppsWork, TestAccepts, ResolveType
      <3> QED
        BY <3>1, <3>2, <3>3, <3>4 DEF Safe
    <2>6. reader.step = "idle"
      BY <2>1 DEF NotReading
    <2> QED
      BY <2>2, <2>3, <2>4, <2>5, <2>6 DEF SeenInv, Says
  <1>2. SeenInv /\ [ReadersNext]_<<vars, reader>> => SeenInv'
    BY SeenInvInductive
  <1>3. SeenInv => ReadersSeeWorkingApps
    BY DEF SeenInv, ReadersSeeWorkingApps, Safe
  <1> QED
    BY <1>1, <1>2, <1>3, PTL DEF ReadersSpec
=============================================================================
