-------------------------- MODULE LifecycleProofs --------------------------
(***************************************************************************)
(* Type correctness of Lifecycle, for any number of invocations, sites,    *)
(* names, requests and faults.                                             *)
(***************************************************************************)
EXTENDS Lifecycle, TLAPS

\* Once an invocation is past resolving, it works on a known engine.
EngineKnown ==
    \A p \in Invocations : pc[p] \notin {"idle", "resolve"} \cup Finished => Engine(p) \in Engines

TypeInv == TypeOK /\ EngineKnown

SqlOK == role \in Roles /\ owner \in Owners /\ access \in Accesses /\ hardening \in Hardenings
VaultOK == secrets \in [Sites -> SecretMaps] /\ folder \in [Sites -> BOOLEAN]

\* The invocation moves to a known step with well-typed locals.
Control(p) ==
    \E l \in Steps, j \in Job :
        /\ pc' = [pc EXCEPT ![p] = l] /\ job' = [job EXCEPT ![p] = j]
        /\ l \in {"idle", "resolve"} \cup Finished \/ j.engine \in Engines

\* Every other variable keeps its type.
Kept ==
    /\ SqlOK' /\ VaultOK'
    /\ shown' \subseteq Invocations
    /\ faults' \in 0 .. MaxFaults

Typed(p) == Control(p) /\ Kept

LEMMA TypedPreserves ==
    ASSUME TypeInv, NEW p \in Invocations, Typed(p)
    PROVE  TypeInv'
  <1>1. PICK l \in Steps, j \in Job :
            /\ pc' = [pc EXCEPT ![p] = l] /\ job' = [job EXCEPT ![p] = j]
            /\ l \in {"idle", "resolve"} \cup Finished \/ j.engine \in Engines
    BY DEF Typed, Control
  <1>2. pc' \in [Invocations -> Steps] /\ job' \in [Invocations -> Job]
    BY <1>1 DEF TypeInv, TypeOK
  <1>3. EngineKnown'
    BY <1>1 DEF TypeInv, TypeOK, EngineKnown, Engine
  <1> QED
    BY <1>2, <1>3 DEF TypeInv, TypeOK, Typed, Kept, SqlOK, VaultOK

LEMMA GotoControl ==
    ASSUME TypeInv, NEW p \in Invocations, NEW l \in Steps, Goto(p, l),
           l \in Finished \/ Engine(p) \in Engines
    PROVE  Control(p)
  BY DEF TypeInv, TypeOK, Goto, Control, Engine

LEMMA GotoWithControl ==
    ASSUME TypeInv, NEW p \in Invocations, NEW l \in Steps, NEW j \in Job, GotoWith(p, l, j),
           l \in {"idle", "resolve"} \cup Finished \/ j.engine \in Engines
    PROVE  Control(p)
  BY DEF GotoWith, Control

\* The effects on the servers keep their types, whatever names they are given.
LEMMA SqlTypes ==
    ASSUME SqlOK, NEW e, NEW u, NEW d
    PROVE  /\ \A pw \in Values \cup {Absent} : SetPassword(e, u, pw) => SqlOK'
           /\ DropRole(e, u) => SqlOK'
           /\ \A o \in Users \cup {Admin} : CreateDb(e, d, o) \/ SetOwner(e, d, o) => SqlOK'
           /\ DropDb(e, d) => SqlOK'
           /\ u \in Users /\ GrantAccess(e, d, u) => SqlOK'
           /\ \A statement \in Lockdown : Harden(e, d, statement) => SqlOK'
           /\ UNCHANGED sqlVars => SqlOK'
  <1>1. ASSUME NEW pw \in Values \cup {Absent}, SetPassword(e, u, pw) PROVE SqlOK'
    BY <1>1 DEF SqlOK, SetPassword, Roles
  <1>2. ASSUME DropRole(e, u) PROVE SqlOK'
    BY <1>2 DEF SqlOK, DropRole, Roles, Accesses
  <1>3. ASSUME NEW o \in Users \cup {Admin}, CreateDb(e, d, o) PROVE SqlOK'
    BY <1>3 DEF SqlOK, CreateDb, Owners, Hardenings
  <1>4. ASSUME NEW o \in Users \cup {Admin}, SetOwner(e, d, o) PROVE SqlOK'
    BY <1>4 DEF SqlOK, SetOwner, Owners
  <1>5. ASSUME DropDb(e, d) PROVE SqlOK'
    BY <1>5 DEF SqlOK, DropDb, Owners, Accesses, Hardenings
  <1>6. ASSUME u \in Users, GrantAccess(e, d, u) PROVE SqlOK'
    BY <1>6 DEF SqlOK, GrantAccess, Accesses
  <1>7. ASSUME NEW statement \in Lockdown, Harden(e, d, statement) PROVE SqlOK'
    BY <1>7 DEF SqlOK, Harden, Hardenings
  <1>8. ASSUME UNCHANGED sqlVars PROVE SqlOK'
    BY <1>8 DEF SqlOK, sqlVars
  <1> QED
    BY <1>1, <1>2, <1>3, <1>4, <1>5, <1>6, <1>7, <1>8

LEMMA VaultTypes ==
    ASSUME VaultOK, NEW s, NEW k
    PROVE  /\ \A v : (k \in Keys => v \in Values \cup {Absent}) /\ Put(s, k, v) => VaultOK'
           /\ MakeFolder(s) \/ RemoveFolder(s) => VaultOK'
           /\ UNCHANGED vaultVars => VaultOK'
  <1>1. ASSUME NEW v, k \in Keys => v \in Values \cup {Absent}, Put(s, k, v) PROVE VaultOK'
    BY <1>1 DEF VaultOK, Put, SecretMaps
  <1>2. ASSUME MakeFolder(s) PROVE VaultOK'
    BY <1>2 DEF VaultOK, MakeFolder
  <1>3. ASSUME RemoveFolder(s) PROVE VaultOK'
    BY <1>3 DEF VaultOK, RemoveFolder, SecretMaps
  <1>4. ASSUME UNCHANGED vaultVars PROVE VaultOK'
    BY <1>4 DEF VaultOK, vaultVars
  <1> QED
    BY <1>1, <1>2, <1>3, <1>4

----------------------------------------------------------------------------
(* One call: what it may do to each variable, apart from control.          *)

\* The budget of faults stays in its range.
LEMMA FaultTypes ==
    ASSUME TypeInv
    PROVE  /\ UNCHANGED faults => faults' \in 0 .. MaxFaults
           /\ \A kind : Fault(kind) => faults' \in 0 .. MaxFaults
  BY FaultsAssumption DEF TypeInv, TypeOK, Fault

\* The stores' part of TypeInv, and what passes over from one state to the next.
LEMMA StoresTyped ==
    ASSUME TypeInv
    PROVE  /\ SqlOK /\ VaultOK
           /\ UNCHANGED <<secrets, folder>> => VaultOK'
           /\ UNCHANGED <<role, owner, access, hardening>> => SqlOK'
           /\ UNCHANGED shown => shown' \subseteq Invocations
           /\ \A p \in Invocations : shown' = shown \cup {p} => shown' \subseteq Invocations
  BY DEF TypeInv, TypeOK, SqlOK, VaultOK

\* An invocation that is neither idle, resolving nor finished.
LEMMA WorkingEngine ==
    ASSUME TypeInv, NEW p \in Invocations,
           pc[p] \notin {"idle", "resolve"} \cup Finished
    PROVE  Engine(p) \in Engines
  BY DEF TypeInv, EngineKnown

LEMMA JobTypes ==
    ASSUME TypeInv, NEW p \in Invocations
    PROVE  /\ job[p] \in Job /\ Engine(p) = job[p].engine
           /\ Request(p) \in Requests /\ Request(p) \in RequestType /\ Site(p) \in Sites
           /\ p \in Values
  <1>1. job[p] \in Job
    BY DEF TypeInv, TypeOK
  <1>2. Request(p) \in Requests /\ Request(p) \in RequestType
    BY <1>1, RequestsAssumption DEF Job, Request
  <1>3. Site(p) \in Sites
    BY <1>2 DEF Site, Request, RequestType
  <1> QED
    BY <1>1, <1>2, <1>3 DEF Engine, Values, Passwords

\* What an invocation notes down leaves it on its engine.
JobsOn(e) == {j \in Job : j.engine = e}

LEMMA JobUpdates ==
    ASSUME TypeInv, NEW p \in Invocations
    PROVE  /\ \A b \in BOOLEAN :
                /\ [job[p] EXCEPT !.userMade = b] \in JobsOn(Engine(p))
                /\ [job[p] EXCEPT !.dbMade = b] \in JobsOn(Engine(p))
                /\ [job[p] EXCEPT !.userThere = b] \in JobsOn(Engine(p))
                /\ [job[p] EXCEPT !.dbThere = b] \in JobsOn(Engine(p))
           /\ \A m \in SecretMaps : [job[p] EXCEPT !.seen = m] \in JobsOn(Engine(p))
           /\ \A S \in SUBSET Keys : [job[p] EXCEPT !.left = S] \in JobsOn(Engine(p))
  <1>1. job[p] \in Job /\ Engine(p) = job[p].engine
    BY JobTypes
  <1> QED
    BY <1>1 DEF Job, JobsOn

LEMMA NoteControl ==
    ASSUME TypeInv, NEW p \in Invocations, NEW l \in Steps, Engine(p) \in Engines,
           NEW j \in JobsOn(Engine(p)), GotoWith(p, l, j)
    PROVE  Control(p)
  BY GotoWithControl DEF JobsOn

\* The postgres adapter.
LEMMA PgTyped ==
    ASSUME TypeInv, NEW p \in Invocations, PgStep(p)
    PROVE  Typed(p)
  <1> USE DEF Typed
  <1>1. CASE PgUser(p)
    <2>0. Engine(p) \in Engines
      BY <1>1, WorkingEngine DEF PgUser, At, Finished
    <2>1. Kept
      BY <1>1, SqlTypes, JobTypes, StoresTyped, FaultTypes DEF Kept, PgUser, SqlCall, Call, sqlVars
    <2>2. \/ Goto(p, "pgDatabase")
          \/ Goto(p, "pgUndoDatabase")
          \/ GotoWith(p, "pgDatabase", [job[p] EXCEPT !.userMade = TRUE])
      BY <1>1 DEF PgUser, SqlCall, Call
    <2> QED
      BY <2>0, <2>1, <2>2, GotoControl, NoteControl, JobUpdates DEF Steps, Finished
  <1>2. CASE PgDatabase(p)
    <2>0. Engine(p) \in Engines
      BY <1>2, WorkingEngine DEF PgDatabase, At, Finished
    <2>1. Kept
      BY <1>2, SqlTypes, StoresTyped, FaultTypes DEF Kept, PgDatabase, RoleExists, SqlCall, Call, sqlVars
    <2>2. \/ Goto(p, "connectRevoked")
          \/ Goto(p, "pgUndoDatabase")
          \/ GotoWith(p, "connectRevoked", [job[p] EXCEPT !.dbMade = TRUE])
      BY <1>2 DEF PgDatabase, RoleExists, SqlCall, Call
    <2> QED
      BY <2>0, <2>1, <2>2, GotoControl, NoteControl, JobUpdates DEF Steps, Finished
  <1>3. CASE PgLockdown(p)
    <2>0. Engine(p) \in Engines
      BY <1>3, WorkingEngine DEF PgLockdown, LockdownStep, Lockdown, At, Finished
    <2>1. Kept
      BY <1>3, SqlTypes, StoresTyped, FaultTypes DEF Kept, PgLockdown, LockdownStep, Lockdown, SqlCall, Call, sqlVars
    <2>2. \/ Goto(p, "publicReowned")
          \/ Goto(p, "publicRevoked")
          \/ Goto(p, "pgGrant")
          \/ Goto(p, "pgUndoDatabase")
      BY <1>3 DEF PgLockdown, LockdownStep, Lockdown, SqlCall, Call
    <2> QED
      BY <2>0, <2>1, <2>2, GotoControl DEF Steps, Finished
  <1>4. CASE PgGrant(p)
    <2>0. Engine(p) \in Engines
      BY <1>4, WorkingEngine DEF PgGrant, At, Finished
    <2>1. Kept
      BY <1>4, SqlTypes, StoresTyped, FaultTypes DEF Kept, PgGrant, RoleExists, SqlCall, Call, sqlVars
    <2>2. Goto(p, "provisioned") \/ Goto(p, "pgUndoDatabase")
      BY <1>4 DEF PgGrant, RoleExists, SqlCall, Call
    <2> QED
      BY <2>0, <2>1, <2>2, GotoControl DEF Steps, Finished
  <1>5. CASE PgUndoDatabase(p)
    <2>0. Engine(p) \in Engines
      BY <1>5, WorkingEngine DEF PgUndoDatabase, At, Finished
    <2>1. Kept
      BY <1>5, SqlTypes, StoresTyped, FaultTypes DEF Kept, PgUndoDatabase, SqlCall, Call, sqlVars, Local
    <2>2. Goto(p, "pgUndoUser")
      BY <1>5 DEF PgUndoDatabase, SqlCall, Call, Local
    <2> QED
      BY <2>0, <2>1, <2>2, GotoControl DEF Steps, Finished
  <1>6. CASE PgUndoUser(p)
    <2>0. Engine(p) \in Engines
      BY <1>6, WorkingEngine DEF PgUndoUser, At, Finished
    <2>1. Kept
      BY <1>6, SqlTypes, StoresTyped, FaultTypes DEF Kept, PgUndoUser, SqlCall, Call, sqlVars, Local
    <2>2. Goto(p, "failed")
      BY <1>6 DEF PgUndoUser, SqlCall, Call, Local
    <2> QED
      BY <2>0, <2>1, <2>2, GotoControl DEF Steps, Finished
  <1>7. CASE PgDropDatabase(p)
    <2>0. Engine(p) \in Engines
      BY <1>7, WorkingEngine DEF PgDropDatabase, At, Finished
    <2>1. Kept
      BY <1>7, SqlTypes, StoresTyped, FaultTypes DEF Kept, PgDropDatabase, SqlCall, Call, sqlVars
    <2>2. Goto(p, "pgDropUser") \/ Goto(p, "failed")
      BY <1>7 DEF PgDropDatabase, SqlCall, Call
    <2> QED
      BY <2>0, <2>1, <2>2, GotoControl DEF Steps, Finished
  <1>8. CASE PgDropUser(p)
    <2>0. Engine(p) \in Engines
      BY <1>8, WorkingEngine DEF PgDropUser, At, Finished
    <2>1. Kept
      BY <1>8, SqlTypes, StoresTyped, FaultTypes DEF Kept, PgDropUser, SqlCall, Call, sqlVars
    <2>2. Goto(p, "listSecrets") \/ Goto(p, "failed")
      BY <1>8 DEF PgDropUser, SqlCall, Call
    <2> QED
      BY <2>0, <2>1, <2>2, GotoControl DEF Steps, Finished
  <1> QED
    BY <1>1, <1>2, <1>3, <1>4, <1>5, <1>6, <1>7, <1>8 DEF PgStep

\* The mysql adapter.
LEMMA MyTyped ==
    ASSUME TypeInv, NEW p \in Invocations, MyStep(p)
    PROVE  Typed(p)
  <1> USE DEF Typed
  <1>1. CASE MyDatabase(p)
    <2>0. Engine(p) \in Engines
      BY <1>1, WorkingEngine DEF MyDatabase, At, Finished
    <2>1. Kept
      BY <1>1, SqlTypes, StoresTyped, FaultTypes DEF Kept, MyDatabase, SqlCall, Call, sqlVars, Local
    <2>2. \/ Goto(p, "myUser")
          \/ Goto(p, "myUndoUser")
          \/ GotoWith(p, "myUser", [job[p] EXCEPT !.dbMade = TRUE])
      BY <1>1 DEF MyDatabase, SqlCall, Call, Local
    <2> QED
      BY <2>0, <2>1, <2>2, GotoControl, NoteControl, JobUpdates DEF Steps, Finished
  <1>2. CASE MyUser(p)
    <2>0. Engine(p) \in Engines
      BY <1>2, WorkingEngine DEF MyUser, At, Finished
    <2>1. Kept
      BY <1>2, SqlTypes, JobTypes, StoresTyped, FaultTypes DEF Kept, MyUser, SqlCall, Call, sqlVars
    <2>2. \/ Goto(p, "myGrant")
          \/ Goto(p, "myUndoUser")
          \/ GotoWith(p, "myGrant", [job[p] EXCEPT !.userMade = TRUE])
      BY <1>2 DEF MyUser, SqlCall, Call
    <2> QED
      BY <2>0, <2>1, <2>2, GotoControl, NoteControl, JobUpdates DEF Steps, Finished
  <1>3. CASE MyGrant(p)
    <2>0. Engine(p) \in Engines
      BY <1>3, WorkingEngine DEF MyGrant, At, Finished
    <2>1. Kept
      BY <1>3, SqlTypes, StoresTyped, FaultTypes DEF Kept, MyGrant, RoleExists, SqlCall, Call, sqlVars
    <2>2. Goto(p, "myFlush") \/ Goto(p, "myUndoUser")
      BY <1>3 DEF MyGrant, RoleExists, SqlCall, Call
    <2> QED
      BY <2>0, <2>1, <2>2, GotoControl DEF Steps, Finished
  <1>4. CASE MyFlush(p)
    <2>0. Engine(p) \in Engines
      BY <1>4, WorkingEngine DEF MyFlush, At, Finished
    <2>1. Kept
      BY <1>4, SqlTypes, StoresTyped, FaultTypes DEF Kept, MyFlush, Read
    <2>2. Goto(p, "provisioned") \/ Goto(p, "myUndoUser")
      BY <1>4 DEF MyFlush, Read
    <2> QED
      BY <2>0, <2>1, <2>2, GotoControl DEF Steps, Finished
  <1>5. CASE MyUndoUser(p)
    <2>0. Engine(p) \in Engines
      BY <1>5, WorkingEngine DEF MyUndoUser, At, Finished
    <2>1. Kept
      BY <1>5, SqlTypes, StoresTyped, FaultTypes DEF Kept, MyUndoUser, SqlCall, Call, sqlVars, Local
    <2>2. Goto(p, "myUndoDatabase")
      BY <1>5 DEF MyUndoUser, SqlCall, Call, Local
    <2> QED
      BY <2>0, <2>1, <2>2, GotoControl DEF Steps, Finished
  <1>6. CASE MyUndoDatabase(p)
    <2>0. Engine(p) \in Engines
      BY <1>6, WorkingEngine DEF MyUndoDatabase, At, Finished
    <2>1. Kept
      BY <1>6, SqlTypes, StoresTyped, FaultTypes DEF Kept, MyUndoDatabase, SqlCall, Call, sqlVars, Local
    <2>2. Goto(p, "failed")
      BY <1>6 DEF MyUndoDatabase, SqlCall, Call, Local
    <2> QED
      BY <2>0, <2>1, <2>2, GotoControl DEF Steps, Finished
  <1>7. CASE MyDropUser(p)
    <2>0. Engine(p) \in Engines
      BY <1>7, WorkingEngine DEF MyDropUser, At, Finished
    <2>1. Kept
      BY <1>7, SqlTypes, StoresTyped, FaultTypes DEF Kept, MyDropUser, SqlCall, Call, sqlVars
    <2>2. Goto(p, "myDropDatabase") \/ Goto(p, "failed")
      BY <1>7 DEF MyDropUser, SqlCall, Call
    <2> QED
      BY <2>0, <2>1, <2>2, GotoControl DEF Steps, Finished
  <1>8. CASE MyDropDatabase(p)
    <2>0. Engine(p) \in Engines
      BY <1>8, WorkingEngine DEF MyDropDatabase, At, Finished
    <2>1. Kept
      BY <1>8, SqlTypes, StoresTyped, FaultTypes DEF Kept, MyDropDatabase, SqlCall, Call, sqlVars
    <2>2. Goto(p, "myFlushDrop") \/ Goto(p, "failed")
      BY <1>8 DEF MyDropDatabase, SqlCall, Call
    <2> QED
      BY <2>0, <2>1, <2>2, GotoControl DEF Steps, Finished
  <1>9. CASE MyFlushDrop(p)
    <2>0. Engine(p) \in Engines
      BY <1>9, WorkingEngine DEF MyFlushDrop, At, Finished
    <2>1. Kept
      BY <1>9, SqlTypes, StoresTyped, FaultTypes DEF Kept, MyFlushDrop, Read
    <2>2. Goto(p, "listSecrets") \/ Goto(p, "failed")
      BY <1>9 DEF MyFlushDrop, Read
    <2> QED
      BY <2>0, <2>1, <2>2, GotoControl DEF Steps, Finished
  <1> QED
    BY <1>1, <1>2, <1>3, <1>4, <1>5, <1>6, <1>7, <1>8, <1>9 DEF MyStep

----------------------------------------------------------------------------
(* What the operators compute.                                             *)

LEMMA LookupTypes ==
    ASSUME NEW m \in SecretMaps, NEW k \in Keys
    PROVE  Lookup(m, k) \in Values
  BY DEF SecretMaps, Lookup, Values

LEMMA DesiredTypes ==
    ASSUME TypeInv, NEW p \in Invocations, NEW k \in Keys
    PROVE  Desired(p)[k] \in Values \cup {Absent}
  <1> DEFINE r == Request(p)
             o == Options(r)
  <1>0. Engine(p) \in Values
    <2>1. Engine(p) \in Engines \cup {""}
      BY JobTypes DEF Job
    <2> QED
      BY <2>1 DEF Values
  <1>1. r \in RequestType /\ p \in Values
    BY JobTypes
  <1>2. o.db \in Values /\ o.user \in Values /\ o.schema \in Values
    BY <1>1, NamesAssumption DEF Options, RequestType, Values
  <1> HIDE DEF o
  <1>3. CASE k \notin ContractKeys
    BY <1>3 DEF Desired, ToSecrets
  <1>4. CASE k \in ContractKeys
    BY <1>0, <1>1, <1>2, <1>4 DEF Desired, ToSecrets, ContractKeys, o
  <1> QED
    BY <1>3, <1>4

\* There is a first key in any part of the contract, and DB_TYPE is the first.
LEMMA EarliestKey ==
    ASSUME NEW S \in SUBSET ContractKeys, S # {}
    PROVE  /\ Earliest(SerializationOrder, S) \in S
           /\ "DB_TYPE" \in S => Earliest(SerializationOrder, S) = "DB_TYPE"
  <1> DEFINE order == SerializationOrder
             First(k) == k \in S /\ \A other \in S : order[k] <= order[other]
  <1>1. /\ order["DB_TYPE"] = 1 /\ order["DB_NAME"] = 2 /\ order["DB_USER"] = 3
        /\ order["DB_PASSWORD"] = 4 /\ order["DB_HOST"] = 5 /\ order["DB_PORT"] = 6
        /\ order["DB_SCHEMA"] = 7
    BY DEF SerializationOrder, Keys, ContractKeys
  <1> HIDE DEF order
  <1>2. \E k \in S : First(k)
    <2>1. CASE "DB_TYPE" \in S
      BY <1>1, <2>1 DEF ContractKeys
    <2>2. CASE "DB_TYPE" \notin S /\ "DB_NAME" \in S
      BY <1>1, <2>2 DEF ContractKeys
    <2>3. CASE {"DB_TYPE", "DB_NAME"} \cap S = {} /\ "DB_USER" \in S
      BY <1>1, <2>3 DEF ContractKeys
    <2>4. CASE {"DB_TYPE", "DB_NAME", "DB_USER"} \cap S = {} /\ "DB_PASSWORD" \in S
      BY <1>1, <2>4 DEF ContractKeys
    <2>5. CASE {"DB_TYPE", "DB_NAME", "DB_USER", "DB_PASSWORD"} \cap S = {}
      <3>1. S \subseteq {"DB_HOST", "DB_PORT", "DB_SCHEMA"}
        BY <2>5 DEF ContractKeys
      <3>2. CASE "DB_HOST" \in S
        BY <1>1, <3>1, <3>2
      <3>3. CASE "DB_HOST" \notin S /\ "DB_PORT" \in S
        BY <1>1, <3>1, <3>3
      <3>4. CASE "DB_HOST" \notin S /\ "DB_PORT" \notin S
        <4>1. S = {"DB_SCHEMA"}
          BY <3>1, <3>4
        <4> QED
          BY <1>1, <4>1
      <3> QED
        BY <3>2, <3>3, <3>4
    <2> QED
      BY <2>1, <2>2, <2>3, <2>4, <2>5
  <1> HIDE DEF First
  <1>3. Earliest(order, S) = CHOOSE k : First(k)
    BY DEF Earliest, First, order
  <1>4. First(Earliest(order, S))
    <2>1. First(CHOOSE k : First(k))
      BY <1>2, Zenon
    <2> QED
      BY <1>3, <2>1, Zenon
  <1>5. ASSUME "DB_TYPE" \in S PROVE Earliest(order, S) = "DB_TYPE"
    <2>1. PICK e : e = Earliest(order, S)
      OBVIOUS
    <2>2. e \in ContractKeys /\ order[e] <= order["DB_TYPE"]
      BY <1>4, <1>5, <2>1 DEF First
    <2>3. e = "DB_TYPE"
      BY <1>1, <2>2 DEF ContractKeys
    <2> QED
      BY <2>1, <2>3
  <1> QED
    BY <1>4, <1>5 DEF order, First

LEMMA TouchedKeys ==
    ASSUME NEW p \in Invocations
    PROVE  Touched(Plan(p)) \in SUBSET Keys
  BY DEF Touched, Plan, PlanSecretSync, Keys

LEMMA SecretsOf ==
    ASSUME TypeInv, NEW p \in Invocations
    PROVE  secrets[Site(p)] \in SecretMaps
  BY JobTypes DEF TypeInv, TypeOK

LEMMA NextToEraseKeys ==
    ASSUME NEW S
    PROVE  NextToErase(S) \subseteq Keys
  BY DEF NextToErase, Keys

\* provision, apart from its adapter.
LEMMA ProvisionTyped ==
    ASSUME TypeInv, NEW p \in Invocations, ProvisionStep(p)
    PROVE  Typed(p)
  <1> USE DEF Typed
  <1>1. CASE Prepare(p)
    <2>0. Engine(p) \in Engines
      BY <1>1, WorkingEngine DEF Prepare, At, Finished
    <2>1. Kept
      BY <1>1, StoresTyped, FaultTypes DEF Kept, Prepare, Local
    <2>2. \/ Goto(p, "failed")
          \/ Goto(p, "createFolder")
          \/ Goto(p, "checkDatabase")
      BY <1>1 DEF Prepare, Local
    <2> QED
      BY <2>0, <2>1, <2>2, GotoControl DEF Steps, Finished
  <1>2. CASE CreateFolder(p)
    <2>0. Engine(p) \in Engines
      BY <1>2, WorkingEngine DEF CreateFolder, At, Finished
    <2>1. Kept
      BY <1>2, VaultTypes, StoresTyped, FaultTypes DEF Kept, CreateFolder, VaultCall, Call, vaultVars
    <2>2. Goto(p, "inspect") \/ Goto(p, "folderExists")
      BY <1>2 DEF CreateFolder, VaultCall, Call
    <2> QED
      BY <2>0, <2>1, <2>2, GotoControl DEF Steps, Finished
  <1>3. CASE FolderExists(p)
    <2>0. Engine(p) \in Engines
      BY <1>3, WorkingEngine DEF FolderExists, At, Finished
    <2>1. Kept
      BY <1>3, StoresTyped, FaultTypes DEF Kept, FolderExists, Read
    <2>2. Goto(p, "inspect") \/ Goto(p, "failed")
      BY <1>3 DEF FolderExists, Read
    <2> QED
      BY <2>0, <2>1, <2>2, GotoControl DEF Steps, Finished
  <1>4. CASE Inspect(p)
    <2>0. Engine(p) \in Engines
      BY <1>4, WorkingEngine DEF Inspect, At, Finished
    <2>1. Kept
      BY <1>4, StoresTyped, FaultTypes DEF Kept, Inspect, Read
    <2>2. \/ Goto(p, "failed")
          \/ GotoWith(p, "checkDatabase", [job[p] EXCEPT !.seen = secrets[Site(p)]])
      BY <1>4 DEF Inspect, Read
    <2> QED
      BY <2>0, <2>1, <2>2, GotoControl, NoteControl, JobUpdates, SecretsOf DEF Steps, Finished
  <1>5. CASE CheckDatabase(p)
    <2>0. Engine(p) \in Engines
      BY <1>5, WorkingEngine DEF CheckDatabase, At, Finished
    <2>1. Kept
      BY <1>5, StoresTyped, FaultTypes DEF Kept, CheckDatabase, Read
    <2>2. \/ Goto(p, "failed")
          \/ GotoWith(p, "checkUser", [job[p] EXCEPT !.dbThere = DbExists(Engine(p), DbOf(p))])
      BY <1>5 DEF CheckDatabase, Read
    <2>3. DbExists(Engine(p), DbOf(p)) \in BOOLEAN
      BY DEF DbExists
    <2> QED
      BY <2>0, <2>1, <2>2, <2>3, GotoControl, NoteControl, JobUpdates DEF Steps, Finished
  <1>6. CASE CheckUser(p)
    <2>0. Engine(p) \in Engines
      BY <1>6, WorkingEngine DEF CheckUser, At, Finished
    <2>1. Kept
      BY <1>6, StoresTyped, FaultTypes DEF Kept, CheckUser, Read
    <2>2. \/ Goto(p, "failed")
          \/ GotoWith(p, "pgUser", [job[p] EXCEPT !.userThere = RoleExists(Engine(p), UserOf(p))])
          \/ GotoWith(p, "myDatabase", [job[p] EXCEPT !.userThere = RoleExists(Engine(p), UserOf(p))])
      BY <1>6, <2>0 DEF CheckUser, FirstStatement, Engines, Read
    <2>3. RoleExists(Engine(p), UserOf(p)) \in BOOLEAN
      BY DEF RoleExists
    <2> QED
      BY <2>0, <2>1, <2>2, <2>3, GotoControl, NoteControl, JobUpdates DEF Steps, Finished
  <1>7. CASE Provisioned(p)
    <2>0. Engine(p) \in Engines
      BY <1>7, WorkingEngine DEF Provisioned, At, Finished
    <2>1. Kept
      BY <1>7, StoresTyped, FaultTypes DEF Kept, Provisioned, Local
    <2>2. \/ Goto(p, "printOffline")
          \/ GotoWith(p, "sync", [job[p] EXCEPT !.left = Touched(Plan(p))])
      BY <1>7 DEF Provisioned, Local
    <2> QED
      BY <2>0, <2>1, <2>2, GotoControl, NoteControl, JobUpdates, TouchedKeys DEF Steps, Finished
  <1>8. CASE Sync(p)
    <2>0. Engine(p) \in Engines
      BY <1>8, WorkingEngine DEF Sync, At, Finished
    <2>1. Kept
      BY <1>8, VaultTypes, DesiredTypes, StoresTyped, FaultTypes DEF Kept, Sync, VaultCall, Call, vaultVars
    <2>2. \/ Goto(p, "printCredentials")
          \/ GotoWith(p, "sync", [job[p] EXCEPT !.left = @ \ {NextOperation(Plan(p), job[p].left)}])
      BY <1>8 DEF Sync, VaultCall, Call
    <2>3. \A k : [job[p] EXCEPT !.left = @ \ {k}] \in JobsOn(Engine(p))
      BY JobTypes DEF Job, JobsOn
    <2> QED
      BY <2>0, <2>1, <2>2, <2>3, GotoControl, NoteControl DEF Steps, Finished
  <1>9. CASE SyncDone(p)
    <2>0. Engine(p) \in Engines
      BY <1>9, WorkingEngine DEF SyncDone, At, Finished
    <2>1. Kept
      BY <1>9, StoresTyped, FaultTypes DEF Kept, SyncDone, Local
    <2>2. Goto(p, "synced")
      BY <1>9 DEF SyncDone, Local
    <2> QED
      BY <2>0, <2>1, <2>2, GotoControl DEF Steps, Finished
  <1>10. CASE PrintCredentials(p)
    <2>0. Engine(p) \in Engines
      BY <1>10, WorkingEngine DEF PrintCredentials, PrintsPassword, At, Finished
    <2>1. Kept
      BY <1>10, StoresTyped, FaultTypes DEF Kept, PrintCredentials, PrintsPassword
    <2>2. Goto(p, "failed") \/ Goto(p, "offline")
      BY <1>10 DEF PrintCredentials, PrintsPassword
    <2> QED
      BY <2>0, <2>1, <2>2, GotoControl DEF Steps, Finished
  <1> QED
    BY <1>1, <1>2, <1>3, <1>4, <1>5, <1>6, <1>7, <1>8, <1>9, <1>10 DEF ProvisionStep

LEMMA CommandCases ==
    ASSUME TypeInv, NEW p \in Invocations
    PROVE  Request(p).cmd \in {"provision", "rotate", "delete"}
  BY JobTypes DEF RequestType

\* Resolving and confirming.
LEMMA ResolveTyped ==
    ASSUME TypeInv, NEW p \in Invocations, ResolveStep(p)
    PROVE  Typed(p)
  <1> USE DEF Typed
  <1>1. CASE Resolve(p)
    <2>1. Kept
      BY <1>1, StoresTyped, FaultTypes DEF Kept, Resolve, Read
    <2>2. CASE Goto(p, "failed")
      BY <2>1, <2>2, GotoControl DEF Steps, Finished
    <2>3. CASE \E e \in Engines :
                  GotoWith(p, "confirm", [job[p] EXCEPT !.seen = secrets[Site(p)], !.engine = e])
      <3>1. PICK e \in Engines :
                  GotoWith(p, "confirm", [job[p] EXCEPT !.seen = secrets[Site(p)], !.engine = e])
        BY <2>3
      <3>2. [job[p] EXCEPT !.seen = secrets[Site(p)], !.engine = e] \in JobsOn(e)
        BY JobTypes, SecretsOf DEF Job, JobsOn
      <3> QED
        BY <2>1, <3>1, <3>2, GotoWithControl DEF JobsOn, Steps
    <2> QED
      BY <1>1, <2>2, <2>3 DEF Resolve, Read
  <1>2. CASE Confirm(p)
    <2>0. Engine(p) \in Engines
      BY <1>2, WorkingEngine DEF Confirm, At, Finished
    <2>1. Kept
      BY <1>2, StoresTyped, FaultTypes DEF Kept, Confirm, Local
    <2>2. \/ Goto(p, "prepare")
          \/ Goto(p, "resolveAgain")
          \/ Goto(p, "pgDropDatabase")
          \/ Goto(p, "myDropUser")
      BY <1>2, <2>0, CommandCases DEF Confirm, AfterConfirm, FirstDrop, Engines, Local
    <2> QED
      BY <2>0, <2>1, <2>2, GotoControl DEF Steps, Finished
  <1>3. CASE Decline(p)
    <2>0. Engine(p) \in Engines
      BY <1>3, WorkingEngine DEF Decline, At, Finished
    <2>1. Kept
      BY <1>3, StoresTyped, FaultTypes DEF Kept, Decline, Local
    <2>2. Goto(p, "declined")
      BY <1>3 DEF Decline, Local
    <2> QED
      BY <2>0, <2>1, <2>2, GotoControl DEF Steps, Finished
  <1> QED
    BY <1>1, <1>2, <1>3 DEF ResolveStep

LEMMA OldPasswordTypes ==
    ASSUME TypeInv, NEW p \in Invocations
    PROVE  OldPassword(p) \in Values
  <1>1. job[p].seen \in SecretMaps
    BY JobTypes DEF Job
  <1> QED
    BY <1>1, LookupTypes DEF OldPassword, Keys, ContractKeys

\* rotate.
LEMMA RotateTyped ==
    ASSUME TypeInv, NEW p \in Invocations, RotateStep(p)
    PROVE  Typed(p)
  <1> USE DEF Typed
  <1>1. CASE ResolveAgain(p)
    <2>0. Engine(p) \in Engines
      BY <1>1, WorkingEngine DEF ResolveAgain, At, Finished
    <2>1. Kept
      BY <1>1, StoresTyped, FaultTypes DEF Kept, ResolveAgain, Read
    <2>2. \/ Goto(p, "failed")
          \/ GotoWith(p, "alter", [job[p] EXCEPT !.seen = secrets[Site(p)]])
      BY <1>1 DEF ResolveAgain, Read
    <2> QED
      BY <2>0, <2>1, <2>2, GotoControl, NoteControl, JobUpdates, SecretsOf DEF Steps, Finished
  <1>2. CASE Alter(p)
    <2>0. Engine(p) \in Engines
      BY <1>2, WorkingEngine DEF Alter, At, Finished
    <2>1. Kept
      BY <1>2, SqlTypes, JobTypes, StoresTyped, FaultTypes DEF Kept, Alter, RotatePassword, SqlCall, Call, sqlVars
    <2>2. Goto(p, "record") \/ Goto(p, "failed")
      BY <1>2 DEF Alter, RotatePassword, SqlCall, Call
    <2> QED
      BY <2>0, <2>1, <2>2, GotoControl DEF Steps, Finished
  <1>3. CASE Record(p)
    <2>0. Engine(p) \in Engines
      BY <1>3, WorkingEngine DEF Record, AfterRecordFailed, At, Finished
    <2>1. Kept
      BY <1>3, VaultTypes, JobTypes, StoresTyped, FaultTypes DEF Kept, Record, AfterRecordFailed, VaultCall, Call, vaultVars
    <2>2. Goto(p, "verify") \/ Goto(p, "printRotated") \/ Goto(p, "restore")
      BY <1>3 DEF Record, AfterRecordFailed, VaultCall, Call
    <2> QED
      BY <2>0, <2>1, <2>2, GotoControl DEF Steps, Finished
  <1>4. CASE Verify(p)
    <2>0. Engine(p) \in Engines
      BY <1>4, WorkingEngine DEF Verify, At, Finished
    <2>1. Kept
      BY <1>4, StoresTyped, FaultTypes DEF Kept, Verify, Local
    <2>2. Goto(p, "rotated") \/ Goto(p, "unverified")
      BY <1>4 DEF Verify, Local
    <2> QED
      BY <2>0, <2>1, <2>2, GotoControl DEF Steps, Finished
  <1>5. CASE Restore(p)
    <2>0. Engine(p) \in Engines
      BY <1>5, WorkingEngine DEF Restore, At, Finished
    <2>1. Kept
      BY <1>5, SqlTypes, OldPasswordTypes, StoresTyped, FaultTypes DEF Kept, Restore, RotatePassword, SqlCall, Call, sqlVars
    <2>2. Goto(p, "rolledBack") \/ Goto(p, "printRotated")
      BY <1>5 DEF Restore, RotatePassword, SqlCall, Call
    <2> QED
      BY <2>0, <2>1, <2>2, GotoControl DEF Steps, Finished
  <1>6. CASE PrintRotated(p)
    <2>0. Engine(p) \in Engines
      BY <1>6, WorkingEngine DEF PrintRotated, At, Finished
    <2>1. Kept
      BY <1>6, StoresTyped, FaultTypes DEF Kept, PrintRotated
    <2>2. Goto(p, "failed")
      BY <1>6 DEF PrintRotated
    <2> QED
      BY <2>0, <2>1, <2>2, GotoControl DEF Steps, Finished
  <1> QED
    BY <1>1, <1>2, <1>3, <1>4, <1>5, <1>6 DEF RotateStep

\* delete, after its adapter.
LEMMA DeleteTyped ==
    ASSUME TypeInv, NEW p \in Invocations, DeleteStep(p)
    PROVE  Typed(p)
  <1> USE DEF Typed
  <1>1. CASE ListSecrets(p)
    <2>0. Engine(p) \in Engines
      BY <1>1, WorkingEngine DEF ListSecrets, At, Finished
    <2>1. Kept
      BY <1>1, StoresTyped, FaultTypes DEF Kept, ListSecrets, Read
    <2>2. \/ Goto(p, "failed")
          \/ GotoWith(p, "erase", [job[p] EXCEPT !.left = {k \in Keys : secrets[Site(p)][k] # Absent}])
      BY <1>1 DEF ListSecrets, Read
    <2> QED
      BY <2>0, <2>1, <2>2, GotoControl, NoteControl, JobUpdates, SecretsOf DEF Steps, Finished
  <1>2. CASE Erase(p)
    <2>0. Engine(p) \in Engines
      BY <1>2, WorkingEngine DEF Erase, At, Finished
    <2>1. Kept
      BY <1>2, VaultTypes, StoresTyped, FaultTypes DEF Kept, Erase, VaultCall, Call, vaultVars
    <2>2. \/ Goto(p, "failed")
          \/ \E k \in Keys : GotoWith(p, "erase", [job[p] EXCEPT !.left = @ \ {k}])
      BY <1>2, NextToEraseKeys DEF Erase, VaultCall, Call
    <2>3. \A k \in Keys : [job[p] EXCEPT !.left = @ \ {k}] \in JobsOn(Engine(p))
      BY JobTypes DEF Job, JobsOn
    <2> QED
      BY <2>0, <2>1, <2>2, <2>3, GotoControl, NoteControl DEF Steps, Finished
  <1>3. CASE DeleteFolder(p)
    <2>0. Engine(p) \in Engines
      BY <1>3, WorkingEngine DEF DeleteFolder, At, Finished
    <2>1. Kept
      BY <1>3, VaultTypes, StoresTyped, FaultTypes DEF Kept, DeleteFolder, VaultCall, Call, vaultVars
    <2>2. Goto(p, "deleted") \/ Goto(p, "failed")
      BY <1>3 DEF DeleteFolder, VaultCall, Call
    <2> QED
      BY <2>0, <2>1, <2>2, GotoControl DEF Steps, Finished
  <1> QED
    BY <1>1, <1>2, <1>3 DEF DeleteStep

----------------------------------------------------------------------------
(* The steps of Next that are no command's.                                *)

LEMMA StartTyped ==
    ASSUME TypeInv, NEW p \in Invocations, NEW r \in Requests, Start(p, r)
    PROVE  Typed(p)
  <1>1. Kept
    BY StoresTyped, FaultTypes DEF Kept, Start, Local
  <1>2. r \in RequestType /\ (r.cmd = "provision" => r.engine \in Engines)
    BY RequestsAssumption
  <1>3. NewJob(r) \in Job
    BY <1>2 DEF NewJob, Job, RequestType, SecretMaps
  <1>4. FirstStep(r) \in Steps
    BY <1>2 DEF FirstStep, RequestType, Steps
  <1>5. FirstStep(r) = "resolve" \/ NewJob(r).engine \in Engines
    BY <1>2 DEF FirstStep, NewJob, RequestType
  <1>6. GotoWith(p, FirstStep(r), NewJob(r))
    BY DEF Start, Local
  <1>7. Control(p)
    BY <1>3, <1>4, <1>5, <1>6, GotoWithControl
  <1> QED
    BY <1>1, <1>7 DEF Typed

LEMMA CrashTyped ==
    ASSUME TypeInv, NEW p \in Invocations, Crash(p)
    PROVE  Typed(p)
  <1>1. Kept
    BY StoresTyped, FaultTypes DEF Kept, Crash
  <1>2. Goto(p, "crashed")
    BY DEF Crash
  <1> QED
    BY <1>1, <1>2, GotoControl DEF Typed, Steps, Finished

LEMMA InitTyped ==
    ASSUME Init
    PROVE  TypeInv
  <1>1. (CHOOSE r \in Requests : TRUE) \in Requests
    BY RequestsAssumption
  <1>2. \A r \in Requests : NewJob(r) \in Job
    BY RequestsAssumption DEF NewJob, Job, RequestType, SecretMaps
  <1>3. job \in [Invocations -> Job] /\ pc \in [Invocations -> Steps]
    BY <1>1, <1>2 DEF Init, Steps
  <1>4. SqlOK /\ VaultOK
    BY WorldsAssumption DEF Init, SqlOK, VaultOK
  <1>5. EngineKnown
    BY DEF Init, EngineKnown
  <1> QED
    BY <1>3, <1>4, <1>5, FaultsAssumption DEF Init, TypeInv, TypeOK, SqlOK, VaultOK

LEMMA TypeInvInductive ==
    ASSUME TypeInv, [Next]_vars
    PROVE  TypeInv'
  <1>1. CASE UNCHANGED vars
    BY <1>1 DEF vars, TypeInv, TypeOK, EngineKnown, Engine
  <1>2. ASSUME NEW p \in Invocations, Step(p) PROVE TypeInv'
    BY <1>2, TypedPreserves, ProvisionTyped, PgTyped, MyTyped, ResolveTyped, RotateTyped,
       DeleteTyped DEF Step
  <1>3. ASSUME NEW p \in Invocations, NEW r \in Requests, Start(p, r) PROVE TypeInv'
    BY <1>3, TypedPreserves, StartTyped
  <1>4. ASSUME NEW p \in Invocations, Crash(p) PROVE TypeInv'
    BY <1>4, TypedPreserves, CrashTyped
  <1> QED
    BY <1>1, <1>2, <1>3, <1>4 DEF Next

\* Every variable keeps its type, and past resolving every invocation works on
\* an engine the tool knows.
THEOREM TypeInvariance == Spec => []TypeInv
  <1>1. Init => TypeInv
    BY InitTyped
  <1>2. TypeInv /\ [Next]_vars => TypeInv'
    BY TypeInvInductive
  <1> QED
    BY <1>1, <1>2, PTL DEF Spec

\* Type correctness: whatever the requests, worlds and faults, the stores hold
\* only what their declarations allow, at every step of every invocation.
THEOREM TypeCorrect == Spec => []TypeOK
  <1>1. TypeInv => TypeOK
    BY DEF TypeInv
  <1> QED
    BY <1>1, TypeInvariance, PTL
=============================================================================
