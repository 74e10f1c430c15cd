---------------------------- MODULE SerialProofs ----------------------------
(***************************************************************************)
(* What operators who wait for each other can rely on: what a run found     *)
(* survives it, what it reports is so, in both stores, and what it reports  *)
(* rolled back is as it was. Any names, sites, worlds and, where nothing    *)
(* else is said, any faults.                                                *)
(***************************************************************************)
EXTENDS OverlapProofs

----------------------------------------------------------------------------
(* The inductive invariant: what holds of the run that is under way.       *)

\* What it found when it began is still there.
Found(p) ==
    Provisioning(p) =>
        /\ job[p].dbThere => DbExists(Engine(p), DbOf(p))
        /\ job[p].userThere => RoleExists(Engine(p), UserOf(p))

Granting == {"myFlush"} \cup Ending
Unconnected == {"publicReowned", "publicRevoked", "pgGrant"} \cup Ending
PublicReowned == {"publicRevoked", "pgGrant"} \cup Ending
PublicRevoked == {"pgGrant"} \cup Ending

\* The statements it is past have had their effect.
Made(p) ==
    LET e == Engine(p)
        d == DbOf(p)
        u == UserOf(p)
    IN  /\ pc[p] \in WithUser => role[e][u] = p
        /\ pc[p] \in WithDb =>
            owner[e][d] # Absent /\ (e = "postgres" => owner[e][d] = u)
        /\ pc[p] \in Granting => u \in access[e][d]
        /\ e = "postgres" =>
            /\ pc[p] \in Unconnected => "connectRevoked" \in hardening[e][d]
            /\ pc[p] \in PublicReowned => "publicReowned" \in hardening[e][d]
            /\ pc[p] \in PublicRevoked => "publicRevoked" \in hardening[e][d]

Planning == {"checkDatabase", "checkUser", "provisioned"} \cup PgCalls \cup MyCalls

\* The folder is there from the start, and holds what the run saw in it, and
\* later what it has recorded.
Vaulted(p) ==
    LET s == Site(p)
    IN  /\ pc[p] \in {"inspect", "sync", "synced"} \/ (pc[p] \in Planning /\ Request(p).online) => folder[s]
        /\ pc[p] \in Planning /\ Request(p).online =>
            \A k \in ContractKeys : secrets[s][k] = job[p].seen[k]
        /\ At(p, "sync") => \A k \in ContractKeys :
            secrets[s][k] = IF k \in job[p].left THEN job[p].seen[k] ELSE Desired(p)[k]
        /\ At(p, "synced") => \A k \in ContractKeys : secrets[s][k] = Desired(p)[k]

\* A rotation that resolved the app knows its password; the server's is the
\* new one until it is restored, and so is the vault's once it is recorded.
Rekeyed(p) ==
    LET recorded == secrets[Site(p)]["DB_PASSWORD"]
        live == role[Engine(p)][UserOf(p)]
    IN  /\ pc[p] \in {"record", "verify", "rotated", "unverified"} => live = p
        /\ pc[p] \in {"verify", "rotated", "unverified"} => recorded = p
        /\ pc[p] \in {"alter", "record"} => recorded = job[p].seen["DB_PASSWORD"]
        /\ pc[p] \in {"alter", "record", "verify", "rotated", "unverified"} =>
            \A k \in ContractKeys \ {"DB_PASSWORD"} : secrets[Site(p)][k] = job[p].seen[k]
        /\ At(p, "restore") => OldPassword(p) # ""
        /\ At(p, "restore") /\ "lost" \notin FaultKinds => recorded = OldPassword(p)
        /\ At(p, "rolledBack") /\ "lost" \notin FaultKinds =>
            recorded = OldPassword(p) /\ live = OldPassword(p)

SerialFacts(p) == Found(p) /\ Made(p) /\ Vaulted(p) /\ Rekeyed(p)

SerialInv ==
    /\ LeftInv /\ Alone
    /\ \A p \in Invocations : Active(p) => SerialFacts(p)

----------------------------------------------------------------------------
(* What depends on nothing but the request, the engine and what was seen.  *)

LEMMA SameNames ==
    ASSUME NEW p, job'[p].req = job[p].req, job'[p].engine = job[p].engine,
           job'[p].seen = job[p].seen
    PROVE  /\ Engine(p)' = Engine(p) /\ DbOf(p)' = DbOf(p) /\ UserOf(p)' = UserOf(p)
           /\ Site(p)' = Site(p) /\ Request(p)' = Request(p) /\ OldPassword(p)' = OldPassword(p)
           /\ Desired(p)' = Desired(p) /\ Plan(p)' = Plan(p)
  <1>1. Request(p)' = Request(p) /\ Engine(p)' = Engine(p) /\ Site(p)' = Site(p)
        /\ OldPassword(p)' = OldPassword(p)
    BY DEF Request, Engine, Site, OldPassword, Lookup
  <1>2. Options(Request(p))' = Options(Request(p))
    BY <1>1 DEF Options
  <1>3. Desired(p)' = Desired(p)
    BY <1>1, <1>2 DEF Desired
  <1>4. DbOf(p)' = DbOf(p) /\ UserOf(p)' = UserOf(p)
    BY <1>1, <1>2 DEF DbOf, UserOf, Lookup
  <1> QED
    BY <1>1, <1>3, <1>4, PlanKept

\* What a call of an adapter notes, apart from what it made.
SameNotes(p) ==
    /\ job'[p].req = job[p].req /\ job'[p].engine = job[p].engine /\ job'[p].seen = job[p].seen
    /\ job'[p].dbThere = job[p].dbThere /\ job'[p].userThere = job[p].userThere

LEMMA NoteOne ==
    ASSUME LeftInv, NEW p \in Invocations, NEW l
    PROVE  /\ Goto(p, l) => pc'[p] = l /\ job'[p] = job[p] /\ SameNotes(p)
           /\ \A b : GotoWith(p, l, [job[p] EXCEPT !.userMade = b]) =>
                pc'[p] = l /\ SameNotes(p)
           /\ \A b : GotoWith(p, l, [job[p] EXCEPT !.dbMade = b]) =>
                pc'[p] = l /\ SameNotes(p)
           /\ \A b : GotoWith(p, l, [job[p] EXCEPT !.left = b]) =>
                pc'[p] = l /\ job'[p].left = b /\ SameNotes(p)
  <1>0. job \in [Invocations -> Job] /\ pc \in [Invocations -> Steps] /\ job[p] \in Job
    BY DEF LeftInv, RouteInv, TypeInv, TypeOK
  <1>1. Goto(p, l) => pc'[p] = l /\ job'[p] = job[p] /\ SameNotes(p)
    BY <1>0 DEF Goto, SameNotes
  <1>2. ASSUME NEW b, GotoWith(p, l, [job[p] EXCEPT !.userMade = b])
        PROVE  pc'[p] = l /\ SameNotes(p)
    BY <1>0, <1>2 DEF GotoWith, SameNotes, Job
  <1>3. ASSUME NEW b, GotoWith(p, l, [job[p] EXCEPT !.dbMade = b])
        PROVE  pc'[p] = l /\ SameNotes(p)
    BY <1>0, <1>3 DEF GotoWith, SameNotes, Job
  <1>4. ASSUME NEW b, GotoWith(p, l, [job[p] EXCEPT !.left = b])
        PROVE  pc'[p] = l /\ job'[p].left = b /\ SameNotes(p)
    BY <1>0, <1>4 DEF GotoWith, SameNotes, Job
  <1> QED
    BY <1>1, <1>2, <1>3, <1>4

\* The stores, typed, and the names the invocation changes them under.
LEMMA StoreTypes ==
    ASSUME LeftInv, NEW p \in Invocations
    PROVE  /\ role \in Roles /\ owner \in Owners /\ access \in Accesses /\ hardening \in Hardenings
           /\ secrets \in [Sites -> SecretMaps] /\ folder \in [Sites -> BOOLEAN]
           /\ job \in [Invocations -> Job] /\ pc \in [Invocations -> Steps] /\ job[p] \in Job
           /\ Site(p) \in Sites /\ p # Absent /\ Absent \notin Users /\ Admin # Absent
           /\ RouteInv
           /\ pc[p] \in Changing \cup Dropping =>
                Engine(p) \in Engines /\ DbOf(p) \in Databases /\ UserOf(p) \in Users
  <1>1. RouteInv /\ job[p] \in Job
    BY DEF LeftInv, RouteInv, TypeInv, TypeOK
  <1>2. p # Absent /\ Absent \notin Users /\ Admin # Absent
    BY NamesAssumption DEF Values, Passwords
  <1> QED
    BY <1>1, <1>2, OnEngine, Locals DEF RouteInv, TypeInv, TypeOK, ValidNames

\* No step of a provisioning run takes away what it found.
LEMMA KeepsFound ==
    ASSUME LeftInv, NEW p \in Invocations, Step(p), SameNotes(p), Found(p)
    PROVE  Found(p)'
  <1>0. PICK e, d, u : e = Engine(p) /\ d = DbOf(p) /\ u = UserOf(p)
    OBVIOUS
  <1>1. /\ Engine(p)' = e /\ DbOf(p)' = d /\ UserOf(p)' = u /\ (Provisioning(p)' <=> Provisioning(p))
        /\ job'[p].dbThere = job[p].dbThere /\ job'[p].userThere = job[p].userThere
    BY <1>0, SameNames DEF SameNotes, Provisioning
  <1>2. SUFFICES ASSUME Provisioning(p)
                 PROVE  /\ job[p].dbThere => DbExists(e, d)'
                        /\ job[p].userThere => RoleExists(e, u)'
    BY <1>1 DEF Found, DbExists, RoleExists
  <1>3. pc[p] \notin Rotating \cup Dropping \cup {"pgDropDatabase", "myDropUser"}
    BY <1>2, OnEngine DEF LeftInv, Provisioning
  <1>4. ~(job[p].dbMade /\ job[p].dbThere) /\ ~(job[p].userMade /\ job[p].userThere)
    BY Locals DEF LeftInv, Noted
  <1>5. /\ job[p].dbThere => DbExists(e, d)
        /\ job[p].userThere => RoleExists(e, u)
    BY <1>0, <1>2 DEF Found
  <1>6. SqlWrite(p)
    BY Writes DEF LeftInv
  <1>7. CASE UNCHANGED sqlVars
    BY <1>5, <1>7 DEF sqlVars, DbExists, RoleExists
  <1>8. CASE pc[p] \in Changing /\ ~UNCHANGED sqlVars
    <2>1. e \in Engines /\ d \in Databases /\ u \in Users
      BY <1>0, <1>8, StoreTypes
    <2>2. \/ SetPassword(e, u, p)
          \/ \E o \in {u, Admin} : CreateDb(e, d, o)
          \/ SetOwner(e, d, u)
          \/ \E statement \in Lockdown : Harden(e, d, statement)
          \/ GrantAccess(e, d, u)
          \/ job[p].dbMade /\ DropDb(e, d)
          \/ job[p].userMade /\ DropRole(e, u)
      BY <1>0, <1>3, <1>6, <1>8 DEF SqlWrite, At, Rotating, Dropping
    <2>3. job[p].dbThere => DbExists(e, d)'
      BY <1>4, <1>5, <2>1, <2>2, StoreTypes DEF DbExists, SetPassword, CreateDb, SetOwner, Harden,
         GrantAccess, DropDb, DropRole, Owners
    <2>4. job[p].userThere => RoleExists(e, u)'
      BY <1>4, <1>5, <2>1, <2>2, StoreTypes DEF RoleExists, SetPassword, CreateDb, SetOwner, Harden,
         GrantAccess, DropDb, DropRole, Roles
    <2> QED
      BY <2>3, <2>4
  <1>9. pc[p] \in Changing \/ UNCHANGED sqlVars
    BY <1>3, <1>6 DEF SqlWrite, At, Rotating, Dropping, Changing, PgCalls, MyCalls, Locking
  <1> QED
    BY <1>7, <1>8, <1>9

\* A call of an adapter notes nothing that the vault or a rotation depends on.
LEMMA KeepsRest ==
    ASSUME LeftInv, NEW p \in Invocations, Step(p), SameNotes(p), SerialFacts(p),
           UNCHANGED vaultVars, pc[p] \in PgCalls \cup MyCalls,
           pc'[p] \in PgCalls \cup MyCalls \cup {"provisioned", "failed"}
    PROVE  Found(p)' /\ Vaulted(p)' /\ Rekeyed(p)'
  <1>1. Found(p)'
    BY KeepsFound DEF SerialFacts
  <1>2. Site(p)' = Site(p) /\ Request(p)' = Request(p) /\ job'[p].seen = job[p].seen
    BY SameNames DEF SameNotes
  <1>3. Vaulted(p)'
    BY <1>2 DEF SerialFacts, Vaulted, Planning, vaultVars, At, PgCalls, MyCalls, Locking
  <1>4. Rekeyed(p)'
    BY DEF Rekeyed, At, PgCalls, MyCalls, Locking
  <1> QED
    BY <1>1, <1>3, <1>4

\* A step of a delete owes nothing.
LEMMA Unowing ==
    ASSUME LeftInv, NEW p \in Invocations, Step(p), SameNotes(p), Request(p).cmd = "delete",
           pc'[p] \in Dropping \cup {"failed"}
    PROVE  SerialFacts(p)'
  <1>1. ~Provisioning(p)'
    BY SameNames DEF SameNotes, Provisioning
  <1> QED
    BY <1>1 DEF SerialFacts, Found, Made, Vaulted, Rekeyed, At, Dropping, WithUser, WithDb, Granting,
       Unconnected, PublicReowned, PublicRevoked, Planning, PgCalls, MyCalls, Locking, Ending

\* The postgres adapter: each statement leaves what the steps after it rest on.
LEMMA PgFacts ==
    ASSUME LeftInv, NEW p \in Invocations, SerialFacts(p), PgStep(p)
    PROVE  SerialFacts(p)'
  <1>0. PICK d, u : d = DbOf(p) /\ u = UserOf(p)
    OBVIOUS
  <1>1. Step(p) /\ UNCHANGED vaultVars
    BY PgWrites DEF Step, LeftInv
  <1>2. ASSUME SameNotes(p)
        PROVE  Engine(p)' = Engine(p) /\ DbOf(p)' = d /\ UserOf(p)' = u
    BY <1>0, <1>2, SameNames DEF SameNotes
  <1>3. ASSUME pc[p] \in PgCalls
        PROVE  Engine(p) = Pg /\ d \in Databases /\ u \in Users
    BY <1>0, <1>3, StoreTypes, OnEngine DEF LeftInv, Changing, Pg
  <1>4. ASSUME SameNotes(p), pc[p] \in PgCalls, Made(p)',
               pc'[p] \in PgCalls \cup {"provisioned", "failed"}
        PROVE  SerialFacts(p)'
    BY <1>1, <1>4, KeepsRest DEF SerialFacts
  <1>5. ASSUME pc'[p] \in {"pgUndoDatabase", "pgUndoUser", "failed"} PROVE Made(p)'
    BY <1>5 DEF Made, WithUser, WithDb, Granting, Unconnected, PublicReowned, PublicRevoked, Locking, Ending
  <1>6. CASE PgUser(p)
    <2>1. /\ SameNotes(p) /\ pc[p] = "pgUser" /\ pc'[p] \in {"pgDatabase", "pgUndoDatabase"}
          /\ pc'[p] = "pgDatabase" => SetPassword(Pg, u, p)
      <3>1. Goto(p, "pgDatabase") \/ GotoWith(p, "pgDatabase", [job[p] EXCEPT !.userMade = TRUE]) =>
                pc'[p] = "pgDatabase" /\ SameNotes(p)
        BY <1>0, NoteOne
      <3>2. Goto(p, "pgUndoDatabase") => pc'[p] = "pgUndoDatabase" /\ SameNotes(p)
        BY <1>0, NoteOne
      <3> QED
        BY <1>0, <1>6, <3>1, <3>2 DEF PgUser, SqlCall, Call, At
    <2>2. CASE pc'[p] = "pgDatabase"
      BY <1>2, <1>3, <1>4, <2>1, <2>2, StoreTypes DEF Made, SetPassword, Roles, Pg, Engines, PgCalls,
         WithUser, WithDb, Granting, Unconnected, PublicReowned, PublicRevoked, Locking, Ending
    <2> QED
      BY <1>4, <1>5, <2>1, <2>2 DEF PgCalls
  <1>7. CASE PgDatabase(p)
    <2>1. /\ SameNotes(p) /\ pc[p] = "pgDatabase" /\ pc'[p] \in {"connectRevoked", "pgUndoDatabase"}
          /\ pc'[p] = "connectRevoked" => SetOwner(Pg, d, u) \/ CreateDb(Pg, d, u)
      <3>1. Goto(p, "connectRevoked") \/ GotoWith(p, "connectRevoked", [job[p] EXCEPT !.dbMade = TRUE]) =>
                pc'[p] = "connectRevoked" /\ SameNotes(p)
        BY <1>0, NoteOne
      <3>2. Goto(p, "pgUndoDatabase") => pc'[p] = "pgUndoDatabase" /\ SameNotes(p)
        BY <1>0, NoteOne
      <3> QED
        BY <1>0, <1>7, <3>1, <3>2 DEF PgDatabase, SqlCall, Call, At
    <2>2. CASE pc'[p] = "connectRevoked"
      <3>1. role[Pg][u] = p
        BY <1>0, <1>3, <2>1 DEF SerialFacts, Made, WithUser, PgCalls
      <3>2. role'[Pg][u] = p /\ owner'[Pg][d] = u /\ u # Absent
        BY <1>3, <2>1, <2>2, <3>1, StoreTypes DEF SetOwner, CreateDb, Owners, Pg, Engines, PgCalls
      <3>3. Made(p)'
        BY <1>2, <1>3, <2>1, <2>2, <3>2 DEF Made, Pg, PgCalls, Granting, Unconnected, PublicReowned,
           PublicRevoked, Locking, Ending
      <3> QED
        BY <1>4, <2>1, <3>3 DEF PgCalls, Locking
    <2> QED
      BY <1>4, <1>5, <2>1, <2>2 DEF PgCalls
  <1>8. CASE PgLockdown(p)
    <2>1. PICK statement, next :
            /\ <<statement, next>> \in {<<"connectRevoked", "publicReowned">>,
                    <<"publicReowned", "publicRevoked">>, <<"publicRevoked", "pgGrant">>}
            /\ LockdownStep(p, statement, next)
      BY <1>8 DEF PgLockdown
    <2>2. /\ SameNotes(p) /\ pc[p] = statement /\ pc'[p] \in {next, "pgUndoDatabase"}
          /\ pc'[p] = next => Harden(Pg, d, statement)
      BY <1>0, <2>1, NoteOne DEF LockdownStep, SqlCall, Call, At
    <2>3. CASE pc'[p] = next
      <3>1. /\ role[Pg][u] = p /\ owner[Pg][d] # Absent /\ owner[Pg][d] = u
            /\ pc[p] \in Unconnected => "connectRevoked" \in hardening[Pg][d]
            /\ pc[p] \in PublicReowned => "publicReowned" \in hardening[Pg][d]
        BY <1>0, <1>3, <2>1, <2>2 DEF SerialFacts, Made, WithUser, WithDb, PgCalls, Locking, Pg
      <3>2. /\ role' = role /\ owner' = owner
            /\ hardening'[Pg][d] = hardening[Pg][d] \cup {statement}
        BY <1>3, <2>1, <2>2, <2>3, StoreTypes DEF Harden, Hardenings, Pg, Engines, PgCalls, Locking
      <3>3. Made(p)'
        BY <1>2, <1>3, <2>1, <2>2, <2>3, <3>1, <3>2 DEF Made, Pg, PgCalls, Granting, Unconnected,
           PublicReowned, PublicRevoked, Locking, Ending
      <3> QED
        BY <1>4, <2>1, <2>2, <2>3, <3>3 DEF PgCalls, Locking
    <2> QED
      BY <1>4, <1>5, <2>1, <2>2, <2>3 DEF PgCalls, Locking
  <1>9. CASE PgGrant(p)
    <2>1. /\ SameNotes(p) /\ pc[p] = "pgGrant" /\ pc'[p] \in {"provisioned", "pgUndoDatabase"}
          /\ pc'[p] = "provisioned" => GrantAccess(Pg, d, u)
      BY <1>0, <1>9, NoteOne DEF PgGrant, SqlCall, Call, At
    <2>2. CASE pc'[p] = "provisioned"
      <3>1. /\ role[Pg][u] = p /\ owner[Pg][d] # Absent /\ owner[Pg][d] = u
            /\ Lockdown \subseteq hardening[Pg][d]
        BY <1>0, <1>3, <2>1 DEF SerialFacts, Made, WithUser, WithDb, PgCalls, Locking, Pg, Lockdown,
           Unconnected, PublicReowned, PublicRevoked
      <3>2. /\ role' = role /\ owner' = owner /\ hardening' = hardening
            /\ u \in access'[Pg][d]
        BY <1>3, <2>1, <2>2, StoreTypes DEF GrantAccess, Accesses, Pg, Engines, PgCalls, Locking
      <3>3. Made(p)'
        BY <1>2, <1>3, <2>1, <3>1, <3>2 DEF Made, Pg, PgCalls, Locking, Lockdown
      <3> QED
        BY <1>4, <2>1, <3>3 DEF PgCalls, Locking
    <2> QED
      BY <1>4, <1>5, <2>1, <2>2 DEF PgCalls, Locking
  <1>10. CASE PgUndoDatabase(p) \/ PgUndoUser(p)
    <2>1. /\ SameNotes(p) /\ pc[p] \in PgCalls
          /\ pc'[p] \in {"pgUndoUser", "failed"}
      BY <1>10, NoteOne DEF PgUndoDatabase, PgUndoUser, SqlCall, Call, Local, At, PgCalls
    <2> QED
      BY <1>4, <1>5, <2>1 DEF PgCalls
  <1>11. CASE PgDropDatabase(p) \/ PgDropUser(p)
    <2>1. /\ SameNotes(p) /\ pc[p] \in {"pgDropDatabase", "pgDropUser"}
          /\ pc'[p] \in Dropping \cup {"failed"}
      BY <1>11, NoteOne DEF PgDropDatabase, PgDropUser, SqlCall, Call, At, Dropping
    <2>2. Request(p).cmd = "delete"
      BY <2>1, OnEngine DEF LeftInv, Dropping
    <2> QED
      BY <1>1, <2>1, <2>2, Unowing
  <1> QED
    BY <1>6, <1>7, <1>8, <1>9, <1>10, <1>11 DEF PgStep

\* The mysql adapter.
LEMMA MyFacts ==
    ASSUME LeftInv, NEW p \in Invocations, SerialFacts(p), MyStep(p)
    PROVE  SerialFacts(p)'
  <1>0. PICK d, u : d = DbOf(p) /\ u = UserOf(p)
    OBVIOUS
  <1>1. Step(p) /\ UNCHANGED vaultVars
    BY MyWrites DEF Step, LeftInv
  <1>2. ASSUME SameNotes(p)
        PROVE  Engine(p)' = Engine(p) /\ DbOf(p)' = d /\ UserOf(p)' = u
    BY <1>0, <1>2, SameNames DEF SameNotes
  <1>3. ASSUME pc[p] \in MyCalls
        PROVE  Engine(p) = My /\ d \in Databases /\ u \in Users
    BY <1>0, <1>3, StoreTypes, OnEngine DEF LeftInv, Changing, My
  <1>4. ASSUME SameNotes(p), pc[p] \in MyCalls, Made(p)',
               pc'[p] \in MyCalls \cup {"provisioned", "failed"}
        PROVE  SerialFacts(p)'
    BY <1>1, <1>4, KeepsRest DEF SerialFacts
  <1>5. ASSUME pc'[p] \in {"myUndoDatabase", "myUndoUser", "failed"} PROVE Made(p)'
    BY <1>5 DEF Made, WithUser, WithDb, Granting, Unconnected, PublicReowned, PublicRevoked, Locking, Ending
  <1>6. CASE MyDatabase(p)
    <2>1. /\ SameNotes(p) /\ pc[p] = "myDatabase" /\ pc'[p] \in {"myUser", "myUndoUser"}
          /\ pc'[p] = "myUser" =>
                \/ CreateDb(My, d, Admin)
                \/ job[p].dbThere /\ UNCHANGED sqlVars
      <3>1. Goto(p, "myUser") \/ GotoWith(p, "myUser", [job[p] EXCEPT !.dbMade = TRUE]) =>
                pc'[p] = "myUser" /\ SameNotes(p)
        BY <1>0, NoteOne
      <3>2. Goto(p, "myUndoUser") => pc'[p] = "myUndoUser" /\ SameNotes(p)
        BY <1>0, NoteOne
      <3> QED
        BY <1>0, <1>6, <3>1, <3>2 DEF MyDatabase, SqlCall, Call, Local, At, sqlVars
    <2>2. CASE pc'[p] = "myUser"
      <3>0. job[p].dbThere => owner[My][d] # Absent
        <4>1. Provisioning(p)
          BY <2>1, OnEngine DEF LeftInv, Changing, MyCalls
        <4> QED
          BY <1>0, <1>3, <2>1, <4>1 DEF SerialFacts, Found, DbExists, MyCalls
      <3>1. owner'[My][d] # Absent
        BY <1>3, <2>1, <2>2, <3>0, StoreTypes DEF CreateDb, Owners, My, Engines, MyCalls, sqlVars
      <3>2. Made(p)'
        BY <1>2, <1>3, <2>1, <2>2, <3>1 DEF Made, My, MyCalls, WithUser, Granting, Unconnected, PublicReowned,
           PublicRevoked, Locking, Ending
      <3> QED
        BY <1>4, <2>1, <3>2 DEF MyCalls
    <2> QED
      BY <1>4, <1>5, <2>1, <2>2 DEF MyCalls
  <1>7. CASE MyUser(p)
    <2>1. /\ SameNotes(p) /\ pc[p] = "myUser" /\ pc'[p] \in {"myGrant", "myUndoUser"}
          /\ pc'[p] = "myGrant" => SetPassword(My, u, p)
      <3>1. Goto(p, "myGrant") \/ GotoWith(p, "myGrant", [job[p] EXCEPT !.userMade = TRUE]) =>
                pc'[p] = "myGrant" /\ SameNotes(p)
        BY <1>0, NoteOne
      <3>2. Goto(p, "myUndoUser") => pc'[p] = "myUndoUser" /\ SameNotes(p)
        BY <1>0, NoteOne
      <3> QED
        BY <1>0, <1>7, <3>1, <3>2 DEF MyUser, SqlCall, Call, At
    <2>2. CASE pc'[p] = "myGrant"
      <3>1. owner[My][d] # Absent
        BY <1>0, <1>3, <2>1 DEF SerialFacts, Made, WithDb, MyCalls
      <3>2. role'[My][u] = p /\ owner' = owner
        BY <1>3, <2>1, <2>2, StoreTypes DEF SetPassword, Roles, My, Engines, MyCalls
      <3>3. Made(p)'
        BY <1>2, <1>3, <2>1, <2>2, <3>1, <3>2 DEF Made, My, MyCalls, Granting, Unconnected, PublicReowned,
           PublicRevoked, Locking, Ending
      <3> QED
        BY <1>4, <2>1, <2>2, <3>3 DEF MyCalls
    <2> QED
      BY <1>4, <1>5, <2>1, <2>2 DEF MyCalls
  <1>8. CASE MyGrant(p)
    <2>1. /\ SameNotes(p) /\ pc[p] = "myGrant" /\ pc'[p] \in {"myFlush", "myUndoUser"}
          /\ pc'[p] = "myFlush" => GrantAccess(My, d, u)
      BY <1>0, <1>8, NoteOne DEF MyGrant, SqlCall, Call, At
    <2>2. CASE pc'[p] = "myFlush"
      <3>1. role[My][u] = p /\ owner[My][d] # Absent
        BY <1>0, <1>3, <2>1 DEF SerialFacts, Made, WithUser, WithDb, MyCalls
      <3>2. u \in access'[My][d] /\ role' = role /\ owner' = owner
        BY <1>3, <2>1, <2>2, StoreTypes DEF GrantAccess, Accesses, My, Engines, MyCalls
      <3>3. Made(p)'
        BY <1>2, <1>3, <2>1, <2>2, <3>1, <3>2 DEF Made, My, MyCalls
      <3> QED
        BY <1>4, <2>1, <2>2, <3>3 DEF MyCalls
    <2> QED
      BY <1>4, <1>5, <2>1, <2>2 DEF MyCalls
  <1>9. CASE MyFlush(p)
    <2>1. /\ SameNotes(p) /\ pc[p] = "myFlush" /\ pc'[p] \in {"provisioned", "myUndoUser"}
          /\ role' = role /\ owner' = owner /\ access' = access
      BY <1>0, <1>9, NoteOne DEF MyFlush, Read, At
    <2>2. CASE pc'[p] = "provisioned"
      <3>1. role[My][u] = p /\ owner[My][d] # Absent /\ u \in access[My][d]
        BY <1>0, <1>3, <2>1 DEF SerialFacts, Made, WithUser, WithDb, Granting, MyCalls
      <3>2. Made(p)'
        BY <1>2, <1>3, <2>1, <2>2, <3>1 DEF Made, My, MyCalls
      <3> QED
        BY <1>4, <2>1, <2>2, <3>2 DEF MyCalls
    <2> QED
      BY <1>4, <1>5, <2>1, <2>2 DEF MyCalls
  <1>10. CASE MyUndoUser(p) \/ MyUndoDatabase(p)
    <2>1. /\ SameNotes(p) /\ pc[p] \in MyCalls
          /\ pc'[p] \in {"myUndoDatabase", "failed"}
      BY <1>10, NoteOne DEF MyUndoUser, MyUndoDatabase, SqlCall, Call, Local, At, MyCalls
    <2> QED
      BY <1>4, <1>5, <2>1 DEF MyCalls
  <1>11. CASE MyDropUser(p) \/ MyDropDatabase(p) \/ MyFlushDrop(p)
    <2>1. /\ SameNotes(p) /\ pc[p] \in {"myDropUser", "myDropDatabase", "myFlushDrop"}
          /\ pc'[p] \in Dropping \cup {"failed"}
      BY <1>11, NoteOne DEF MyDropUser, MyDropDatabase, MyFlushDrop, SqlCall, Call, Read, At, Dropping
    <2>2. Request(p).cmd = "delete"
      BY <2>1, OnEngine DEF LeftInv, Dropping
    <2> QED
      BY <1>1, <2>1, <2>2, Unowing
  <1> QED
    BY <1>6, <1>7, <1>8, <1>9, <1>10, <1>11 DEF MyStep

\* A key that is not in the plan is recorded as the run wants it.
LEMMA Unplanned ==
    ASSUME NEW p, NEW k \in ContractKeys, k \notin Touched(Plan(p))
    PROVE  job[p].seen[k] = Desired(p)[k]
  BY DEF Touched, Plan, PlanSecretSync

\* provision, apart from its adapter.
LEMMA ProvisionFacts ==
    ASSUME LeftInv, LeftInv', NEW p \in Invocations, SerialFacts(p), ProvisionStep(p)
    PROVE  SerialFacts(p)'
  <1>0. /\ Step(p) /\ UNCHANGED sqlVars /\ RouteInv'
        /\ job \in [Invocations -> Job] /\ pc \in [Invocations -> Steps] /\ job[p] \in Job
    BY ProvisionWrites, StoreTypes DEF Step, LeftInv
  <1>1. ASSUME pc'[p] \in {"failed", "prepare", "checkUser", "pgUser", "myDatabase"} \cup Looking
        PROVE  Made(p)'
    BY <1>1 DEF Made, WithUser, WithDb, Granting, Unconnected, PublicReowned, PublicRevoked, Locking,
       Ending, Looking
  <1>2. ASSUME SameNotes(p), pc[p] \in Ending, pc'[p] \in Ending
        PROVE  Made(p)'
    <2>1. Engine(p)' = Engine(p) /\ DbOf(p)' = DbOf(p) /\ UserOf(p)' = UserOf(p)
      BY <1>2, SameNames DEF SameNotes
    <2> QED
      BY <1>0, <1>2, <2>1 DEF SerialFacts, Made, WithUser, WithDb, Granting, Unconnected, PublicReowned,
         PublicRevoked, sqlVars
  <1>3. ASSUME pc'[p] \in {"failed", "prepare", "checkUser", "pgUser", "myDatabase"} \cup Looking \cup Ending
        PROVE  Rekeyed(p)'
    BY <1>3 DEF Rekeyed, At, Looking, Ending
  <1>4. ASSUME SameNotes(p)
        PROVE  /\ Site(p)' = Site(p) /\ Request(p)' = Request(p) /\ job'[p].seen = job[p].seen
               /\ Desired(p)' = Desired(p) /\ Plan(p)' = Plan(p) /\ Found(p)'
    BY <1>0, <1>4, SameNames, KeepsFound DEF SameNotes, SerialFacts
  <1>5. ASSUME pc'[p] \in {"failed", "createFolder", "folderExists", "printCredentials", "printOffline",
                           "offline"}
        PROVE  Vaulted(p)'
    BY <1>5 DEF Vaulted, Planning, PgCalls, MyCalls, Locking, At
  <1>6. CASE Prepare(p)
    <2>1. /\ SameNotes(p) /\ UNCHANGED vaultVars
          /\ pc'[p] \in {"failed", "createFolder", "checkDatabase"}
          /\ pc'[p] = "checkDatabase" => ~Request(p).online
      BY <1>6, NoteOne DEF Prepare, Local, vaultVars
    <2>2. ASSUME pc'[p] = "checkDatabase" PROVE Vaulted(p)'
      BY <1>4, <2>1, <2>2 DEF Vaulted, At
    <2> QED
      BY <1>1, <1>3, <1>4, <1>5, <2>1, <2>2 DEF SerialFacts, Looking, Vaulted, At
  <1>7. CASE CreateFolder(p)
    <2>1. /\ SameNotes(p) /\ pc'[p] \in {"inspect", "folderExists"}
          /\ pc'[p] = "inspect" => MakeFolder(Site(p))
      BY <1>7, NoteOne DEF CreateFolder, VaultCall, Call
    <2>2. ASSUME pc'[p] = "inspect" PROVE Vaulted(p)'
      BY <1>4, <2>1, <2>2, StoreTypes DEF Vaulted, At, MakeFolder, Planning, PgCalls, MyCalls, Locking
    <2> QED
      BY <1>1, <1>3, <1>4, <1>5, <2>1, <2>2 DEF SerialFacts, Looking
  <1>8. CASE FolderExists(p)
    <2>1. /\ SameNotes(p) /\ pc'[p] \in {"inspect", "failed"} /\ UNCHANGED vaultVars
          /\ pc'[p] = "inspect" => folder[Site(p)]
      BY <1>8, NoteOne DEF FolderExists, Read, vaultVars
    <2>2. ASSUME pc'[p] = "inspect" PROVE Vaulted(p)'
      BY <1>4, <2>1, <2>2 DEF Vaulted, At, vaultVars, Planning, PgCalls, MyCalls, Locking
    <2> QED
      BY <1>1, <1>3, <1>4, <1>5, <2>1, <2>2 DEF SerialFacts, Looking
  <1>9. CASE Inspect(p)
    <2>1. pc'[p] \in {"checkDatabase", "failed"} /\ UNCHANGED vaultVars /\ pc[p] = "inspect"
      BY <1>0, <1>9 DEF Inspect, Read, Goto, GotoWith, vaultVars, At
    <2>2. CASE pc'[p] = "failed"
      <3>1. SameNotes(p)
        BY <1>0, <1>9, <2>2, NoteOne DEF Inspect, Read, Goto, GotoWith, At
      <3> QED
        BY <1>1, <1>3, <1>4, <1>5, <2>2, <3>1 DEF SerialFacts
    <2>3. CASE pc'[p] = "checkDatabase"
      <3>1. job'[p] = [job[p] EXCEPT !.seen = secrets[Site(p)]]
        BY <1>0, <1>9, <2>3 DEF Inspect, Read, Goto, GotoWith
      <3>2. job'[p].req = job[p].req /\ job'[p].seen = secrets[Site(p)]
        BY <1>0, <3>1 DEF Job
      <3>3. Site(p)' = Site(p) /\ folder[Site(p)]
        BY <2>1, <3>2 DEF Site, SerialFacts, Vaulted
      <3>4. Vaulted(p)'
        BY <2>1, <2>3, <3>2, <3>3 DEF Vaulted, At, vaultVars
      <3>5. Found(p)'
        BY <1>0, <2>3 DEF RouteInv, Noted, Looking, Found
      <3> QED
        BY <1>1, <1>3, <2>3, <3>4, <3>5 DEF SerialFacts, Looking
    <2> QED
      BY <2>1, <2>2, <2>3
  <1>10. CASE CheckDatabase(p)
    <2>1. /\ UNCHANGED vaultVars /\ pc[p] = "checkDatabase"
          /\ \/ Goto(p, "failed")
             \/ GotoWith(p, "checkUser", [job[p] EXCEPT !.dbThere = DbExists(Engine(p), DbOf(p))])
      BY <1>10 DEF CheckDatabase, Read, vaultVars, At
    <2>2. CASE Goto(p, "failed")
      BY <1>1, <1>3, <1>4, <1>5, <2>2, NoteOne DEF SerialFacts
    <2>3. CASE GotoWith(p, "checkUser", [job[p] EXCEPT !.dbThere = DbExists(Engine(p), DbOf(p))])
      <3>1. /\ pc'[p] = "checkUser"
            /\ job'[p].req = job[p].req /\ job'[p].engine = job[p].engine /\ job'[p].seen = job[p].seen
            /\ job'[p].dbThere = DbExists(Engine(p), DbOf(p))
        BY <1>0, <2>3 DEF GotoWith, Job
      <3>2. /\ Engine(p)' = Engine(p) /\ DbOf(p)' = DbOf(p) /\ Site(p)' = Site(p)
            /\ Request(p)' = Request(p)
        BY <3>1, SameNames
      <3>3. ~job'[p].userThere
        BY <1>0, <3>1 DEF RouteInv, Noted
      <3>4. Found(p)'
        BY <1>0, <3>1, <3>2, <3>3 DEF Found, DbExists, sqlVars
      <3>5. Vaulted(p)'
        BY <2>1, <3>1, <3>2 DEF SerialFacts, Vaulted, Planning, vaultVars, At
      <3> QED
        BY <1>1, <1>3, <3>1, <3>4, <3>5 DEF SerialFacts
    <2> QED
      BY <2>1, <2>2, <2>3
  <1>11. CASE CheckUser(p)
    <2>0. Engine(p) \in Engines
      BY <1>11, StoreTypes DEF CheckUser, At, Changing
    <2>1. /\ UNCHANGED vaultVars /\ pc[p] = "checkUser"
          /\ \/ Goto(p, "failed")
             \/ GotoWith(p, FirstStatement[Engine(p)],
                         [job[p] EXCEPT !.userThere = RoleExists(Engine(p), UserOf(p))])
      BY <1>11 DEF CheckUser, Read, vaultVars, At
    <2>2. CASE Goto(p, "failed")
      BY <1>1, <1>3, <1>4, <1>5, <2>2, NoteOne DEF SerialFacts
    <2>3. CASE GotoWith(p, FirstStatement[Engine(p)],
                        [job[p] EXCEPT !.userThere = RoleExists(Engine(p), UserOf(p))])
      <3>0. FirstStatement[Engine(p)] \in {"pgUser", "myDatabase"}
        BY <2>0 DEF FirstStatement, Engines
      <3>1. /\ pc'[p] \in {"pgUser", "myDatabase"}
            /\ job'[p].req = job[p].req /\ job'[p].engine = job[p].engine /\ job'[p].seen = job[p].seen
            /\ job'[p].dbThere = job[p].dbThere
            /\ job'[p].userThere = RoleExists(Engine(p), UserOf(p))
        BY <1>0, <2>3, <3>0 DEF GotoWith, Job
      <3>2. /\ Engine(p)' = Engine(p) /\ DbOf(p)' = DbOf(p) /\ UserOf(p)' = UserOf(p)
            /\ Site(p)' = Site(p) /\ Request(p)' = Request(p)
        BY <3>1, SameNames
      <3>3. Found(p)'
        BY <1>0, <3>1, <3>2 DEF SerialFacts, Found, DbExists, RoleExists, sqlVars, Provisioning
      <3>4. Vaulted(p)'
        BY <2>1, <3>1, <3>2 DEF SerialFacts, Vaulted, Planning, vaultVars, At, PgCalls, MyCalls, Locking
      <3> QED
        BY <1>1, <1>3, <3>1, <3>3, <3>4 DEF SerialFacts
    <2> QED
      BY <2>1, <2>2, <2>3
  <1>12. CASE Provisioned(p)
    <2>1. /\ SameNotes(p) /\ UNCHANGED vaultVars /\ pc[p] = "provisioned"
          /\ \/ pc'[p] = "sync" /\ Request(p).online /\ job'[p].left = Touched(Plan(p))
             \/ pc'[p] = "printOffline"
      BY <1>12, NoteOne DEF Provisioned, Local, vaultVars, At
    <2>2. CASE pc'[p] = "sync" /\ Request(p).online /\ job'[p].left = Touched(Plan(p))
      <3>1. folder[Site(p)] /\ \A k \in ContractKeys : secrets[Site(p)][k] = job[p].seen[k]
        BY <2>1, <2>2 DEF SerialFacts, Vaulted, Planning
      <3>2. \A k \in ContractKeys : secrets[Site(p)][k] =
                IF k \in job'[p].left THEN job[p].seen[k] ELSE Desired(p)[k]
        BY <2>2, <3>1, Unplanned
      <3>3. Vaulted(p)'
        BY <1>4, <2>1, <2>2, <3>1, <3>2 DEF Vaulted, vaultVars, Planning, PgCalls, MyCalls, Locking, At
      <3> QED
        BY <1>2, <1>3, <1>4, <2>1, <2>2, <3>3 DEF SerialFacts, Ending
    <2> QED
      BY <1>2, <1>3, <1>4, <1>5, <2>1, <2>2 DEF SerialFacts, Ending
  <1>13. CASE Sync(p)
    <2>1. PICK k : k = NextOperation(Plan(p), job[p].left)
      OBVIOUS
    <2>2. /\ SameNotes(p) /\ pc[p] = "sync" /\ job[p].left # {}
          /\ \/ pc'[p] = "printCredentials"
             \/ /\ pc'[p] = "sync" /\ job'[p].left = job[p].left \ {k}
                /\ Put(Site(p), k, Desired(p)[k])
      <3>1. GotoWith(p, "sync", [job[p] EXCEPT !.left = @ \ {k}]) =>
                pc'[p] = "sync" /\ job'[p].left = job[p].left \ {k} /\ SameNotes(p)
        BY <1>0, NoteOne
      <3>2. Goto(p, "printCredentials") => pc'[p] = "printCredentials" /\ SameNotes(p)
        BY <1>0, NoteOne
      <3> QED
        BY <1>13, <2>1, <3>1, <3>2 DEF Sync, VaultCall, Call, At
    <2>3. CASE /\ pc'[p] = "sync" /\ job'[p].left = job[p].left \ {k}
               /\ Put(Site(p), k, Desired(p)[k])
      <3>1. /\ folder[Site(p)]
            /\ \A key \in ContractKeys : secrets[Site(p)][key] =
                  IF key \in job[p].left THEN job[p].seen[key] ELSE Desired(p)[key]
        BY <2>2 DEF SerialFacts, Vaulted, At
      <3>2. \A key \in ContractKeys : secrets'[Site(p)][key] =
                  IF key \in job'[p].left THEN job[p].seen[key] ELSE Desired(p)[key]
        BY <2>3, <3>1, StoreTypes DEF Put, SecretMaps, Keys
      <3>3. folder'[Site(p)]
        BY <2>3, <3>1 DEF Put
      <3>4. Vaulted(p)'
        BY <1>4, <2>2, <2>3, <3>2, <3>3 DEF Vaulted, Planning, PgCalls, MyCalls, Locking, At
      <3> QED
        BY <1>2, <1>3, <1>4, <2>2, <2>3, <3>4 DEF SerialFacts, Ending
    <2> QED
      BY <1>2, <1>3, <1>4, <1>5, <2>2, <2>3 DEF SerialFacts, Ending
  <1>14. CASE SyncDone(p)
    <2>1. /\ SameNotes(p) /\ pc[p] = "sync" /\ job[p].left = {} /\ pc'[p] = "synced"
          /\ UNCHANGED vaultVars
      BY <1>14, NoteOne DEF SyncDone, Local, At, vaultVars
    <2>2. folder[Site(p)] /\ \A k \in ContractKeys : secrets[Site(p)][k] = Desired(p)[k]
      BY <2>1 DEF SerialFacts, Vaulted, At
    <2>3. Vaulted(p)'
      BY <1>4, <2>1, <2>2 DEF Vaulted, Planning, PgCalls, MyCalls, Locking, At, vaultVars
    <2> QED
      BY <1>2, <1>3, <1>4, <2>1, <2>3 DEF SerialFacts, Ending
  <1>15. CASE PrintCredentials(p)
    <2>1. /\ SameNotes(p) /\ pc[p] \in {"printCredentials", "printOffline"}
          /\ pc'[p] \in {"offline", "failed"}
      BY <1>15, NoteOne DEF PrintCredentials, PrintsPassword, At
    <2> QED
      BY <1>1, <1>2, <1>3, <1>4, <1>5, <2>1 DEF SerialFacts, Ending
  <1> QED
    BY <1>6, <1>7, <1>8, <1>9, <1>10, <1>11, <1>12, <1>13, <1>14, <1>15 DEF ProvisionStep

\* The steps that end a command with a report of success, or of a rollback.
Reported == {"synced", "rotated", "unverified", "rolledBack"}

\* Resolving and confirming come before any of it.
LEMMA ResolveFacts ==
    ASSUME LeftInv, LeftInv', NEW p \in Invocations, ResolveStep(p), Active(p)'
    PROVE  SerialFacts(p)'
  <1>1. pc[p] = "confirm" => Engine(p) \in Engines
    BY WorkingEngine DEF LeftInv, RouteInv, Finished
  <1>2. Confirm(p) => AfterConfirm(p) \in {"prepare", "resolveAgain", "pgDropDatabase", "myDropUser"}
    BY <1>1, CommandCases DEF Confirm, At, AfterConfirm, FirstDrop, Engines, LeftInv, RouteInv
  <1>3. pc'[p] \in {"confirm", "prepare", "resolveAgain", "pgDropDatabase", "myDropUser"}
    BY <1>2, StoreTypes DEF ResolveStep, Resolve, Confirm, Decline, Read, Local, Goto, GotoWith,
       Active, Finished
  <1>4. /\ pc'[p] \in {"confirm", "prepare"} => ~job'[p].dbThere /\ ~job'[p].userThere
        /\ pc'[p] \in {"resolveAgain", "pgDropDatabase", "myDropUser"} => ~Provisioning(p)'
    BY DEF LeftInv, RouteInv, Noted, Routed, Rotating, Provisioning, Request
  <1>5. Found(p)'
    BY <1>3, <1>4 DEF Found
  <1> QED
    BY <1>3, <1>5 DEF SerialFacts, Made, Vaulted, Rekeyed, At, WithUser, WithDb, Granting, Unconnected,
       PublicReowned, PublicRevoked, Planning, PgCalls, MyCalls, Locking, Ending

\* A step of a rotation.
LEMMA RotateFacts ==
    ASSUME LeftInv, LeftInv', NEW p \in Invocations, SerialFacts(p), RotateStep(p),
           Active(p)' \/ pc'[p] \in Reported
    PROVE  SerialFacts(p)'
  <1>0. /\ job \in [Invocations -> Job] /\ pc \in [Invocations -> Steps] /\ job[p] \in Job
        /\ Site(p) \in Sites /\ secrets \in [Sites -> SecretMaps] /\ role \in Roles
        /\ "DB_PASSWORD" \in Keys
    BY StoreTypes DEF Keys, ContractKeys
  <1>1. pc'[p] \in {"alter", "record", "verify", "restore", "printRotated", "rotated", "unverified",
                    "rolledBack"}
    BY <1>0 DEF RotateStep, ResolveAgain, Alter, Record, Verify, Restore, PrintRotated, RotatePassword,
       AfterRecordFailed, SqlCall, VaultCall, Call, Read, Local, Goto, GotoWith, Active, Finished, Reported
  <1>2. ~Provisioning(p)'
    BY <1>1 DEF LeftInv, RouteInv, Routed, Rotating, Provisioning, Request
  <1>3. Found(p)' /\ Made(p)' /\ Vaulted(p)'
    BY <1>1, <1>2 DEF Found, Made, Vaulted, At, WithUser, WithDb, Granting, Unconnected,
       PublicReowned, PublicRevoked, Planning, PgCalls, MyCalls, Locking, Ending
  <1>4. SUFFICES Rekeyed(p)'
    BY <1>3 DEF SerialFacts
  <1>5. ASSUME SameNotes(p)
        PROVE  /\ Engine(p)' = Engine(p) /\ UserOf(p)' = UserOf(p) /\ Site(p)' = Site(p)
               /\ OldPassword(p)' = OldPassword(p) /\ job'[p].seen = job[p].seen
    BY <1>5, SameNames DEF SameNotes
  <1>6. pc[p] \in {"record", "verify", "restore"} => Engine(p) \in Engines /\ UserOf(p) \in Users
    BY OnEngine, Locals DEF LeftInv, Rotating, Routed
  <1>7. CASE ResolveAgain(p)
    <2>1. /\ GotoWith(p, "alter", [job[p] EXCEPT !.seen = secrets[Site(p)]])
          /\ secrets' = secrets
      BY <1>0, <1>1, <1>7 DEF ResolveAgain, Read, Goto
    <2>2. pc'[p] = "alter" /\ job'[p].req = job[p].req /\ job'[p].seen = secrets[Site(p)]
      BY <1>0, <2>1 DEF GotoWith, Job
    <2>3. Site(p)' = Site(p)
      BY <2>2 DEF Site
    <2>4. secrets'[Site(p)'] = job'[p].seen
      BY <2>1, <2>2, <2>3
    <2> QED
      BY <2>2, <2>4 DEF Rekeyed, At
  <1>8. CASE Alter(p)
    <2>1. /\ SameNotes(p) /\ pc[p] = "alter" /\ pc'[p] = "record" /\ secrets' = secrets
          /\ RoleExists(Engine(p), UserOf(p)) /\ SetPassword(Engine(p), UserOf(p), p)
      BY <1>1, <1>8, NoteOne DEF Alter, RotatePassword, SqlCall, Call, At
    <2>2. Engine(p) \in Engines /\ UserOf(p) \in Users
      BY <2>1, OnEngine DEF LeftInv, Rotating, RoleExists
    <2>3. role'[Engine(p)][UserOf(p)] = p
      BY <1>0, <2>1, <2>2 DEF SetPassword, Roles
    <2> QED
      BY <1>5, <2>1, <2>3 DEF SerialFacts, Rekeyed, At
  <1>9. CASE Record(p)
    <2>1. /\ SameNotes(p) /\ pc[p] = "record" /\ role' = role
          /\ \/ pc'[p] = "verify" /\ Put(Site(p), "DB_PASSWORD", p)
             \/ /\ pc'[p] = AfterRecordFailed(p)
                /\ "lost" \in FaultKinds \/ UNCHANGED vaultVars
      BY <1>0, <1>9, NoteOne DEF Record, VaultCall, Call, Fault, At
    <2>2. /\ role[Engine(p)][UserOf(p)] = p
          /\ secrets[Site(p)]["DB_PASSWORD"] = job[p].seen["DB_PASSWORD"]
      BY <2>1 DEF SerialFacts, Rekeyed
    <2>3. CASE pc'[p] = "verify" /\ Put(Site(p), "DB_PASSWORD", p)
      <3>1. /\ secrets'[Site(p)]["DB_PASSWORD"] = p
            /\ \A k \in ContractKeys \ {"DB_PASSWORD"} : secrets'[Site(p)][k] = secrets[Site(p)][k]
        BY <1>0, <2>3 DEF Put, SecretMaps, Keys
      <3> QED
        BY <1>5, <2>1, <2>2, <2>3, <3>1 DEF SerialFacts, Rekeyed, At
    <2>4. CASE pc'[p] = AfterRecordFailed(p) /\ ("lost" \in FaultKinds \/ UNCHANGED vaultVars)
      <3>1. pc'[p] = "printRotated" \/ (pc'[p] = "restore" /\ OldPassword(p) # "")
        BY <2>4 DEF AfterRecordFailed
      <3>2. OldPassword(p) # "" => OldPassword(p) = secrets[Site(p)]["DB_PASSWORD"]
        BY <2>2 DEF OldPassword, Lookup
      <3> QED
        BY <1>5, <2>1, <2>4, <3>1, <3>2 DEF Rekeyed, At, vaultVars
    <2> QED
      BY <2>1, <2>3, <2>4
  <1>10. CASE Verify(p)
    <2>1. /\ SameNotes(p) /\ pc[p] = "verify" /\ pc'[p] \in {"rotated", "unverified"}
          /\ role' = role /\ secrets' = secrets
      BY <1>10, NoteOne DEF Verify, Local, At
    <2> QED
      BY <1>5, <2>1 DEF SerialFacts, Rekeyed, At
  <1>11. CASE Restore(p)
    <2>1. /\ SameNotes(p) /\ pc[p] = "restore" /\ secrets' = secrets
          /\ \/ pc'[p] = "printRotated"
             \/ pc'[p] = "rolledBack" /\ SetPassword(Engine(p), UserOf(p), OldPassword(p))
      BY <1>11, NoteOne DEF Restore, RotatePassword, SqlCall, Call, At
    <2>2. CASE pc'[p] = "rolledBack" /\ SetPassword(Engine(p), UserOf(p), OldPassword(p))
      <3>1. role'[Engine(p)][UserOf(p)] = OldPassword(p)
        BY <1>0, <1>6, <2>1, <2>2 DEF SetPassword, Roles
      <3> QED
        BY <1>5, <2>1, <2>2, <3>1 DEF SerialFacts, Rekeyed, At
    <2> QED
      BY <2>1, <2>2 DEF Rekeyed, At
  <1>12. CASE PrintRotated(p)
    BY <1>0, <1>1, <1>12 DEF PrintRotated, Goto
  <1> QED
    BY <1>7, <1>8, <1>9, <1>10, <1>11, <1>12 DEF RotateStep

LEMMA DeleteFacts ==
    ASSUME LeftInv, NEW p \in Invocations, DeleteStep(p)
    PROVE  SerialFacts(p)'
  <1>1. SameNotes(p) /\ pc'[p] \in Dropping \cup {"failed"} /\ pc[p] \in Dropping
    BY NoteOne DEF DeleteStep, ListSecrets, Erase, DeleteFolder, VaultCall, Call, Read, At, Dropping
  <1>2. Request(p).cmd = "delete"
    BY <1>1, OnEngine DEF LeftInv
  <1> QED
    BY <1>1, <1>2, Unowing DEF Step

LEMMA StepFacts ==
    ASSUME LeftInv, LeftInv', NEW p \in Invocations, SerialFacts(p), Step(p),
           Active(p)' \/ pc'[p] \in Reported
    PROVE  SerialFacts(p)'
  <1>1. ResolveStep(p) => pc'[p] \notin Reported
    <2>1. Confirm(p) => AfterConfirm(p) \notin Reported
      <3>1. pc[p] = "confirm" => Engine(p) \in Engines
        BY WorkingEngine DEF LeftInv, RouteInv, Finished
      <3> QED
        BY <3>1, CommandCases DEF Confirm, At, AfterConfirm, FirstDrop, Engines, LeftInv, RouteInv, Reported
    <2> QED
      BY <2>1, StoreTypes DEF ResolveStep, Resolve, Confirm, Decline, Read, Local, Goto, GotoWith, Reported
  <1> QED
    BY <1>1, PgFacts, MyFacts, ProvisionFacts, ResolveFacts, RotateFacts, DeleteFacts DEF Step

LEMMA StartFacts ==
    ASSUME LeftInv, NEW p \in Invocations, NEW r \in Requests, Start(p, r)
    PROVE  SerialFacts(p)'
  <1>1. pc'[p] \in {"prepare", "confirm", "resolve"} /\ job'[p] = NewJob(r)
    BY StoreTypes DEF Start, Local, GotoWith, FirstStep
  <1>2. ~job'[p].dbThere /\ ~job'[p].userThere
    BY <1>1 DEF NewJob
  <1> QED
    BY <1>1, <1>2 DEF SerialFacts, Found, Made, Vaulted, Rekeyed, At, WithUser, WithDb, Granting,
       Unconnected, PublicReowned, PublicRevoked, Planning, PgCalls, MyCalls, Locking, Ending

\* The facts are about the stores, and about the locals of p.
LEMMA FactsKept ==
    ASSUME NEW p, pc'[p] = pc[p], job'[p] = job[p], SerialFacts(p), UNCHANGED sqlVars, UNCHANGED vaultVars
    PROVE  SerialFacts(p)'
  <1>1. /\ Engine(p)' = Engine(p) /\ DbOf(p)' = DbOf(p) /\ UserOf(p)' = UserOf(p)
        /\ Site(p)' = Site(p) /\ Request(p)' = Request(p) /\ OldPassword(p)' = OldPassword(p)
        /\ Desired(p)' = Desired(p) /\ (Provisioning(p)' <=> Provisioning(p))
    BY SameNames DEF Provisioning, Request
  <1>2. Found(p)' /\ Made(p)'
    BY <1>1 DEF SerialFacts, Found, Made, sqlVars, DbExists, RoleExists
  <1>3. Vaulted(p)'
    BY <1>1 DEF SerialFacts, Vaulted, At, sqlVars, vaultVars
  <1>4. Rekeyed(p)'
    BY <1>1 DEF SerialFacts, Rekeyed, At, sqlVars, vaultVars
  <1> QED
    BY <1>2, <1>3, <1>4 DEF SerialFacts

\* Operators who wait for each other are one at a time from the start.
LEMMA AloneInductive ==
    ASSUME RouteInv, Alone, Exclusive, [Next]_vars
    PROVE  Alone'
  <1>1. CASE UNCHANGED <<pc, job>>
    BY <1>1, StaysPut DEF Alone
  <1>2. ASSUME NEW p \in Invocations,
               \A q \in Invocations \ {p} : pc'[q] = pc[q] /\ job'[q] = job[q],
               Step(p) \/ Crash(p) \/ \E r \in Requests : Start(p, r)
        PROVE  Alone'
    <2>1. \A q \in Invocations \ {p} : Active(q)' <=> Active(q)
      BY <1>2, StaysPut
    <2>2. \A q \in Invocations \ {p} : ~Active(q)
      BY <1>2, StepKeeps DEF Start, Crash, Alone
    <2> QED
      BY <2>1, <2>2 DEF Alone
  <1> QED
    BY <1>1, <1>2, OneMoves

LEMMA SerialInvInductive ==
    ASSUME SerialInv, Exclusive, [Next]_vars
    PROVE  SerialInv'
  <1>0. LeftInv /\ LeftInv' /\ Alone' /\ RouteInv
        /\ job \in [Invocations -> Job] /\ pc \in [Invocations -> Steps]
    BY LeftInvInductive, AloneInductive, StoreTypes DEF SerialInv, LeftInv, RouteInv, TypeInv, TypeOK
  <1>1. CASE UNCHANGED vars
    <2>1. pc' = pc /\ job' = job /\ UNCHANGED sqlVars /\ UNCHANGED vaultVars
      BY <1>1 DEF vars, sqlVars, vaultVars
    <2>2. \A p \in Invocations : Active(p)' => SerialFacts(p)'
      BY <2>1, FactsKept DEF SerialInv, Active
    <2> QED
      BY <1>0, <2>2 DEF SerialInv
  <1>2. ASSUME NEW p \in Invocations, Step(p) \/ Crash(p) \/ \E r \in Requests : Start(p, r)
        PROVE  SerialInv'
    <2>1. ASSUME Active(p)' PROVE SerialFacts(p)'
      <3>1. CASE Step(p)
        BY <1>0, <2>1, <3>1, StepFacts, StepKeeps DEF SerialInv
      <3>2. CASE Crash(p)
        BY <1>0, <2>1, <3>2 DEF Crash, Goto, Active, Finished
      <3>3. CASE \E r \in Requests : Start(p, r)
        BY <1>0, <3>3, StartFacts
      <3> QED
        BY <1>2, <3>1, <3>2, <3>3
    <2>2. \A q \in Invocations \ {p} : ~Active(q)
      BY <1>0, <1>2, StepKeeps DEF Start, Crash, SerialInv, Alone
    <2>3. \E l, j : GotoWith(p, l, j)
      BY <1>0, <1>2, PgFollows, MyFollows, ProvisionFollows, ResolveFollows, RotateFollows, DeleteFollows,
         StartFollows, CrashFollows DEF Step, Follows
    <2>4. \A q \in Invocations \ {p} : ~Active(q)'
      BY <1>0, <2>2, <2>3 DEF GotoWith, Active
    <2> QED
      BY <1>0, <2>1, <2>4 DEF SerialInv
  <1> QED
    BY <1>1, <1>2 DEF Next

LEMMA SerialInvariance ==
    ASSUME Exclusive
    PROVE  Spec => []SerialInv
  <1>1. Init => SerialInv
    BY RouteInit DEF Init, SerialInv, LeftInv, Alone, Active, At
  <1>2. SerialInv /\ [Next]_vars => SerialInv'
    BY SerialInvInductive
  <1> QED
    BY <1>1, <1>2, PTL DEF Spec

----------------------------------------------------------------------------
(* What follows from it.                                                   *)

\* A step of a provisioning run, its last one included, leaves what it found.
LEMMA LeavesFound ==
    ASSUME LeftInv, LeftInv', NEW p \in Invocations, SerialFacts(p), Provisioning(p), Step(p)
    PROVE  Found(p)'
  <1>1. CASE PgStep(p) \/ MyStep(p) \/ ProvisionStep(p) \/ DeleteStep(p)
    BY <1>1, PgFacts, MyFacts, ProvisionFacts, DeleteFacts DEF SerialFacts
  <1>2. CASE RotateStep(p)
    <2>1. pc[p] \in Rotating
      BY <1>2 DEF RotateStep, ResolveAgain, Alter, Record, Verify, Restore, PrintRotated, At, Rotating
    <2> QED
      BY <2>1, OnEngine DEF LeftInv, Provisioning
  <1>3. CASE ResolveStep(p)
    <2>1. CASE Active(p)'
      BY <1>3, <2>1, ResolveFacts DEF SerialFacts
    <2>2. CASE ~Active(p)'
      <3>1. \E l : Goto(p, l)
        BY <1>3, <2>2, StoreTypes DEF ResolveStep, Resolve, Confirm, Decline, Read, Local, GotoWith,
           Active, Finished
      <3>2. SameNotes(p)
        BY <3>1, NoteOne
      <3> QED
        BY <3>2, KeepsFound DEF SerialFacts
    <2> QED
      BY <2>1, <2>2
  <1> QED
    BY <1>1, <1>2, <1>3 DEF Step

\* Operators who wait for each other, and any faults: no step of a provisioning
\* run, its last one included, drops the database or the user it found. The
\* rollbacks drop what the run has noted as made, and what it made it had not
\* found.
THEOREM AdoptedAreSafe ==
    ASSUME Exclusive
    PROVE  Spec => AdoptedSurvive
  <1>1. ASSUME SerialInv, [Next]_vars, NEW p \in Invocations, Provisioning(p), Active(p)
        PROVE  /\ job'[p].dbThere => DbExists(Engine(p), DbOf(p))'
               /\ job'[p].userThere => RoleExists(Engine(p), UserOf(p))'
    <2>1. LeftInv /\ LeftInv' /\ RouteInv /\ SerialFacts(p)
      BY <1>1, LeftInvInductive DEF SerialInv, LeftInv
    <2>2. SUFFICES Found(p)' /\ Provisioning(p)'
      BY DEF Found
    <2>3. CASE UNCHANGED <<pc, job>> /\ UNCHANGED sqlVars
      BY <1>1, <2>1, <2>3, StaysPut DEF SerialFacts, Found, DbExists, RoleExists, sqlVars
    <2>4. CASE Step(p)
      BY <1>1, <2>1, <2>4, LeavesFound, StepKeeps DEF Provisioning, Request
    <2>5. CASE Crash(p)
      <3>1. SameNotes(p) /\ UNCHANGED sqlVars
        BY <2>1, <2>5, NoteOne DEF Crash, sqlVars
      <3>2. Found(p)' /\ Provisioning(p)'
        BY <1>1, <2>1, <3>1, SameNames DEF SerialFacts, Found, SameNotes, Provisioning, DbExists,
           RoleExists, sqlVars
      <3> QED
        BY <3>2
    <2>6. ASSUME NEW q \in Invocations, Step(q) \/ Crash(q) \/ \E r \in Requests : Start(q, r)
          PROVE  q = p /\ (Step(p) \/ Crash(p))
      <3>1. \A r \in Requests : ~Start(q, r)
        BY <1>1 DEF Start
      <3>2. Active(q)
        BY <2>1, <2>6, <3>1, StepKeeps DEF Crash
      <3> QED
        BY <1>1, <2>6, <3>1, <3>2 DEF SerialInv, Alone
    <2>7. CASE UNCHANGED vars
      BY <2>3, <2>7 DEF vars, sqlVars
    <2> QED
      BY <1>1, <2>4, <2>5, <2>6, <2>7 DEF Next
  <1>2. SerialInv /\ [Next]_vars =>
            [\A p \in Invocations : Provisioning(p) /\ Active(p) =>
                /\ job'[p].dbThere => DbExists(Engine(p), DbOf(p))'
                /\ job'[p].userThere => RoleExists(Engine(p), UserOf(p))']_vars
    BY <1>1
  <1> QED
    BY <1>2, SerialInvariance, PTL DEF Spec, AdoptedSurvive

\* An end of a run is a step of its own.
LEMMA EndsByStep ==
    ASSUME RouteInv, [Next]_vars, NEW p \in Invocations, NEW how \in Finished \ {"crashed"}, Ends(p, how)
    PROVE  Step(p) /\ Active(p)
  <1>1. PICK q \in Invocations :
            /\ \A other \in Invocations \ {q} : pc'[other] = pc[other]
            /\ Step(q) \/ Crash(q) \/ \E r \in Requests : Start(q, r)
    <2>1. pc'[p] # pc[p]
      BY DEF Ends, At
    <2> QED
      BY <2>1, OneMoves
  <1>2. q = p
    BY <1>1 DEF Ends, At
  <1>3. ~Crash(p) /\ ~\E r \in Requests : Start(p, r)
    BY DEF Ends, Crash, Start, Local, Goto, GotoWith, FirstStep, Finished, RouteInv, TypeInv, TypeOK
  <1> QED
    BY <1>1, <1>2, <1>3, StepKeeps

LEMMA EndFacts ==
    ASSUME SerialInv, Exclusive, [Next]_vars, NEW p \in Invocations, NEW how \in Reported, Ends(p, how)
    PROVE  SerialFacts(p)' /\ pc'[p] = how /\ LeftInv' /\ Step(p)
  <1>1. how \in Finished \ {"crashed"}
    BY DEF Reported, Finished
  <1>2. Step(p) /\ Active(p)
    BY <1>1, EndsByStep DEF SerialInv, LeftInv
  <1> QED
    BY <1>2, StepFacts, LeftInvInductive DEF SerialInv, Ends

\* Which step it is: the last of a sync, of a rotation, or its undoing.
LEMMA EndSteps ==
    ASSUME RouteInv, NEW p \in Invocations, Step(p), pc'[p] \in Reported
    PROVE  SyncDone(p) \/ Verify(p) \/ Restore(p)
  <1>0. pc \in [Invocations -> Steps]
    BY DEF RouteInv, TypeInv, TypeOK
  <1>1. ~PgStep(p)
    BY <1>0 DEF PgStep, PgUser, PgDatabase, PgLockdown, LockdownStep, PgGrant, PgUndoDatabase,
       PgUndoUser, PgDropDatabase, PgDropUser, SqlCall, Call, Local, Goto, GotoWith, Reported
  <1>2. ~MyStep(p)
    BY <1>0 DEF MyStep, MyDatabase, MyUser, MyGrant, MyFlush, MyUndoUser, MyUndoDatabase,
       MyDropUser, MyDropDatabase, MyFlushDrop, SqlCall, Call, Read, Local, Goto, GotoWith, Reported
  <1>3. ~ResolveStep(p)
    <2>1. Confirm(p) => AfterConfirm(p) \notin Reported
      <3>1. At(p, "confirm") => Engine(p) \in Engines
        BY WorkingEngine DEF At, Finished, RouteInv
      <3> QED
        BY <3>1, CommandCases DEF Confirm, AfterConfirm, FirstDrop, Engines, RouteInv, Reported
    <2> QED
      BY <1>0, <2>1 DEF ResolveStep, Resolve, Confirm, Decline, Read, Local, Goto, GotoWith, Reported
  <1>4. ~DeleteStep(p)
    BY <1>0 DEF DeleteStep, ListSecrets, Erase, DeleteFolder, VaultCall, Call, Read, Goto, GotoWith, Reported
  <1>5. RotateStep(p) => Verify(p) \/ Restore(p)
    BY <1>0 DEF RotateStep, ResolveAgain, Alter, Record, PrintRotated, RotatePassword,
       AfterRecordFailed, SqlCall, VaultCall, Call, Read, Local, Goto, GotoWith, Reported
  <1>6. ProvisionStep(p) => SyncDone(p)
    <2>1. CheckUser(p) => FirstStatement[Engine(p)] \notin Reported
      BY OnEngine DEF CheckUser, At, Changing, FirstStatement, Engines, Reported
    <2> QED
      BY <1>0, <2>1 DEF ProvisionStep, Prepare, CreateFolder, FolderExists, Inspect, CheckDatabase,
         CheckUser, Provisioned, Sync, PrintCredentials, PrintsPassword, VaultCall, Call, Read, Local,
         Goto, GotoWith, Reported
  <1> QED
    BY <1>1, <1>2, <1>3, <1>4, <1>5, <1>6 DEF Step

LEMMA EndNotes ==
    ASSUME LeftInv, NEW p \in Invocations, Step(p), pc'[p] \in Reported
    PROVE  SameNotes(p)
  BY EndSteps, NoteOne DEF LeftInv, SyncDone, Verify, Restore, RotatePassword, SqlCall, Call, Local

\* Operators who wait for each other, and any faults: a rotation that reports
\* success left the new password on the server and in the vault, which it writes
\* second, over the secret it read after the prompt.
THEOREM RotationAgrees ==
    ASSUME Exclusive
    PROVE  Spec => RotatedAgrees
  <1>1. ASSUME SerialInv, [Next]_vars, NEW p \in Invocations, NEW how \in {"rotated", "unverified"},
               Ends(p, how)
        PROVE  role'[Engine(p)][UserOf(p)] = p /\ secrets'[Site(p)]["DB_PASSWORD"] = p
    <2>1. SerialFacts(p)' /\ pc'[p] = how /\ Step(p)
      BY <1>1, EndFacts DEF Reported
    <2>2. Engine(p)' = Engine(p) /\ UserOf(p)' = UserOf(p) /\ Site(p)' = Site(p)
      BY <1>1, <2>1, EndNotes, SameNames DEF SameNotes, SerialInv, Reported
    <2> QED
      BY <2>1, <2>2 DEF SerialFacts, Rekeyed
  <1>2. SerialInv /\ [Next]_vars =>
            [\A p \in Invocations : Ends(p, "rotated") \/ Ends(p, "unverified") =>
                role'[Engine(p)][UserOf(p)] = p /\ secrets'[Site(p)]["DB_PASSWORD"] = p]_vars
    BY <1>1
  <1> QED
    BY <1>2, SerialInvariance, PTL DEF Spec, RotatedAgrees

\* Where no call is carried out and reported as failed, and operators wait for
\* each other: a rotation that reports that it rolled back left the password that
\* was recorded before, recorded and live.
THEOREM RollbackRestores ==
    ASSUME Exclusive, "lost" \notin FaultKinds
    PROVE  Spec => RolledBackChangedNothing
  <1>1. ASSUME SerialInv, [Next]_vars, NEW p \in Invocations, Ends(p, "rolledBack")
        PROVE  /\ secrets'[Site(p)]["DB_PASSWORD"] = OldPassword(p)
               /\ role'[Engine(p)][UserOf(p)] = OldPassword(p)
    <2>1. SerialFacts(p)' /\ pc'[p] = "rolledBack" /\ Step(p)
      BY <1>1, EndFacts DEF Reported
    <2>2. /\ Engine(p)' = Engine(p) /\ UserOf(p)' = UserOf(p) /\ Site(p)' = Site(p)
          /\ OldPassword(p)' = OldPassword(p)
      BY <1>1, <2>1, EndNotes, SameNames DEF SameNotes, SerialInv, Reported
    <2> QED
      BY <2>1, <2>2 DEF SerialFacts, Rekeyed, At
  <1>2. SerialInv /\ [Next]_vars =>
            [\A p \in Invocations : Ends(p, "rolledBack") =>
                /\ secrets'[Site(p)]["DB_PASSWORD"] = OldPassword(p)
                /\ role'[Engine(p)][UserOf(p)] = OldPassword(p)]_vars
    BY <1>1
  <1> QED
    BY <1>2, SerialInvariance, PTL DEF Spec, RolledBackChangedNothing

----------------------------------------------------------------------------
(* A run that has recorded what it wanted has recorded a valid contract.   *)

LEMMA ContractRecorded ==
    ASSUME RouteInv, NEW p \in Invocations, At(p, "synced"), Vaulted(p)
    PROVE  Recorded(p)
  <1> DEFINE found == secrets[Site(p)]
             o == Options(Request(p))
             e == Engine(p)
  <1>1. folder[Site(p)] /\ \A k \in ContractKeys : found[k] = Desired(p)[k]
    BY DEF Vaulted, At
  <1>2. /\ Request(p).cmd = "provision" /\ ~SchemaRefused(Request(p))
        /\ e = Request(p).engine /\ e \in Engines
        /\ DbFor(job[p]) \in Databases /\ UserFor(job[p]) \in Users
    BY Locals DEF Routed, At, Changing, Ending
  <1>3. o.db \in Databases /\ o.user \in Users
    BY <1>2 DEF DbFor, UserFor, Request
  <1>4. /\ found["DB_NAME"] = o.db /\ found["DB_USER"] = o.user
        /\ found["DB_PASSWORD"] = p /\ found["DB_HOST"] = e /\ found["DB_PORT"] = e
        /\ found["DB_SCHEMA"] = IF o.schema # "" THEN o.schema ELSE Absent
    BY <1>1 DEF Desired, ToSecrets, ContractKeys, Keys
  <1>5. o.db # "" /\ o.user # "" /\ p # "" /\ e # "" /\ Absent \notin {o.db, o.user, p, e}
    BY <1>2, <1>3, NamesAssumption DEF Values, Passwords, Engines
  <1>6. RequireCore(ParseCredentials(found))
    BY <1>4, <1>5 DEF RequireCore, ParseCredentials, Lookup, ContractKeys
  <1>7. /\ e = "postgres" => o.schema # ""
        /\ e = "mysql" => o.schema = ""
    BY <1>2, <1>3 DEF SchemaRefused, Options
  <1>8. o.schema # Absent
    <2>1. Request(p) \in RequestType
      BY JobTypes DEF RouteInv
    <2>2. o.schema \in Values
      BY <2>1, NamesAssumption DEF Options, RequestType, Values
    <2> QED
      BY <2>2, NamesAssumption
  <1>9. ParseCredentials(found)["DB_SCHEMA"] = o.schema
    BY <1>4, <1>8 DEF ParseCredentials, Lookup, ContractKeys
  <1> QED
    BY <1>1, <1>6, <1>7, <1>9 DEF Recorded, ValidateContract

\* Operators who wait for each other, and any faults: a provisioning run that
\* reports a sync left a usable app. Its user has the new password, its database
\* is locked down and lets it in, and its contract is recorded key for key and
\* passes the check every reader makes, also when it adopted what failed runs
\* had left behind.
THEOREM ProvisioningDelivers ==
    ASSUME Exclusive
    PROVE  Spec => ProvisionedIsUsable
  <1>a. \A p \in Invocations : At(p, "synced") /\ LeftInv =>
            /\ Vaulted(p) => Recorded(p)
            /\ Engine(p) \in Engines /\ DbOf(p) \in Databases /\ hardening \in Hardenings
    BY ContractRecorded, StoreTypes DEF At, Changing, Ending, LeftInv
  <1>b. (\A p \in Invocations : At(p, "synced") /\ LeftInv =>
            /\ Vaulted(p) => Recorded(p)
            /\ Engine(p) \in Engines /\ DbOf(p) \in Databases /\ hardening \in Hardenings)'
    BY <1>a, PTL
  <1>1. ASSUME SerialInv, [Next]_vars, NEW p \in Invocations, Ends(p, "synced")
        PROVE  ServerReady(p)' /\ Recorded(p)'
    <2>1. SerialFacts(p)' /\ pc'[p] = "synced" /\ LeftInv'
      BY <1>1, EndFacts DEF Reported
    <2>2. RouteInv' /\ Vaulted(p)' /\ At(p, "synced")'
      BY <2>1 DEF LeftInv, SerialFacts, At
    <2>3. Recorded(p)'
      BY <1>b, <2>1, <2>2
    <2>4. ServerReady(p)'
      <3>1. /\ role'[Engine(p)'][UserOf(p)'] = p /\ owner'[Engine(p)'][DbOf(p)'] # Absent
            /\ UserOf(p)' \in access'[Engine(p)'][DbOf(p)']
            /\ Engine(p)' = "postgres" =>
                /\ owner'[Engine(p)'][DbOf(p)'] = UserOf(p)'
                /\ Lockdown \subseteq hardening'[Engine(p)'][DbOf(p)']
        BY <2>1 DEF SerialFacts, Made, WithUser, WithDb, Granting, Unconnected, PublicReowned, PublicRevoked,
           Ending, Lockdown
      <3>2. Engine(p)' \in Engines /\ DbOf(p)' \in Databases /\ hardening' \in Hardenings
        BY <1>b, <2>1, <2>2
      <3>3. hardening'[Engine(p)'][DbOf(p)'] \subseteq Lockdown
        BY <3>2 DEF Hardenings
      <3> QED
        BY <3>1, <3>3 DEF ServerReady
    <2> QED
      BY <2>3, <2>4
  <1>2. SerialInv /\ [Next]_vars =>
            [\A p \in Invocations : Ends(p, "synced") => ServerReady(p)' /\ Recorded(p)']_vars
    BY <1>1
  <1> QED
    BY <1>2, SerialInvariance, PTL DEF Spec, ProvisionedIsUsable

----------------------------------------------------------------------------
(* A single call that is refused, and nothing adopted: the rollback of a    *)
(* run that fails is exact, and no password is lost. The assumptions are    *)
(* those under which the documentation promises it; each is needed, as the  *)
(* runs that drop one of them show.                                         *)

\* What postgres keeps of its roles and databases, whoever overlaps.
References ==
    /\ \A d \in Databases, u \in Users :
        owner["postgres"][d] = u \/ u \in access["postgres"][d] => role["postgres"][u] # Absent
    /\ \A d \in Databases : owner["postgres"][d] = Absent => access["postgres"][d] = {}

LEMMA ReferencesKept ==
    ASSUME LeftInv, References, [Next]_vars
    PROVE  References'
  <1>1. CASE UNCHANGED <<role, owner, access, hardening>>
    BY <1>1 DEF References
  <1>2. ASSUME NEW p \in Invocations, SqlWrite(p)
        PROVE  References'
    <2>0. PICK e, d, u : e = Engine(p) /\ d = DbOf(p) /\ u = UserOf(p)
      OBVIOUS
    <2>1. /\ role \in Roles /\ owner \in Owners /\ access \in Accesses
          /\ p # Absent /\ Admin \notin Users /\ Absent \notin Users /\ Admin # Absent
          /\ OldPassword(p) # Absent /\ "postgres" \in Engines
      BY StoreTypes, NamesAssumption DEF OldPassword, Lookup, Engines, Values
    <2>2. pc[p] \in Changing \cup Dropping => d \in Databases /\ u \in Users
      BY <2>0, StoreTypes
    <2>3. CASE UNCHANGED sqlVars
      BY <2>3 DEF sqlVars, References
    <2>4. CASE \E pw \in {p, OldPassword(p)} : SetPassword(e, u, pw)
      BY <2>1, <2>4 DEF SetPassword, References, Roles
    <2>5. CASE /\ d \in Databases /\ ~DbExists(e, d) /\ (e = "postgres" => RoleExists(e, u))
               /\ \E o \in {u, Admin} : CreateDb(e, d, o)
      BY <2>1, <2>5 DEF CreateDb, RoleExists, DbExists, References, Owners
    <2>6. CASE RoleExists(e, u) /\ SetOwner(e, d, u)
      BY <2>1, <2>6 DEF SetOwner, RoleExists, References, Owners
    <2>7. CASE \E statement \in Lockdown : Harden(e, d, statement)
      BY <2>7 DEF Harden, References
    <2>8. CASE (e = "postgres" => DbExists(e, d) /\ RoleExists(e, u)) /\ GrantAccess(e, d, u)
      BY <2>1, <2>8 DEF GrantAccess, DbExists, RoleExists, References, Accesses
    <2>9. CASE DropDb(e, d)
      BY <2>1, <2>9 DEF DropDb, References, Owners, Accesses
    <2>10. CASE (e = "postgres" => RoleIsFree(u)) /\ DropRole(e, u)
      BY <2>1, <2>10 DEF DropRole, RoleIsFree, References, Roles, Accesses
    <2> QED
      BY <1>2, <2>0, <2>2, <2>3, <2>4, <2>5, <2>6, <2>7, <2>8, <2>9, <2>10
      DEF SqlWrite, Changing, PgCalls, MyCalls
  <1> QED
    BY <1>1, <1>2, WritersOnly DEF LeftInv

NoAdoption == \A r \in Requests : ~r.adopt

OneRefusal == Exclusive /\ NoAdoption /\ "lost" \notin FaultKinds /\ MaxFaults <= 1

Undoing == {"pgUndoDatabase", "pgUndoUser", "myUndoUser", "myUndoDatabase"}

\* While a run is in its adapter, what it has not made is not there, and its
\* user holds nothing in any other database. It rolls back only after the one
\* fault there is, so every statement of its rollback is carried out.
Exact(p) ==
    LET e == Engine(p)
        d == DbOf(p)
        u == UserOf(p)
    IN  /\ At(p, "checkUser") /\ ~job[p].dbThere => owner[e][d] = Absent
        /\ pc[p] \in PgCalls \cup MyCalls =>
            /\ ~job[p].dbMade => owner[e][d] = Absent
            /\ ~job[p].userMade => role[e][u] = Absent
        /\ pc[p] \in PgCalls => \A other \in Databases \ {d} :
            owner[e][other] # u /\ u \notin access[e][other]
        /\ pc[p] \in {"pgUser", "myDatabase", "myUser"} => ~job[p].userMade
        /\ pc[p] \in {"pgUser", "pgDatabase", "myDatabase"} => ~job[p].dbMade
        /\ pc[p] \in Undoing => faults = MaxFaults
        /\ At(p, "pgUndoUser") => owner[e][d] = Absent
        /\ At(p, "myUndoDatabase") => role[e][u] = Absent

RollbackInv ==
    /\ SerialInv /\ References
    /\ \A p \in Invocations : Active(p) => Exact(p)

\* The one fault there may be is a refusal.
LEMMA LastFault ==
    ASSUME LeftInv, OneRefusal
    PROVE  /\ ~Fault("lost")
           /\ \A kind : Fault(kind) => faults # MaxFaults /\ faults' = MaxFaults
  BY FaultsAssumption DEF OneRefusal, Fault, LeftInv, RouteInv, TypeInv, TypeOK

\* A run that is in its adapter found neither its database nor its user.
LEMMA NothingFound ==
    ASSUME LeftInv, NoAdoption, NEW p \in Invocations
    PROVE  /\ pc[p] \in PgCalls \cup MyCalls => ~job[p].dbThere /\ ~job[p].userThere
           /\ ~Request(p).adopt
  <1>1. Request(p) \in Requests /\ Request(p) = job[p].req /\ Noted(pc[p], job[p]) /\ Routed(pc[p], job[p])
    BY Locals, JobTypes DEF LeftInv, RouteInv
  <1> QED
    BY <1>1 DEF NoAdoption, Noted, Routed, Changing

\* Its flags, as its calls note them.
LEMMA NoteMade ==
    ASSUME LeftInv, NEW p \in Invocations, NEW l
    PROVE  /\ Goto(p, l) => /\ pc'[p] = l /\ SameNotes(p)
                            /\ job'[p].userMade = job[p].userMade /\ job'[p].dbMade = job[p].dbMade
           /\ GotoWith(p, l, [job[p] EXCEPT !.userMade = TRUE]) =>
                /\ pc'[p] = l /\ SameNotes(p)
                /\ job'[p].userMade /\ job'[p].dbMade = job[p].dbMade
           /\ GotoWith(p, l, [job[p] EXCEPT !.dbMade = TRUE]) =>
                /\ pc'[p] = l /\ SameNotes(p)
                /\ job'[p].userMade = job[p].userMade /\ job'[p].dbMade
  <1>0. job \in [Invocations -> Job] /\ pc \in [Invocations -> Steps] /\ job[p] \in Job
    BY DEF LeftInv, RouteInv, TypeInv, TypeOK
  <1>1. \A j : GotoWith(p, l, j) => job'[p] = j
    BY <1>0 DEF GotoWith
  <1>2. /\ [job[p] EXCEPT !.userMade = TRUE].userMade
        /\ [job[p] EXCEPT !.userMade = TRUE].dbMade = job[p].dbMade
        /\ [job[p] EXCEPT !.dbMade = TRUE].dbMade
        /\ [job[p] EXCEPT !.dbMade = TRUE].userMade = job[p].userMade
    BY <1>0 DEF Job
  <1> QED
    BY <1>1, <1>2, NoteOne

LEMMA PgExact ==
    ASSUME RollbackInv, OneRefusal, NEW p \in Invocations, Active(p), PgStep(p),
           pc'[p] \in PgCalls \cup MyCalls \cup {"checkUser"}
    PROVE  Exact(p)'
  <1>0. PICK d, u : d = DbOf(p) /\ u = UserOf(p)
    OBVIOUS
  <1>1. LeftInv /\ SerialFacts(p) /\ Exact(p) /\ NoAdoption
    BY DEF RollbackInv, SerialInv, OneRefusal
  <1>2. /\ ~Fault("lost")
        /\ Fault("refused") => faults # MaxFaults /\ faults' = MaxFaults
    BY <1>1, LastFault
  <1>3. ASSUME SameNotes(p)
        PROVE  Engine(p)' = Engine(p) /\ DbOf(p)' = d /\ UserOf(p)' = u
    BY <1>0, <1>3, SameNames DEF SameNotes
  <1>4. ASSUME pc[p] \in PgCalls
        PROVE  /\ Engine(p) = Pg /\ d \in Databases /\ u \in Users /\ Pg \in Engines
               /\ role \in Roles /\ owner \in Owners /\ access \in Accesses
               /\ ~job[p].dbThere /\ ~job[p].userThere
               /\ ~job[p].dbMade => owner[Pg][d] = Absent
               /\ ~job[p].userMade => role[Pg][u] = Absent
               /\ \A other \in Databases \ {d} : owner[Pg][other] # u /\ u \notin access[Pg][other]
               /\ pc[p] \in WithUser => role[Pg][u] = p
               /\ pc[p] \in WithDb => owner[Pg][d] = u
               /\ p # Absent /\ Absent \notin Users
    BY <1>0, <1>1, <1>4, StoreTypes, OnEngine, NothingFound
    DEF LeftInv, Changing, Pg, Engines, Exact, SerialFacts, Made
  <1>5. CASE PgUser(p)
    <2>1. /\ pc[p] = "pgUser" /\ ~job[p].userMade /\ ~job[p].dbMade
      BY <1>1, <1>5 DEF PgUser, At, Exact
    <2>2. \/ /\ SetPassword(Pg, u, p)
             /\ GotoWith(p, "pgDatabase", [job[p] EXCEPT !.userMade = TRUE])
          \/ UNCHANGED sqlVars /\ Goto(p, "pgUndoDatabase") /\ faults' = MaxFaults
      BY <1>0, <1>2, <1>4, <1>5, <2>1 DEF PgUser, SqlCall, Call, RoleExists, PgCalls
    <2>3. CASE /\ SetPassword(Pg, u, p)
               /\ GotoWith(p, "pgDatabase", [job[p] EXCEPT !.userMade = TRUE])
      <3>1. /\ SameNotes(p) /\ pc'[p] = "pgDatabase" /\ job'[p].userMade /\ ~job'[p].dbMade
        BY <1>1, <2>1, <2>3, NoteMade
      <3>2. owner' = owner /\ access' = access
        BY <2>3 DEF SetPassword
      <3> QED
        BY <1>3, <1>4, <2>1, <3>1, <3>2 DEF Exact, At, Undoing, PgCalls, Pg
    <2>4. CASE UNCHANGED sqlVars /\ Goto(p, "pgUndoDatabase") /\ faults' = MaxFaults
      <3>1. /\ SameNotes(p) /\ pc'[p] = "pgUndoDatabase" /\ ~job'[p].userMade /\ ~job'[p].dbMade
        BY <1>1, <2>1, <2>4, NoteMade
      <3> QED
        BY <1>3, <1>4, <2>1, <2>4, <3>1 DEF Exact, At, Undoing, PgCalls, Pg, sqlVars
    <2> QED
      BY <2>2, <2>3, <2>4
  <1>6. CASE PgDatabase(p)
    <2>1. /\ pc[p] = "pgDatabase" /\ ~job[p].dbMade
      BY <1>1, <1>6 DEF PgDatabase, At, Exact
    <2>2. \/ /\ CreateDb(Pg, d, u)
             /\ GotoWith(p, "connectRevoked", [job[p] EXCEPT !.dbMade = TRUE])
          \/ UNCHANGED sqlVars /\ Goto(p, "pgUndoDatabase") /\ faults' = MaxFaults
      BY <1>0, <1>2, <1>4, <1>6, <2>1 DEF PgDatabase, SqlCall, Call, DbExists, RoleExists, PgCalls, WithUser
    <2>3. CASE /\ CreateDb(Pg, d, u)
               /\ GotoWith(p, "connectRevoked", [job[p] EXCEPT !.dbMade = TRUE])
      <3>1. /\ SameNotes(p) /\ pc'[p] = "connectRevoked" /\ job'[p].dbMade
            /\ job'[p].userMade = job[p].userMade
        BY <1>1, <2>3, NoteMade
      <3>2. /\ role' = role /\ access' = access
            /\ \A other \in Databases \ {d} : owner'[Pg][other] = owner[Pg][other]
        BY <1>4, <2>1, <2>3 DEF CreateDb, Owners, PgCalls
      <3> QED
        BY <1>3, <1>4, <2>1, <3>1, <3>2 DEF Exact, At, Undoing, PgCalls, Locking, Pg
    <2>4. CASE UNCHANGED sqlVars /\ Goto(p, "pgUndoDatabase") /\ faults' = MaxFaults
      <3>1. /\ SameNotes(p) /\ pc'[p] = "pgUndoDatabase" /\ job'[p].userMade = job[p].userMade
            /\ ~job'[p].dbMade
        BY <1>1, <2>1, <2>4, NoteMade
      <3> QED
        BY <1>3, <1>4, <2>1, <2>4, <3>1 DEF Exact, At, Undoing, PgCalls, Pg, sqlVars
    <2> QED
      BY <2>2, <2>3, <2>4
  <1>7. CASE PgLockdown(p) \/ PgGrant(p)
    <2>1. PICK next, statement :
            /\ pc[p] \in Locking /\ next \notin Undoing
            /\ \/ Harden(Pg, d, statement) /\ Goto(p, next)
               \/ GrantAccess(Pg, d, u) /\ Goto(p, next)
               \/ UNCHANGED sqlVars /\ Goto(p, "pgUndoDatabase") /\ faults' = MaxFaults
      <3>1. pc[p] \in Locking
        BY <1>7 DEF PgLockdown, LockdownStep, PgGrant, At, Locking
      <3>2. DbExists(Pg, d) /\ RoleExists(Pg, u)
        BY <1>4, <3>1 DEF DbExists, RoleExists, PgCalls, WithUser, WithDb
      <3>3. CASE PgLockdown(p)
        <4>1. PICK next, statement : next \in Locking /\ LockdownStep(p, statement, next)
          BY <3>3 DEF PgLockdown, Locking
        <4>2. next \notin Undoing
          BY <4>1 DEF Locking, Undoing
        <4> QED
          BY <1>0, <1>2, <3>1, <3>2, <4>1, <4>2 DEF LockdownStep, SqlCall, Call
      <3>4. CASE PgGrant(p)
        BY <1>0, <1>2, <3>1, <3>2, <3>4 DEF PgGrant, SqlCall, Call, Undoing
      <3> QED
        BY <1>7, <3>3, <3>4
    <2>2. /\ SameNotes(p) /\ job'[p].userMade = job[p].userMade /\ job'[p].dbMade = job[p].dbMade
          /\ pc'[p] = next \/ (pc'[p] = "pgUndoDatabase" /\ faults' = MaxFaults)
      BY <1>1, <2>1, NoteMade
    <2>3. /\ role' = role /\ owner' = owner
          /\ \A other \in Databases \ {d} : access'[Pg][other] = access[Pg][other]
      BY <1>4, <2>1 DEF Harden, GrantAccess, sqlVars, Accesses, PgCalls
    <2>4. pc'[p] \notin {"checkUser", "pgUser", "myDatabase", "myUser", "pgDatabase", "pgUndoUser",
                         "myUndoDatabase", "myUndoUser"}
      BY <1>7, <2>2, StoreTypes, <1>1 DEF PgLockdown, LockdownStep, PgGrant, SqlCall, Call, Goto
    <2> QED
      BY <1>3, <1>4, <2>1, <2>2, <2>3, <2>4 DEF Exact, At, Undoing, PgCalls, Locking, Pg
  <1>8. CASE PgUndoDatabase(p)
    <2>1. pc[p] = "pgUndoDatabase" /\ faults = MaxFaults
      BY <1>1, <1>8 DEF PgUndoDatabase, At, Exact, Undoing
    <2>2. /\ Goto(p, "pgUndoUser") /\ faults' = MaxFaults
          /\ \/ DropDb(Pg, d)
             \/ UNCHANGED sqlVars /\ ~job[p].dbMade
      BY <1>0, <1>2, <1>8, <2>1 DEF PgUndoDatabase, SqlCall, Call, Local, sqlVars
    <2>3. /\ SameNotes(p) /\ pc'[p] = "pgUndoUser" /\ job'[p].userMade = job[p].userMade
      BY <1>1, <2>2, NoteMade
    <2>4. /\ role' = role /\ owner'[Pg][d] = Absent
          /\ \A other \in Databases \ {d} :
                owner'[Pg][other] = owner[Pg][other] /\ access'[Pg][other] = access[Pg][other]
      BY <1>4, <2>1, <2>2 DEF DropDb, sqlVars, Owners, Accesses, PgCalls
    <2> QED
      BY <1>3, <1>4, <2>1, <2>2, <2>3, <2>4 DEF Exact, At, Undoing, PgCalls, Pg
  <1>9. CASE PgUndoUser(p) \/ PgDropDatabase(p) \/ PgDropUser(p)
    <2>1. pc'[p] \in {"failed", "pgDropUser", "listSecrets"}
      BY <1>1, <1>9, NoteMade DEF PgUndoUser, PgDropDatabase, PgDropUser, SqlCall, Call, Local
    <2> QED
      BY <2>1 DEF PgCalls, MyCalls, Locking
  <1> QED
    BY <1>5, <1>6, <1>7, <1>8, <1>9 DEF PgStep

LEMMA MyExact ==
    ASSUME RollbackInv, OneRefusal, NEW p \in Invocations, Active(p), MyStep(p),
           pc'[p] \in PgCalls \cup MyCalls \cup {"checkUser"}
    PROVE  Exact(p)'
  <1>0. PICK d, u : d = DbOf(p) /\ u = UserOf(p)
    OBVIOUS
  <1>1. LeftInv /\ SerialFacts(p) /\ Exact(p) /\ NoAdoption
    BY DEF RollbackInv, SerialInv, OneRefusal
  <1>2. /\ ~Fault("lost")
        /\ Fault("refused") => faults # MaxFaults /\ faults' = MaxFaults
    BY <1>1, LastFault
  <1>3. ASSUME SameNotes(p)
        PROVE  Engine(p)' = Engine(p) /\ DbOf(p)' = d /\ UserOf(p)' = u
    BY <1>0, <1>3, SameNames DEF SameNotes
  <1>4. ASSUME pc[p] \in MyCalls
        PROVE  /\ Engine(p) = My /\ d \in Databases /\ u \in Users /\ My \in Engines
               /\ role \in Roles /\ owner \in Owners
               /\ ~job[p].dbThere /\ ~job[p].userThere
               /\ ~job[p].dbMade => owner[My][d] = Absent
               /\ ~job[p].userMade => role[My][u] = Absent
               /\ pc[p] \in WithUser => role[My][u] = p
               /\ p # Absent
    BY <1>0, <1>1, <1>4, StoreTypes, OnEngine, NothingFound
    DEF LeftInv, Changing, My, Engines, Exact, SerialFacts, Made
  <1>5. CASE MyDatabase(p)
    <2>1. /\ pc[p] = "myDatabase" /\ ~job[p].userMade /\ ~job[p].dbMade
      BY <1>1, <1>5 DEF MyDatabase, At, Exact
    <2>2. \/ /\ CreateDb(My, d, Admin)
             /\ GotoWith(p, "myUser", [job[p] EXCEPT !.dbMade = TRUE])
          \/ UNCHANGED sqlVars /\ Goto(p, "myUndoUser") /\ faults' = MaxFaults
      BY <1>0, <1>2, <1>4, <1>5, <2>1 DEF MyDatabase, SqlCall, Call, DbExists, MyCalls
    <2>3. CASE /\ CreateDb(My, d, Admin)
               /\ GotoWith(p, "myUser", [job[p] EXCEPT !.dbMade = TRUE])
      <3>1. /\ SameNotes(p) /\ pc'[p] = "myUser" /\ job'[p].dbMade /\ ~job'[p].userMade
        BY <1>1, <2>1, <2>3, NoteMade
      <3>2. role' = role
        BY <2>3 DEF CreateDb
      <3> QED
        BY <1>3, <1>4, <2>1, <3>1, <3>2 DEF Exact, At, Undoing, PgCalls, MyCalls, Locking, My
    <2>4. CASE UNCHANGED sqlVars /\ Goto(p, "myUndoUser") /\ faults' = MaxFaults
      <3>1. /\ SameNotes(p) /\ pc'[p] = "myUndoUser" /\ ~job'[p].userMade /\ ~job'[p].dbMade
        BY <1>1, <2>1, <2>4, NoteMade
      <3> QED
        BY <1>3, <1>4, <2>1, <2>4, <3>1 DEF Exact, At, Undoing, PgCalls, MyCalls, Locking, My, sqlVars
    <2> QED
      BY <2>2, <2>3, <2>4
  <1>6. CASE MyUser(p)
    <2>1. /\ pc[p] = "myUser" /\ ~job[p].userMade
      BY <1>1, <1>6 DEF MyUser, At, Exact
    <2>2. \/ /\ SetPassword(My, u, p)
             /\ GotoWith(p, "myGrant", [job[p] EXCEPT !.userMade = TRUE])
          \/ UNCHANGED sqlVars /\ Goto(p, "myUndoUser") /\ faults' = MaxFaults
      BY <1>0, <1>2, <1>4, <1>6, <2>1 DEF MyUser, SqlCall, Call, RoleExists, MyCalls
    <2>3. CASE /\ SetPassword(My, u, p)
               /\ GotoWith(p, "myGrant", [job[p] EXCEPT !.userMade = TRUE])
      <3>1. /\ SameNotes(p) /\ pc'[p] = "myGrant" /\ job'[p].userMade /\ job'[p].dbMade = job[p].dbMade
        BY <1>1, <2>3, NoteMade
      <3>2. owner' = owner
        BY <2>3 DEF SetPassword
      <3> QED
        BY <1>3, <1>4, <2>1, <3>1, <3>2 DEF Exact, At, Undoing, PgCalls, MyCalls, Locking, My
    <2>4. CASE UNCHANGED sqlVars /\ Goto(p, "myUndoUser") /\ faults' = MaxFaults
      <3>1. /\ SameNotes(p) /\ pc'[p] = "myUndoUser" /\ ~job'[p].userMade
            /\ job'[p].dbMade = job[p].dbMade
        BY <1>1, <2>1, <2>4, NoteMade
      <3> QED
        BY <1>3, <1>4, <2>1, <2>4, <3>1 DEF Exact, At, Undoing, PgCalls, MyCalls, Locking, My, sqlVars
    <2> QED
      BY <2>2, <2>3, <2>4
  <1>7. CASE MyGrant(p) \/ MyFlush(p)
    <2>1. /\ pc[p] \in {"myGrant", "myFlush"} /\ role' = role /\ owner' = owner
          /\ \/ \E next \in {"myFlush", "provisioned"} : Goto(p, next)
             \/ Goto(p, "myUndoUser") /\ faults' = MaxFaults
      <3>1. pc[p] \in {"myGrant", "myFlush"}
        BY <1>7 DEF MyGrant, MyFlush, At
      <3>2. RoleExists(My, u)
        BY <1>4, <3>1 DEF RoleExists, MyCalls, WithUser
      <3> QED
        BY <1>0, <1>2, <1>7, <3>1, <3>2 DEF MyGrant, MyFlush, SqlCall, Call, Read, GrantAccess, sqlVars
    <2>2. /\ SameNotes(p) /\ job'[p].userMade = job[p].userMade /\ job'[p].dbMade = job[p].dbMade
          /\ \/ pc'[p] \in {"myFlush", "provisioned"}
             \/ pc'[p] = "myUndoUser" /\ faults' = MaxFaults
      BY <1>1, <2>1, NoteMade
    <2> QED
      BY <1>3, <1>4, <2>1, <2>2 DEF Exact, At, Undoing, PgCalls, MyCalls, Locking, My
  <1>8. CASE MyUndoUser(p)
    <2>1. pc[p] = "myUndoUser" /\ faults = MaxFaults
      BY <1>1, <1>8 DEF MyUndoUser, At, Exact, Undoing
    <2>2. /\ Goto(p, "myUndoDatabase") /\ faults' = MaxFaults
          /\ \/ DropRole(My, u)
             \/ UNCHANGED sqlVars /\ ~job[p].userMade
      BY <1>0, <1>2, <1>8, <2>1 DEF MyUndoUser, SqlCall, Call, Local, sqlVars
    <2>3. /\ SameNotes(p) /\ pc'[p] = "myUndoDatabase" /\ job'[p].dbMade = job[p].dbMade
      BY <1>1, <2>2, NoteMade
    <2>4. owner' = owner /\ role'[My][u] = Absent
      BY <1>4, <2>1, <2>2 DEF DropRole, sqlVars, Roles, MyCalls
    <2> QED
      BY <1>3, <1>4, <2>1, <2>2, <2>3, <2>4 DEF Exact, At, Undoing, PgCalls, MyCalls, Locking, My
  <1>9. CASE MyUndoDatabase(p) \/ MyDropUser(p) \/ MyDropDatabase(p) \/ MyFlushDrop(p)
    <2>1. pc'[p] \in {"failed", "myDropDatabase", "myFlushDrop", "listSecrets"}
      BY <1>1, <1>9, NoteMade DEF MyUndoDatabase, MyDropUser, MyDropDatabase, MyFlushDrop, SqlCall, Call,
         Local, Read
    <2> QED
      BY <2>1 DEF PgCalls, MyCalls, Locking
  <1> QED
    BY <1>5, <1>6, <1>7, <1>8, <1>9 DEF MyStep

\* The two queries that come before the adapter's statements.
LEMMA CheckExact ==
    ASSUME RollbackInv, RouteInv', OneRefusal, NEW p \in Invocations, Active(p),
           CheckDatabase(p) \/ CheckUser(p), pc'[p] \in PgCalls \cup MyCalls \cup {"checkUser"}
    PROVE  Exact(p)'
  <1>0. /\ LeftInv /\ References /\ NoAdoption /\ Exact(p) /\ ~Request(p).adopt
        /\ job \in [Invocations -> Job] /\ pc \in [Invocations -> Steps] /\ job[p] \in Job
        /\ role \in Roles /\ owner \in Owners
    BY NothingFound, StoreTypes DEF RollbackInv, SerialInv, OneRefusal
  <1>1. Routed(pc'[p], job'[p]) /\ Noted(pc'[p], job'[p])
    BY DEF RouteInv
  <1>2. ASSUME job'[p].req = job[p].req, job'[p].engine = job[p].engine, job'[p].seen = job[p].seen
        PROVE  /\ Engine(p)' = Engine(p) /\ DbOf(p)' = DbOf(p) /\ UserOf(p)' = UserOf(p)
               /\ Engine(p) \in Engines /\ DbOf(p) \in Databases /\ UserOf(p) \in Users
    <2>1. Engine(p)' = Engine(p) /\ DbOf(p)' = DbOf(p) /\ UserOf(p)' = UserOf(p)
      BY <1>2, SameNames
    <2>2. DbFor(job'[p]) = DbOf(p) /\ UserFor(job'[p]) = UserOf(p)
      BY <1>2 DEF DbFor, UserFor, DbOf, UserOf, Request
    <2> QED
      BY <1>1, <1>2, <2>1, <2>2 DEF Routed, Engine, Changing
  <1>3. CASE CheckDatabase(p)
    <2>1. /\ UNCHANGED sqlVars
          /\ GotoWith(p, "checkUser", [job[p] EXCEPT !.dbThere = DbExists(Engine(p), DbOf(p))])
      BY <1>0, <1>3 DEF CheckDatabase, Read, Goto, sqlVars, PgCalls, MyCalls, Locking
    <2>2. /\ pc'[p] = "checkUser"
          /\ job'[p].req = job[p].req /\ job'[p].engine = job[p].engine /\ job'[p].seen = job[p].seen
          /\ job'[p].dbThere = DbExists(Engine(p), DbOf(p))
      BY <1>0, <2>1 DEF GotoWith, Job
    <2> QED
      BY <1>2, <2>1, <2>2 DEF Exact, At, Undoing, PgCalls, MyCalls, Locking, DbExists, sqlVars
  <1>4. CASE CheckUser(p)
    <2>1. /\ UNCHANGED sqlVars /\ pc[p] = "checkUser"
          /\ ~job[p].dbThere /\ ~RoleExists(Engine(p), UserOf(p))
          /\ GotoWith(p, FirstStatement[Engine(p)],
                      [job[p] EXCEPT !.userThere = RoleExists(Engine(p), UserOf(p))])
      BY <1>0, <1>4 DEF CheckUser, Read, Goto, At, sqlVars, PgCalls, MyCalls, Locking
    <2>2. /\ pc'[p] = FirstStatement[Engine(p)]
          /\ job'[p].req = job[p].req /\ job'[p].engine = job[p].engine /\ job'[p].seen = job[p].seen
          /\ job'[p].dbMade = job[p].dbMade /\ job'[p].userMade = job[p].userMade
      BY <1>0, <2>1 DEF GotoWith, Job
    <2>3. ~job[p].dbMade /\ ~job[p].userMade
      BY <1>0, <2>1, Locals DEF LeftInv, Noted
    <2>4. /\ owner[Engine(p)][DbOf(p)] = Absent /\ role[Engine(p)][UserOf(p)] = Absent
          /\ \/ pc'[p] = "pgUser" /\ Engine(p) = "postgres"
             \/ pc'[p] = "myDatabase"
      BY <1>0, <1>2, <2>1, <2>2 DEF Exact, At, RoleExists, FirstStatement, Engines
    <2>5. Engine(p) = "postgres" => \A other \in Databases :
            owner[Engine(p)][other] # UserOf(p) /\ UserOf(p) \notin access[Engine(p)][other]
      BY <1>0, <1>2, <2>2, <2>4 DEF References
    <2> QED
      BY <1>2, <2>1, <2>2, <2>3, <2>4, <2>5 DEF Exact, At, Undoing, PgCalls, MyCalls, Locking, sqlVars
  <1> QED
    BY <1>3, <1>4

\* No other step goes to a call of an adapter.
LEMMA ToCalls ==
    ASSUME RouteInv, NEW p \in Invocations, Step(p), pc'[p] \in PgCalls \cup MyCalls \cup {"checkUser"}
    PROVE  CheckDatabase(p) \/ CheckUser(p) \/ PgStep(p) \/ MyStep(p)
  <1>0. pc \in [Invocations -> Steps]
    BY DEF RouteInv, TypeInv, TypeOK
  <1>1. ~ResolveStep(p)
    <2>1. Confirm(p) => AfterConfirm(p) \in {"prepare", "resolveAgain", "pgDropDatabase", "myDropUser"}
      <3>1. At(p, "confirm") => Engine(p) \in Engines
        BY WorkingEngine DEF At, Finished, RouteInv
      <3> QED
        BY <3>1, CommandCases DEF Confirm, AfterConfirm, FirstDrop, Engines, RouteInv
    <2> QED
      BY <1>0, <2>1 DEF ResolveStep, Resolve, Confirm, Decline, Read, Local, Goto, GotoWith,
         PgCalls, MyCalls, Locking
  <1>2. ~DeleteStep(p)
    BY <1>0 DEF DeleteStep, ListSecrets, Erase, DeleteFolder, VaultCall, Call, Read, Goto, GotoWith,
       PgCalls, MyCalls, Locking
  <1>3. ~RotateStep(p)
    BY <1>0 DEF RotateStep, ResolveAgain, Alter, Record, Verify, Restore, PrintRotated, RotatePassword,
       AfterRecordFailed, SqlCall, VaultCall, Call, Read, Local, Goto, GotoWith, PgCalls, MyCalls, Locking
  <1>4. ProvisionStep(p) => CheckDatabase(p) \/ CheckUser(p)
    BY <1>0 DEF ProvisionStep, Prepare, CreateFolder, FolderExists, Inspect, Provisioned, Sync, SyncDone,
       PrintCredentials, PrintsPassword, VaultCall, Call, Read, Local, Goto, GotoWith,
       PgCalls, MyCalls, Locking
  <1> QED
    BY <1>1, <1>2, <1>3, <1>4 DEF Step

LEMMA RollbackInvInductive ==
    ASSUME RollbackInv, OneRefusal, [Next]_vars
    PROVE  RollbackInv'
  <1>0. /\ SerialInv' /\ References' /\ LeftInv /\ RouteInv /\ RouteInv'
        /\ job \in [Invocations -> Job] /\ pc \in [Invocations -> Steps]
    BY SerialInvInductive, ReferencesKept, RouteInvInductive
    DEF RollbackInv, OneRefusal, SerialInv, LeftInv, RouteInv, TypeInv, TypeOK
  <1>1. CASE UNCHANGED vars
    <2>1. pc' = pc /\ job' = job /\ UNCHANGED sqlVars /\ faults' = faults
      BY <1>1 DEF vars, sqlVars
    <2>2. ASSUME NEW p \in Invocations, Active(p)'
          PROVE  Exact(p)'
      <3>1. Exact(p)
        BY <2>1, <2>2 DEF RollbackInv, Active
      <3>2. Engine(p)' = Engine(p) /\ DbOf(p)' = DbOf(p) /\ UserOf(p)' = UserOf(p)
        BY <2>1, SameNames
      <3> QED
        BY <2>1, <3>1, <3>2 DEF Exact, At, sqlVars
    <2> QED
      BY <1>0, <2>2 DEF RollbackInv
  <1>2. ASSUME NEW p \in Invocations, Step(p) \/ Crash(p) \/ \E r \in Requests : Start(p, r)
        PROVE  RollbackInv'
    <2>1. ASSUME pc'[p] \in PgCalls \cup MyCalls \cup {"checkUser"}
          PROVE  Exact(p)'
      <3>1. Step(p)
        BY <1>0, <1>2, <2>1 DEF Crash, Start, Local, Goto, GotoWith, FirstStep, PgCalls, MyCalls, Locking
      <3> QED
        BY <1>0, <2>1, <3>1, ToCalls, CheckExact, PgExact, MyExact, StepKeeps
    <2>2. ASSUME pc'[p] \notin PgCalls \cup MyCalls \cup {"checkUser"}
          PROVE  Exact(p)'
      BY <2>2 DEF Exact, At, PgCalls, MyCalls, Undoing
    <2>3. \A q \in Invocations \ {p} : ~Active(q)
      BY <1>0, <1>2, StepKeeps DEF Start, Crash, RollbackInv, SerialInv, Alone, OneRefusal
    <2>4. \E l, j : GotoWith(p, l, j)
      BY <1>0, <1>2, PgFollows, MyFollows, ProvisionFollows, ResolveFollows, RotateFollows, DeleteFollows,
         StartFollows, CrashFollows DEF Step, Follows
    <2>5. \A q \in Invocations \ {p} : ~Active(q)'
      BY <1>0, <2>3, <2>4 DEF GotoWith, Active
    <2> QED
      BY <1>0, <2>1, <2>2, <2>5 DEF RollbackInv
  <1> QED
    BY <1>1, <1>2 DEF Next

LEMMA RollbackInvariance ==
    ASSUME OneRefusal
    PROVE  Spec => []RollbackInv
  <1>1. Init => RollbackInv
    <2>1. Init => SerialInv
      BY RouteInit DEF Init, SerialInv, LeftInv, Alone, Active, At
    <2>2. Init => References
      BY FirstStatesAssumption DEF Init, References
    <2>3. Init => \A p \in Invocations : ~Active(p)
      BY DEF Init, Active
    <2> QED
      BY <2>1, <2>2, <2>3 DEF RollbackInv
  <1>2. RollbackInv /\ [Next]_vars => RollbackInv'
    BY RollbackInvInductive
  <1> QED
    BY <1>1, <1>2, PTL DEF Spec

\* The last statement of a rollback leaves nothing that the run has made.
LEMMA Undone ==
    ASSUME RollbackInv, OneRefusal, [Next]_vars, NEW p \in Invocations, Ends(p, "failed"),
           pc[p] \in {"pgUndoUser", "myUndoDatabase"}
    PROVE  owner'[Engine(p)][DbOf(p)] = Absent /\ role'[Engine(p)][UserOf(p)] = Absent
  <1>1. /\ LeftInv /\ RouteInv /\ References /\ Step(p) /\ Active(p) /\ Exact(p)
    BY EndsByStep DEF RollbackInv, SerialInv, LeftInv, Finished
  <1>2. ~Fault("lost") /\ (Fault("refused") => faults # MaxFaults)
    BY <1>1, LastFault
  <1>3. /\ role \in Roles /\ owner \in Owners
        /\ Engine(p) \in Engines /\ DbOf(p) \in Databases /\ UserOf(p) \in Users
        /\ Absent \notin Users /\ faults = MaxFaults
        /\ ~job[p].dbMade => owner[Engine(p)][DbOf(p)] = Absent
        /\ ~job[p].userMade => role[Engine(p)][UserOf(p)] = Absent
    BY <1>1, StoreTypes DEF Changing, PgCalls, MyCalls, Exact, Undoing
  <1>4. CASE pc[p] = "pgUndoUser"
    <2>1. PgUndoUser(p)
      BY <1>1, <1>4 DEF Step, PgStep, PgUser, PgDatabase, PgLockdown, LockdownStep, PgGrant,
         PgUndoDatabase, PgDropDatabase, PgDropUser, MyStep, MyDatabase, MyUser, MyGrant, MyFlush,
         MyUndoUser, MyUndoDatabase, MyDropUser, MyDropDatabase, MyFlushDrop, ProvisionStep, Prepare,
         CreateFolder, FolderExists, Inspect, CheckDatabase, CheckUser, Provisioned, Sync, SyncDone,
         PrintCredentials, PrintsPassword, ResolveStep, Resolve, Confirm, Decline, RotateStep,
         ResolveAgain, Alter, Record, Verify, Restore, PrintRotated, DeleteStep, ListSecrets, Erase,
         DeleteFolder, At
    <2>2. Engine(p) = Pg /\ owner[Pg][DbOf(p)] = Absent
      BY <1>1, <1>4, OnEngine DEF PgCalls, Pg, Exact, At
    <2>3. RoleIsFree(UserOf(p))
      <3>1. PICK u : u = UserOf(p)
        OBVIOUS
      <3>2. \A d \in Databases : d # DbOf(p) => owner["postgres"][d] # u /\ u \notin access["postgres"][d]
        BY <1>1, <1>4, <2>2, <3>1 DEF Exact, PgCalls, Pg
      <3>3. u # Absent /\ owner["postgres"][DbOf(p)] = Absent /\ access["postgres"][DbOf(p)] = {}
        BY <1>1, <1>3, <2>2, <3>1 DEF References, Pg
      <3> QED
        BY <3>1, <3>2, <3>3 DEF RoleIsFree
    <2>4. \/ DropRole(Pg, UserOf(p))
          \/ UNCHANGED sqlVars /\ role[Pg][UserOf(p)] = Absent
      BY <1>2, <1>3, <2>1, <2>2, <2>3 DEF PgUndoUser, SqlCall, Call, Local, sqlVars
    <2> QED
      BY <1>3, <2>2, <2>4 DEF DropRole, sqlVars, Roles, Pg
  <1>5. CASE pc[p] = "myUndoDatabase"
    <2>1. MyUndoDatabase(p)
      BY <1>1, <1>5 DEF Step, PgStep, PgUser, PgDatabase, PgLockdown, LockdownStep, PgGrant,
         PgUndoDatabase, PgUndoUser, PgDropDatabase, PgDropUser, MyStep, MyDatabase, MyUser, MyGrant,
         MyFlush, MyUndoUser, MyDropUser, MyDropDatabase, MyFlushDrop, ProvisionStep, Prepare,
         CreateFolder, FolderExists, Inspect, CheckDatabase, CheckUser, Provisioned, Sync, SyncDone,
         PrintCredentials, PrintsPassword, ResolveStep, Resolve, Confirm, Decline, RotateStep,
         ResolveAgain, Alter, Record, Verify, Restore, PrintRotated, DeleteStep, ListSecrets, Erase,
         DeleteFolder, At
    <2>2. Engine(p) = My /\ role[My][UserOf(p)] = Absent
      BY <1>1, <1>5, OnEngine DEF MyCalls, My, Exact, At
    <2>3. \/ DropDb(My, DbOf(p))
          \/ UNCHANGED sqlVars /\ owner[My][DbOf(p)] = Absent
      BY <1>2, <1>3, <2>1, <2>2 DEF MyUndoDatabase, SqlCall, Call, Local, sqlVars
    <2> QED
      BY <1>3, <2>2, <2>3 DEF DropDb, sqlVars, Owners, My
  <1> QED
    BY <1>4, <1>5

\* Operators who wait for each other, nothing adopted, and at most one fault,
\* which is no lost answer: a run that fails in its adapter leaves neither a
\* database nor a user behind that it did not find (the deferred cleanup of
\* either adapter's Provision).
THEOREM RollbackLeavesNothing ==
    ASSUME OneRefusal
    PROVE  Spec => RollbackIsExact
  <1>1. RollbackInv /\ [Next]_vars =>
            [\A p \in Invocations :
                Ends(p, "failed") /\ pc[p] \in {"pgUndoUser", "myUndoDatabase"} /\ faults' <= 1 =>
                    /\ ~job[p].dbThere => owner'[Engine(p)][DbOf(p)] = Absent
                    /\ ~job[p].userThere => role'[Engine(p)][UserOf(p)] = Absent]_vars
    BY Undone
  <1> QED
    BY <1>1, RollbackInvariance, PTL DEF Spec, RollbackIsExact

----------------------------------------------------------------------------
(* Refusals only, at most one, and apps resolved by what is recorded of     *)
(* them alone: no generated password is ever lost.                          *)

OnlyRefusals ==
    /\ OneRefusal /\ FaultKinds \subseteq {"refused"}
    /\ \A r \in Requests : r.cmd # "provision" => r.engine = ""

\* The steps at which a run's password may be live already.
Held == PgCalls \cup MyCalls \cup Ending \cup {"record", "verify", "restore", "printRotated"}

Unused(p) ==
    /\ \A e \in Engines, u \in Users : role[e][u] # p
    /\ \A s \in Sites : secrets[s]["DB_PASSWORD"] # p

\* Recorded with the user and the engine it is live for.
Vouched(e, u, password) ==
    \E s \in Sites :
        /\ secrets[s]["DB_PASSWORD"] = password
        /\ secrets[s]["DB_USER"] = u /\ secrets[s]["DB_TYPE"] = e

\* The record of an app that is being rotated, or deleted, names the user and
\* the engine the run works on, as far as it is there.
Naming(p) ==
    LET s == Site(p)
    IN  /\ Request(p).cmd = "rotate" /\ pc[p] \in {"confirm"} \cup Rotating =>
            secrets[s]["DB_USER"] = UserOf(p) /\ secrets[s]["DB_TYPE"] = Engine(p)
        /\ Request(p).cmd = "delete" /\ pc[p] # "resolve" =>
            /\ secrets[s]["DB_USER"] \in {UserOf(p), Absent}
            /\ secrets[s]["DB_TYPE"] \in {Engine(p), Absent}

InHand(p) ==
    /\ \A e \in Engines, u \in Users : role[e][u] = p => e = Engine(p) /\ u = UserOf(p)
    /\ pc[p] \notin Held => Unused(p)
    /\ Naming(p)

KeptInv ==
    /\ RollbackInv /\ DropInv
    /\ \A e \in Engines, u \in Users : \A p \in Invocations : role[e][u] = p =>
        p \in shown \/ Active(p) \/ Vouched(e, u, p)
    /\ \A p \in Invocations : At(p, "idle") => Unused(p)
    /\ \A p \in Invocations : Active(p) => InHand(p)

\* What the lemmas below take from the invariant.
LEMMA KeptFacts ==
    ASSUME KeptInv, OnlyRefusals, NEW p \in Invocations, Active(p)
    PROVE  /\ LeftInv /\ RouteInv /\ OneRefusal /\ SerialFacts(p) /\ Exact(p) /\ InHand(p) /\ Cleared(p)
           /\ \A q \in Invocations \ {p} : ~Active(q)
           /\ ~Fault("lost")
           /\ role \in Roles /\ secrets \in [Sites -> SecretMaps] /\ Site(p) \in Sites
           /\ p # Absent /\ Absent \notin Users /\ Absent \notin Engines
           /\ Provisioning(p) => \A k \in ContractKeys : job[p].seen[k] = Absent
  <1>1. /\ LeftInv /\ RouteInv /\ OneRefusal /\ SerialFacts(p) /\ Exact(p) /\ InHand(p) /\ Cleared(p)
        /\ \A q \in Invocations \ {p} : ~Active(q)
    BY DEF KeptInv, RollbackInv, SerialInv, LeftInv, DropInv, OnlyRefusals, OneRefusal, Alone
  <1>2. Provisioning(p) => \A k \in ContractKeys : job[p].seen[k] = Absent
    <2>1. ~Request(p).adopt
      BY <1>1, NothingFound DEF OneRefusal
    <2> QED
      BY <1>1, <2>1, Locals DEF Noted, Provisioning
  <1>3. Absent \notin Engines
    BY NamesAssumption DEF Values
  <1> QED
    BY <1>1, <1>2, <1>3, LastFault, StoreTypes

\* The only passwords a step sets, and where.
LEMMA Sets ==
    ASSUME LeftInv, NEW p \in Invocations, Step(p), NEW e \in Engines, NEW u \in Users,
           role'[e][u] # role[e][u]
    PROVE  /\ e = Engine(p) /\ u = UserOf(p)
           /\ \/ role'[e][u] = Absent
              \/ role'[e][u] = p /\ pc[p] \in {"pgUser", "myUser", "alter"}
              \/ role'[e][u] = OldPassword(p) /\ At(p, "restore")
  <1>0. role \in Roles /\ RouteInv
    BY StoreTypes
  <1>1. SqlWrite(p)
    BY <1>0, Writes
  <1>2. PICK engine, user : engine = Engine(p) /\ user = UserOf(p)
    OBVIOUS
  <1>3. \/ role' = role
        \/ SetPassword(engine, user, p) /\ pc[p] \in {"pgUser", "myUser", "alter"}
        \/ SetPassword(engine, user, OldPassword(p)) /\ At(p, "restore")
        \/ DropRole(engine, user)
    BY <1>1, <1>2 DEF SqlWrite, sqlVars, CreateDb, SetOwner, Harden, GrantAccess, DropDb, At
  <1>4. CASE \E pw : SetPassword(engine, user, pw)
    <2>1. PICK pw : SetPassword(engine, user, pw)
      BY <1>4
    <2>2. e = engine /\ u = user
      BY <1>0, <2>1 DEF SetPassword, Roles
    <2>3. \A any : SetPassword(engine, user, any) => role'[e][u] = any
      BY <1>0, <2>2 DEF SetPassword, Roles
    <2>4. DropRole(engine, user) => role'[e][u] = Absent
      BY <1>0, <2>2 DEF DropRole, Roles
    <2> QED
      BY <1>2, <1>3, <2>2, <2>3, <2>4
  <1>5. CASE DropRole(engine, user)
    BY <1>0, <1>2, <1>5 DEF DropRole, Roles
  <1> QED
    BY <1>3, <1>4, <1>5

\* The only keys of the contract it changes: a sync creates what is absent, a
\* rotation records its password, a delete erases.
LEMMA Rewrites ==
    ASSUME KeptInv, OnlyRefusals, NEW p \in Invocations, Step(p), NEW s \in Sites, NEW k \in ContractKeys,
           secrets'[s][k] # secrets[s][k]
    PROVE  /\ s = Site(p)
           /\ \/ At(p, "sync") /\ secrets[s][k] = Absent /\ secrets'[s][k] = Desired(p)[k]
              \/ At(p, "record") /\ k = "DB_PASSWORD" /\ secrets'[s][k] = p
              \/ At(p, "erase") /\ secrets'[s][k] = Absent
  <1>0. /\ LeftInv /\ RouteInv /\ secrets \in [Sites -> SecretMaps] /\ Site(p) \in Sites
        /\ Provisioning(p) => \A key \in ContractKeys : job[p].seen[key] = Absent
        /\ k \in Keys
    BY KeptFacts, StepKeeps DEF KeptInv, DropInv, Keys
  <1>1. PICK site, next : site = Site(p) /\ next = NextOperation(Plan(p), job[p].left)
    OBVIOUS
  <1>2. \/ UNCHANGED secrets
        \/ /\ At(p, "sync") /\ job[p].left # {}
           /\ IF next \in Plan(p).creates THEN CanCreate(site, next) ELSE CanUpdate(site, next)
           /\ Put(site, next, Desired(p)[next])
        \/ At(p, "record") /\ Put(site, "DB_PASSWORD", p)
        \/ At(p, "erase") /\ \E key \in Keys : Put(site, key, Absent)
        \/ At(p, "erase") /\ RemoveFolder(site)
    BY <1>0, <1>1, Writes DEF VaultWrite, vaultVars, MakeFolder
  <1>3. CASE /\ At(p, "sync") /\ job[p].left # {}
             /\ IF next \in Plan(p).creates THEN CanCreate(site, next) ELSE CanUpdate(site, next)
             /\ Put(site, next, Desired(p)[next])
    <2>1. next \in Touched(Plan(p)) /\ next \in ContractKeys
      BY <1>0, <1>1, <1>3, NextOfPlan
    <2>2. Provisioning(p)
      BY <1>0, <1>3, OnEngine DEF At, Changing, Ending
    <2>3. next \in Plan(p).creates
      BY <1>0, <2>1, <2>2 DEF Touched, Plan, PlanSecretSync
    <2>4. secrets[site][next] = Absent
      BY <1>3, <2>3 DEF CanCreate
    <2>5. s = site /\ k = next /\ secrets'[s][k] = Desired(p)[k]
      BY <1>0, <1>1, <1>3 DEF Put, SecretMaps
    <2> QED
      BY <1>1, <1>3, <2>4, <2>5
  <1>4. CASE At(p, "record") /\ Put(site, "DB_PASSWORD", p)
    BY <1>0, <1>1, <1>4 DEF Put, SecretMaps
  <1>5. CASE At(p, "erase") /\ \E key \in Keys : Put(site, key, Absent)
    BY <1>0, <1>1, <1>5 DEF Put, SecretMaps
  <1>6. CASE At(p, "erase") /\ RemoveFolder(site)
    BY <1>0, <1>1, <1>6 DEF RemoveFolder, SecretMaps
  <1> QED
    BY <1>2, <1>3, <1>4, <1>5, <1>6

\* What p does leaves the password of another run that is over where it was,
\* or drops its user, or sets the password p resolved.
LEMMA OthersKept ==
    ASSUME KeptInv, OnlyRefusals, NEW p \in Invocations, Step(p), shown \subseteq shown',
           NEW e \in Engines, NEW u \in Users, NEW q \in Invocations \ {p}, role'[e][u] = q
    PROVE  q \in shown' \/ Vouched(e, u, q)'
  <1>0. /\ Active(p) /\ LeftInv /\ SerialFacts(p) /\ InHand(p) /\ Cleared(p) /\ ~Active(q)
        /\ q # Absent /\ u # Absent /\ e # Absent /\ Site(p) \in Sites
        /\ {"DB_PASSWORD", "DB_USER", "DB_TYPE"} \subseteq ContractKeys
        /\ RouteInv
    <2>1. q # Absent
      BY NamesAssumption DEF Values, Passwords
    <2> QED
      BY <2>1, KeptFacts, StepKeeps DEF KeptInv, DropInv, ContractKeys
  <1>1. CASE role[e][u] = q
    <2>1. SUFFICES ASSUME Vouched(e, u, q)
                   PROVE  Vouched(e, u, q)'
      BY <1>0, <1>1 DEF KeptInv
    <2>2. PICK s \in Sites : /\ secrets[s]["DB_PASSWORD"] = q
                             /\ secrets[s]["DB_USER"] = u /\ secrets[s]["DB_TYPE"] = e
      BY <2>1 DEF Vouched
    <2>3. ASSUME NEW k \in {"DB_PASSWORD", "DB_USER", "DB_TYPE"}
          PROVE  secrets'[s][k] = secrets[s][k]
      <3>1. SUFFICES ASSUME secrets'[s][k] # secrets[s][k]
                     PROVE  FALSE
        OBVIOUS
      <3>2. k \in ContractKeys /\ secrets[s][k] # Absent
        BY <1>0, <2>2
      <3>3. s = Site(p) /\ (At(p, "record") \/ At(p, "erase"))
        BY <3>1, <3>2, Rewrites
      <3>4. CASE At(p, "record")
        <4>1. Request(p).cmd = "rotate"
          BY <1>0, <3>4, OnEngine DEF At, Rotating
        <4>2. u = UserOf(p) /\ e = Engine(p)
          BY <1>0, <2>2, <3>3, <3>4, <4>1 DEF InHand, Naming, At, Rotating
        <4>3. role[e][u] = p
          BY <1>0, <3>4, <4>2 DEF SerialFacts, Rekeyed, At
        <4> QED
          BY <1>1, <4>3
      <3>5. CASE At(p, "erase")
        <4>1. Request(p).cmd = "delete"
          BY <1>0, <3>5, OnEngine DEF At, Dropping
        <4>2. u = UserOf(p) /\ e = Engine(p)
          BY <1>0, <2>2, <3>3, <3>5, <4>1 DEF InHand, Naming, At
        <4>3. ~RoleExists(e, u)
          BY <1>0, <3>5, <4>2 DEF Cleared, At
        <4> QED
          BY <1>0, <1>1, <4>3 DEF RoleExists
      <3> QED
        BY <3>3, <3>4, <3>5
    <2> QED
      BY <2>2, <2>3 DEF Vouched
  <1>2. CASE role[e][u] # q
    <2>1. e = Engine(p) /\ u = UserOf(p) /\ q = OldPassword(p) /\ At(p, "restore")
      BY <1>0, <1>2, Sets
    <2>2. Request(p).cmd = "rotate"
      BY <1>0, <2>1, OnEngine DEF At, Rotating
    <2>3. /\ secrets[Site(p)]["DB_PASSWORD"] = q
          /\ secrets[Site(p)]["DB_USER"] = u /\ secrets[Site(p)]["DB_TYPE"] = e
      BY <1>0, <2>1, <2>2 DEF SerialFacts, Rekeyed, OnlyRefusals, OneRefusal, InHand, Naming, Rotating, At
    <2>4. \A k \in ContractKeys : secrets'[Site(p)][k] = secrets[Site(p)][k]
      BY <1>0, <2>1, Rewrites DEF At
    <2> QED
      BY <1>0, <2>3, <2>4 DEF Vouched
  <1> QED
    BY <1>1, <1>2

\* What the steps change of what a run works on: nothing, but for the three
\* reads that begin it.
LEMMA SameSeen ==
    ASSUME LeftInv, NEW p \in Invocations, Step(p), pc[p] \notin {"resolve", "inspect", "resolveAgain"}
    PROVE  job'[p].req = job[p].req /\ job'[p].engine = job[p].engine /\ job'[p].seen = job[p].seen
  <1> DEFINE Same(j) == j.req = job[p].req /\ j.engine = job[p].engine /\ j.seen = job[p].seen
  <1>0. /\ pc \in [Invocations -> Steps] /\ job \in [Invocations -> Job] /\ job[p] \in Job
        /\ RouteInv /\ TypeInv
    BY StoreTypes DEF LeftInv, RouteInv
  <1>1. \A b : /\ Same([job[p] EXCEPT !.userMade = b]) /\ Same([job[p] EXCEPT !.dbMade = b])
               /\ Same([job[p] EXCEPT !.dbThere = b]) /\ Same([job[p] EXCEPT !.userThere = b])
               /\ Same([job[p] EXCEPT !.left = b])
    BY <1>0, NotesOnly
  <1>2. /\ \A l : Goto(p, l) => Same(job'[p])
        /\ \A l, j : GotoWith(p, l, j) => job'[p] = j
    BY <1>0 DEF Goto, GotoWith
  <1>3. /\ Same([job[p] EXCEPT !.userMade = TRUE]) /\ Same([job[p] EXCEPT !.dbMade = TRUE])
        /\ Same([job[p] EXCEPT !.dbThere = DbExists(Engine(p), DbOf(p))])
        /\ Same([job[p] EXCEPT !.userThere = RoleExists(Engine(p), UserOf(p))])
        /\ Same([job[p] EXCEPT !.left = Touched(Plan(p))])
        /\ Same([job[p] EXCEPT !.left = {k \in Keys : secrets[Site(p)][k] # Absent}])
        /\ \A k : Same([job[p] EXCEPT !.left = job[p].left \ {k}])
    BY <1>1
  <1> HIDE DEF Same
  <1>4. Same(job'[p])
    <2>1. PgStep(p) => Same(job'[p])
      BY <1>2, <1>3 DEF PgStep, PgUser, PgDatabase, PgLockdown, LockdownStep, PgGrant, PgUndoDatabase,
         PgUndoUser, PgDropDatabase, PgDropUser, SqlCall, Call, Local
    <2>2. MyStep(p) => Same(job'[p])
      BY <1>2, <1>3 DEF MyStep, MyDatabase, MyUser, MyGrant, MyFlush, MyUndoUser, MyUndoDatabase,
         MyDropUser, MyDropDatabase, MyFlushDrop, SqlCall, Call, Read, Local
    <2>3. ResolveStep(p) => Same(job'[p])
      BY <1>2 DEF ResolveStep, Resolve, Confirm, Decline, Local, At
    <2>4. RotateStep(p) => Same(job'[p])
      BY <1>2 DEF RotateStep, ResolveAgain, Alter, Record, Verify, Restore, PrintRotated,
         RotatePassword, SqlCall, VaultCall, Call, Local, At
    <2>5. DeleteStep(p) => Same(job'[p])
      BY <1>2, <1>3 DEF DeleteStep, ListSecrets, Erase, DeleteFolder, VaultCall, Call, Read
    <2>6. ProvisionStep(p) => Same(job'[p])
      BY <1>2, <1>3 DEF ProvisionStep, Prepare, CreateFolder, FolderExists, Inspect, CheckDatabase,
         CheckUser, Provisioned, Sync, SyncDone, PrintCredentials, PrintsPassword, VaultCall, Call,
         Read, Local, At
    <2> QED
      BY <2>1, <2>2, <2>3, <2>4, <2>5, <2>6 DEF Step
  <1> QED
    BY <1>4 DEF Same

\* How a run that may hold a live password goes on, or ends.
LEMMA HeldOn ==
    ASSUME KeptInv, OnlyRefusals, NEW p \in Invocations, Step(p), pc[p] \in Held \cup {"alter"}
    PROVE  \/ pc'[p] \in Held \ {"synced", "offline"}
           \/ pc[p] \in {"pgUndoUser", "myUndoDatabase"} /\ pc'[p] = "failed"
           \/ pc'[p] \in Reported
           \/ pc'[p] \in {"failed", "offline"} /\ p \in shown'
           \/ At(p, "alter") /\ pc'[p] = "failed" /\ role' = role
  <1> DEFINE On == \/ pc'[p] \in Held \ {"synced", "offline"}
                   \/ pc[p] \in {"pgUndoUser", "myUndoDatabase"} /\ pc'[p] = "failed"
                   \/ pc'[p] \in Reported
                   \/ pc'[p] \in {"failed", "offline"} /\ p \in shown'
                   \/ At(p, "alter") /\ pc'[p] = "failed" /\ role' = role
  <1>0. pc \in [Invocations -> Steps] /\ RouteInv /\ LeftInv /\ ~Fault("lost")
    BY KeptFacts, StepKeeps, StoreTypes DEF KeptInv, DropInv, RollbackInv, SerialInv
  <1>1. \A l : (Goto(p, l) => pc'[p] = l) /\ \A j : GotoWith(p, l, j) => pc'[p] = l
    BY <1>0 DEF Goto, GotoWith
  <1>2. PgStep(p) => On
    BY <1>0, <1>1 DEF PgStep, PgUser, PgDatabase, PgLockdown, LockdownStep, PgGrant, PgUndoDatabase,
       PgUndoUser, PgDropDatabase, PgDropUser, SqlCall, Call, Local, At, Held, PgCalls, MyCalls, Locking,
       Ending
  <1>3. MyStep(p) => On
    BY <1>0, <1>1 DEF MyStep, MyDatabase, MyUser, MyGrant, MyFlush, MyUndoUser, MyUndoDatabase,
       MyDropUser, MyDropDatabase, MyFlushDrop, SqlCall, Call, Read, Local, At, Held, PgCalls, MyCalls,
       Locking, Ending
  <1>4. ~ResolveStep(p) /\ ~DeleteStep(p)
    BY DEF ResolveStep, Resolve, Confirm, Decline, DeleteStep, ListSecrets, Erase, DeleteFolder, At, Held,
       PgCalls, MyCalls, Locking, Ending
  <1>5. RotateStep(p) => On
    <2>1. Alter(p) => On
      BY <1>0, <1>1 DEF Alter, RotatePassword, SqlCall, Call, sqlVars, At, Held
    <2>2. Record(p) \/ Verify(p) \/ Restore(p) \/ PrintRotated(p) => On
      BY <1>0, <1>1 DEF Record, Verify, Restore, PrintRotated, RotatePassword, AfterRecordFailed, SqlCall,
         VaultCall, Call, Local, At, Held, Reported
    <2> QED
      BY <2>1, <2>2 DEF RotateStep, ResolveAgain, At, Held, PgCalls, MyCalls, Locking, Ending
  <1>6. ProvisionStep(p) => On
    BY <1>0, <1>1 DEF ProvisionStep, Prepare, CreateFolder, FolderExists, Inspect, CheckDatabase,
       CheckUser, Provisioned, Sync, SyncDone, PrintCredentials, PrintsPassword, VaultCall, Call,
       Read, Local, At, Held, PgCalls, MyCalls, Locking, Ending, Reported
  <1> QED
    BY <1>2, <1>3, <1>4, <1>5, <1>6 DEF Step

\* A password that is nowhere yet stays so, until its own run sets it.
LEMMA StaysUnused ==
    ASSUME KeptInv, OnlyRefusals, NEW p \in Invocations, Step(p), NEW q \in Invocations, Unused(q),
           q # p \/ pc[p] \notin {"pgUser", "myUser", "alter", "sync", "record"}
    PROVE  Unused(q)'
  <1>0. /\ LeftInv /\ RouteInv /\ SerialFacts(p) /\ Site(p) \in Sites /\ OneRefusal /\ q # Absent
        /\ "DB_PASSWORD" \in ContractKeys
    <2>1. q # Absent
      BY NamesAssumption DEF Values, Passwords
    <2> QED
      BY <2>1, KeptFacts, StepKeeps DEF KeptInv, DropInv, ContractKeys
  <1>1. ASSUME NEW e \in Engines, NEW u \in Users, role'[e][u] = q
        PROVE  FALSE
    <2>1. role'[e][u] # role[e][u]
      BY <1>1 DEF Unused
    <2>2. q = OldPassword(p) /\ At(p, "restore")
      BY <1>0, <1>1, <2>1, Sets
    <2>3. secrets[Site(p)]["DB_PASSWORD"] = q
      BY <1>0, <2>2 DEF SerialFacts, Rekeyed, OneRefusal
    <2> QED
      BY <1>0, <2>3 DEF Unused
  <1>2. ASSUME NEW s \in Sites, secrets'[s]["DB_PASSWORD"] = q
        PROVE  FALSE
    <2>1. secrets'[s]["DB_PASSWORD"] # secrets[s]["DB_PASSWORD"]
      BY <1>2 DEF Unused
    <2>2. \/ At(p, "sync") /\ secrets'[s]["DB_PASSWORD"] = Desired(p)["DB_PASSWORD"]
          \/ At(p, "record") /\ secrets'[s]["DB_PASSWORD"] = p
          \/ At(p, "erase") /\ secrets'[s]["DB_PASSWORD"] = Absent
      BY <1>0, <2>1, Rewrites
    <2>3. Desired(p)["DB_PASSWORD"] = p
      BY DEF Desired, ToSecrets, ContractKeys, Keys
    <2> QED
      BY <1>0, <1>2, <2>2, <2>3 DEF At
  <1> QED
    BY <1>1, <1>2 DEF Unused

\* The record of an app that is being rotated or deleted goes on naming what the
\* run works on, and resolving it sees to that.
LEMMA NamingKept ==
    ASSUME KeptInv, RouteInv', OnlyRefusals, NEW p \in Invocations, Step(p),
           Active(p)' \/ pc'[p] \in Reported
    PROVE  Naming(p)'
  <1>0. /\ LeftInv /\ RouteInv /\ Active(p) /\ InHand(p) /\ Site(p) \in Sites /\ Absent \notin Engines
        /\ secrets \in [Sites -> SecretMaps] /\ {"DB_USER", "DB_TYPE"} \subseteq Keys
        /\ {"DB_USER", "DB_TYPE"} \subseteq ContractKeys
        /\ pc \in [Invocations -> Steps] /\ job \in [Invocations -> Job] /\ job[p] \in Job
        /\ Absent \notin Values /\ "" # Absent
    <2>1. LeftInv /\ RouteInv
      BY DEF KeptInv, DropInv, RollbackInv, SerialInv
    <2>2. Active(p)
      BY <2>1, StepKeeps
    <2>3. Absent \notin Values /\ "" # Absent
      BY NamesAssumption DEF Values
    <2>4. {"DB_USER", "DB_TYPE"} \subseteq ContractKeys /\ {"DB_USER", "DB_TYPE"} \subseteq Keys
      BY DEF ContractKeys, Keys
    <2> QED
      BY <2>1, <2>2, <2>3, <2>4, KeptFacts, StoreTypes
  <1>1. Site(p)' = Site(p) /\ Request(p)' = Request(p) /\ Request(p).cmd \in {"provision", "rotate", "delete"}
    BY <1>0, StepKeeps, CommandCases DEF Site, Request, RouteInv
  <1>2. ASSUME At(p, "resolve")
        PROVE  Naming(p)'
    <2>1. PICK found : found = secrets[Site(p)]
      OBVIOUS
    <2>2. PICK engine : engine = ResolveEngine(ParseCredentials(found), Request(p).engine)
      OBVIOUS
    <2>3. Resolve(p)
      BY <1>2 DEF Step, PgStep, PgUser, PgDatabase, PgLockdown, LockdownStep, PgGrant, PgUndoUser,
         PgUndoDatabase, PgDropDatabase, PgDropUser, MyStep, MyDatabase, MyUser, MyGrant, MyFlush,
         MyUndoUser, MyUndoDatabase, MyDropUser, MyDropDatabase, MyFlushDrop, ProvisionStep, Prepare,
         CreateFolder, FolderExists, Inspect, CheckDatabase, CheckUser, Provisioned, Sync, SyncDone,
         PrintCredentials, PrintsPassword, ResolveStep, Confirm, Decline, RotateStep,
         ResolveAgain, Alter, Record, Verify, Restore, PrintRotated, DeleteStep, ListSecrets, Erase,
         DeleteFolder, At
    <2>4. /\ Resolvable(found) /\ engine \in Engines /\ secrets' = secrets
          /\ GotoWith(p, "confirm", [job[p] EXCEPT !.seen = found, !.engine = engine])
      BY <1>0, <2>1, <2>2, <2>3 DEF Resolve, Read, Goto, Active, Finished, Reported
    <2>5. job'[p].seen = found /\ job'[p].engine = engine
      BY <1>0, <2>4 DEF GotoWith, Job
    <2>6. Request(p).cmd # "provision"
      BY <1>0, <1>2, Locals DEF Routed, At
    <2>7. UserOf(p)' = Lookup(found, "DB_USER") /\ Engine(p)' = engine
      BY <1>1, <2>5, <2>6 DEF UserOf, Engine
    <2>8. found["DB_USER"] = Lookup(found, "DB_USER")
      BY <2>4 DEF Resolvable, Lookup
    <2>9. found["DB_TYPE"] = engine
      <3>1. Request(p).engine = ""
        BY <1>0, <2>6, JobTypes DEF OnlyRefusals, RouteInv
      <3>2. ParseCredentials(found)["DB_TYPE"] = Lookup(found, "DB_TYPE")
        BY <1>0 DEF ParseCredentials
      <3>3. engine # ""
        BY <2>4 DEF Engines
      <3> QED
        BY <2>2, <3>1, <3>2, <3>3 DEF ResolveEngine, Lookup
    <2>10. secrets'[Site(p)']["DB_USER"] = UserOf(p)' /\ secrets'[Site(p)']["DB_TYPE"] = Engine(p)'
      BY <1>1, <2>1, <2>4, <2>7, <2>8, <2>9
    <2> QED
      BY <2>10 DEF Naming
  <1>3. ASSUME ~At(p, "resolve"), NEW k \in {"DB_USER", "DB_TYPE"}
        PROVE  /\ Request(p).cmd = "rotate" => secrets'[Site(p)][k] = secrets[Site(p)][k]
               /\ Request(p).cmd = "delete" => secrets'[Site(p)][k] \in {secrets[Site(p)][k], Absent}
    <2>0. Routed(pc[p], job[p]) /\ Request(p) = job[p].req
      BY <1>0, Locals
    <2>1. At(p, "sync") => Request(p).cmd = "provision"
      BY <2>0 DEF Routed, At, Changing, Ending
    <2>2. At(p, "erase") => Request(p).cmd = "delete"
      BY <2>0 DEF Routed, At, Dropping
    <2>3. secrets'[Site(p)][k] # secrets[Site(p)][k] =>
            At(p, "sync") \/ (At(p, "erase") /\ secrets'[Site(p)][k] = Absent)
      BY <1>0, Rewrites
    <2> QED
      BY <2>1, <2>2, <2>3
  <1>4. ASSUME ~At(p, "resolve"), Request(p).cmd # "provision"
        PROVE  UserOf(p)' = UserOf(p) /\ Engine(p)' = Engine(p)
    <2>1. CASE At(p, "resolveAgain")
      <3>1. PICK found : found = secrets[Site(p)]
        OBVIOUS
      <3>2. /\ Request(p).cmd = "rotate"
            /\ found["DB_USER"] = UserOf(p) /\ UserOf(p) = Lookup(job[p].seen, "DB_USER")
        BY <1>0, <2>1, <3>1, OnEngine DEF InHand, Naming, Rotating, At, UserOf
      <3>3. ResolveAgain(p)
        BY <2>1 DEF Step, PgStep, PgUser, PgDatabase, PgLockdown, LockdownStep, PgGrant, PgUndoUser,
           PgUndoDatabase, PgDropDatabase, PgDropUser, MyStep, MyDatabase, MyUser, MyGrant, MyFlush,
           MyUndoUser, MyUndoDatabase, MyDropUser, MyDropDatabase, MyFlushDrop, ProvisionStep, Prepare,
           CreateFolder, FolderExists, Inspect, CheckDatabase, CheckUser, Provisioned, Sync, SyncDone,
           PrintCredentials, PrintsPassword, ResolveStep, Resolve, Confirm, Decline, RotateStep,
           Alter, Record, Verify, Restore, PrintRotated, DeleteStep, ListSecrets, Erase,
           DeleteFolder, At
      <3>4. GotoWith(p, "alter", [job[p] EXCEPT !.seen = found])
        BY <1>0, <3>1, <3>3 DEF ResolveAgain, Read, Goto, Active, Finished, Reported
      <3>5. job'[p].seen = found /\ job'[p].engine = job[p].engine
        BY <1>0, <3>4 DEF GotoWith, Job
      <3>6. UserOf(p)' = Lookup(found, "DB_USER")
        BY <1>1, <3>2, <3>5 DEF UserOf
      <3>7. found["DB_USER"] # Absent
        <4>1. job[p].seen \in SecretMaps
          BY <1>0 DEF Job
        <4> QED
          BY <1>0, <3>2, <4>1, LookupTypes
      <3> QED
        BY <3>2, <3>5, <3>6, <3>7 DEF Lookup, Engine
    <2>2. CASE ~At(p, "resolveAgain")
      <3>1. ~At(p, "inspect")
        BY <1>0, <1>4, OnEngine DEF At, Looking, Provisioning
      <3> QED
        BY <1>0, <1>4, <2>2, <3>1, SameSeen, SameNames DEF At
    <2> QED
      BY <2>1, <2>2
  <1>5. ASSUME ~At(p, "resolve"), Request(p).cmd = "rotate", pc'[p] \in {"confirm"} \cup Rotating
        PROVE  secrets'[Site(p)]["DB_USER"] = UserOf(p)' /\ secrets'[Site(p)]["DB_TYPE"] = Engine(p)'
    <2>1. pc[p] \in {"confirm"} \cup Rotating
      BY <1>0, <1>5, Locals DEF Routed, Active, Steps, At, Looking, Changing, PgCalls, MyCalls, Locking,
         Ending, Rotating, Dropping, Finished
    <2> QED
      BY <1>0, <1>3, <1>4, <1>5, <2>1 DEF InHand, Naming
  <1>6. ASSUME ~At(p, "resolve"), Request(p).cmd = "delete"
        PROVE  /\ secrets'[Site(p)]["DB_USER"] \in {UserOf(p)', Absent}
               /\ secrets'[Site(p)]["DB_TYPE"] \in {Engine(p)', Absent}
    BY <1>0, <1>3, <1>4, <1>6 DEF InHand, Naming, At
  <1>7. ASSUME ~At(p, "resolve")
        PROVE  Naming(p)'
    BY <1>1, <1>5, <1>6, <1>7 DEF Naming
  <1> QED
    BY <1>2, <1>7

\* What a step of p does with the password p generated: as long as p runs it
\* stays in hand, and when p ends it is recorded, shown or off the servers.
LEMMA Handed ==
    ASSUME KeptInv, RollbackInv', OnlyRefusals, NEW p \in Invocations, Step(p), [Next]_vars
    PROVE  /\ Active(p)' => InHand(p)'
           /\ ~Active(p)' => \A e \in Engines, u \in Users :
                role'[e][u] = p => p \in shown' \/ Vouched(e, u, p)'
  <1>0. /\ LeftInv /\ RouteInv /\ RouteInv' /\ Active(p) /\ InHand(p) /\ Site(p) \in Sites
        /\ p # Absent /\ SerialInv /\ Exclusive
        /\ pc' \in [Invocations -> Steps]
    <2>1. LeftInv /\ RouteInv /\ SerialInv
      BY DEF KeptInv, DropInv, RollbackInv, SerialInv
    <2>2. RouteInv' /\ pc' \in [Invocations -> Steps]
      BY DEF RollbackInv, SerialInv, LeftInv, RouteInv, TypeInv, TypeOK
    <2>3. Active(p)
      BY <2>1, StepKeeps
    <2> QED
      BY <2>1, <2>2, <2>3, KeptFacts DEF OneRefusal
  <1>1. \A e \in Engines, u \in Users : role'[e][u] = p => e = Engine(p) /\ u = UserOf(p)
    BY <1>0, Sets DEF InHand
  <1>2. CASE pc[p] \notin Held \cup {"alter"}
    <2>1. Unused(p)'
      BY <1>0, <1>2, StaysUnused DEF InHand, Held, PgCalls, MyCalls, Ending
    <2> QED
      BY <1>0, <2>1, NamingKept DEF InHand, Unused
  <1>3. CASE pc[p] \in Held \cup {"alter"}
    <2>1. /\ job'[p].req = job[p].req /\ job'[p].engine = job[p].engine /\ job'[p].seen = job[p].seen
      BY <1>0, <1>3, SameSeen DEF Held, PgCalls, MyCalls, Locking, Ending
    <2>2. /\ Engine(p)' = Engine(p) /\ UserOf(p)' = UserOf(p) /\ Site(p)' = Site(p)
          /\ OldPassword(p)' = OldPassword(p) /\ Request(p)' = Request(p)
      BY <2>1, SameNames
    <2>3. ASSUME pc'[p] \in Held \ {"synced", "offline"}
          PROVE  Active(p)' /\ InHand(p)'
      <3>1. Active(p)'
        BY <2>3 DEF Held, PgCalls, MyCalls, Locking, Ending, Active, Finished
      <3> QED
        BY <1>0, <1>1, <2>2, <2>3, <3>1, NamingKept DEF InHand
    <2>4. ASSUME pc[p] \in {"pgUndoUser", "myUndoDatabase"}, pc'[p] = "failed"
          PROVE  ~Active(p)' /\ \A e \in Engines, u \in Users : role'[e][u] # p
      <3>1. role'[Engine(p)][UserOf(p)] = Absent
        BY <2>4, Undone DEF Ends, At, KeptInv, OnlyRefusals
      <3> QED
        BY <1>0, <1>1, <2>4, <3>1 DEF Active, Finished
    <2>5. ASSUME pc'[p] \in Reported, NEW e \in Engines, NEW u \in Users, role'[e][u] = p
          PROVE  Vouched(e, u, p)'
      <3>1. SerialFacts(p)' /\ Naming(p)'
        <4>1. Ends(p, pc'[p])
          BY <1>0, <2>5 DEF Ends, At, Active, Reported, Finished
        <4> QED
          BY <1>0, <2>5, <4>1, EndFacts, NamingKept
      <3>2. e = Engine(p)' /\ u = UserOf(p)'
        BY <1>1, <2>2, <2>5
      <3>3. CASE pc'[p] = "synced"
        <4>1. /\ Request(p).cmd = "provision"
              /\ \A k \in ContractKeys : secrets'[Site(p)'][k] = Desired(p)'[k]
          <5>1. Request(p)'.cmd = "provision"
            BY <1>0, <3>3 DEF RouteInv, Routed, Request, Changing, Ending
          <5> QED
            BY <2>2, <3>1, <3>3, <5>1 DEF SerialFacts, Vaulted, At
        <4>2. /\ Desired(p)'["DB_PASSWORD"] = p /\ Desired(p)'["DB_TYPE"] = Engine(p)'
              /\ Desired(p)'["DB_USER"] = UserOf(p)'
          BY <2>2, <4>1 DEF Desired, ToSecrets, ContractKeys, Keys, UserOf
        <4> QED
          BY <1>0, <2>2, <3>2, <4>1, <4>2 DEF Vouched, ContractKeys
      <3>4. CASE pc'[p] # "synced"
        <4>1. pc'[p] \in Rotating
          BY <2>5, <3>4 DEF Reported, Rotating
        <4>2. Request(p)'.cmd = "rotate"
          BY <1>0, <4>1 DEF RouteInv, Routed, Request
        <4>3. secrets'[Site(p)']["DB_USER"] = u /\ secrets'[Site(p)']["DB_TYPE"] = e
          BY <3>1, <3>2, <4>1, <4>2 DEF Naming
        <4>4. secrets'[Site(p)']["DB_PASSWORD"] = p
          BY <2>5, <3>1, <3>2, <3>4 DEF SerialFacts, Rekeyed, Reported, At, OnlyRefusals, OneRefusal
        <4> QED
          BY <1>0, <2>2, <4>3, <4>4 DEF Vouched
      <3> QED
        BY <3>3, <3>4
    <2>6. ASSUME pc'[p] \in Reported
          PROVE  ~Active(p)'
      BY <2>6 DEF Reported, Active, Finished
    <2>7. ASSUME At(p, "alter"), pc'[p] = "failed", role' = role
          PROVE  ~Active(p)' /\ \A e \in Engines, u \in Users : role'[e][u] # p
      BY <1>0, <2>7 DEF InHand, Unused, Active, Finished, At, Held, PgCalls, MyCalls, Locking, Ending
    <2>8. ASSUME pc'[p] \in {"failed", "offline"}, p \in shown'
          PROVE  ~Active(p)'
      BY <2>8 DEF Active, Finished
    <2> QED
      BY <1>3, <2>3, <2>4, <2>5, <2>6, <2>7, <2>8, HeldOn
  <1> QED
    BY <1>2, <1>3

LEMMA ShownKept ==
    ASSUME RouteInv, NEW p \in Invocations, Step(p)
    PROVE  shown \subseteq shown'
  <1>1. PgStep(p) => UNCHANGED shown
    BY DEF PgStep, PgUser, PgDatabase, PgLockdown, LockdownStep, PgGrant, PgUndoDatabase, PgUndoUser,
       PgDropDatabase, PgDropUser, SqlCall, Local
  <1>2. MyStep(p) => UNCHANGED shown
    BY DEF MyStep, MyDatabase, MyUser, MyGrant, MyFlush, MyUndoUser, MyUndoDatabase, MyDropUser,
       MyDropDatabase, MyFlushDrop, SqlCall, Read, Local
  <1>3. ResolveStep(p) \/ DeleteStep(p) => UNCHANGED shown
    BY DEF ResolveStep, Resolve, Confirm, Decline, DeleteStep, ListSecrets, Erase, DeleteFolder,
       VaultCall, Read, Local
  <1>4. RotateStep(p) => shown \subseteq shown'
    BY DEF RotateStep, ResolveAgain, Alter, Record, Verify, Restore, PrintRotated, RotatePassword,
       SqlCall, VaultCall, Read, Local
  <1>5. ProvisionStep(p) => shown \subseteq shown'
    BY DEF ProvisionStep, Prepare, CreateFolder, FolderExists, Inspect, CheckDatabase, CheckUser,
       Provisioned, Sync, SyncDone, PrintCredentials, PrintsPassword, VaultCall, Read, Local
  <1> QED
    BY <1>1, <1>2, <1>3, <1>4, <1>5 DEF Step

LEMMA KeptInvInductive ==
    ASSUME KeptInv, OnlyRefusals, [Next]_vars
    PROVE  KeptInv'
  <1>0. /\ RollbackInv' /\ DropInv' /\ LeftInv /\ RouteInv /\ RouteInv' /\ Exclusive
        /\ pc \in [Invocations -> Steps] /\ job \in [Invocations -> Job]
    BY RollbackInvInductive, DropInvInductive
    DEF KeptInv, OnlyRefusals, OneRefusal, DropInv, RollbackInv, SerialInv, LeftInv, RouteInv, TypeInv, TypeOK
  <1>1. CASE UNCHANGED vars
    <2>1. /\ role' = role /\ secrets' = secrets /\ pc' = pc /\ job' = job /\ shown' = shown
      BY <1>1 DEF vars
    <2>2. \A p \in Invocations : UserOf(p)' = UserOf(p) /\ Engine(p)' = Engine(p)
      BY <2>1, SameNames
    <2> QED
      BY <1>0, <2>1, <2>2 DEF KeptInv, InHand, Naming, Unused, Vouched, Active, At, Site, Request
  <1>2. ASSUME NEW p \in Invocations, NEW r \in Requests, Start(p, r)
        PROVE  KeptInv'
    <2>1. /\ role' = role /\ secrets' = secrets /\ shown' = shown /\ At(p, "idle")
          /\ pc'[p] = FirstStep(r) /\ job'[p] = NewJob(r)
          /\ \A q \in Invocations \ {p} : pc'[q] = pc[q] /\ ~Active(q)
      BY <1>0, <1>2 DEF Start, Local, GotoWith
    <2>2. Unused(p)' /\ Request(p)' = r /\ r.cmd \in {"provision", "rotate", "delete"}
      <3>1. r.cmd \in {"provision", "rotate", "delete"}
        BY RequestsAssumption DEF RequestType
      <3> QED
        BY <2>1, <3>1 DEF KeptInv, Unused, Request, NewJob
    <2>3. InHand(p)'
      <3>1. r.cmd # "provision" => pc'[p] = "resolve"
        BY <2>1, <2>2 DEF FirstStep
      <3> QED
        BY <2>2, <3>1 DEF InHand, Naming, Unused, Rotating
    <2>4. Active(p)'
      BY <2>1, <2>2 DEF FirstStep, Active, Finished
    <2>5. \A q \in Invocations \ {p} : ~Active(q)' /\ (At(q, "idle")' => Unused(q)')
      BY <2>1 DEF Active, At, KeptInv, Unused
    <2>6. \A e \in Engines, u \in Users : \A q \in Invocations : role'[e][u] = q =>
            q \in shown' \/ Active(q)' \/ Vouched(e, u, q)'
      BY <2>1, <2>4 DEF KeptInv, Vouched
    <2>7. ~At(p, "idle")'
      BY <2>4 DEF Active, At
    <2> QED
      BY <1>0, <2>3, <2>5, <2>6, <2>7 DEF KeptInv
  <1>3. ASSUME NEW p \in Invocations, Crash(p)
        PROVE  FALSE
    BY <1>3 DEF Crash, Fault, OnlyRefusals
  <1>4. ASSUME NEW p \in Invocations, Step(p)
        PROVE  KeptInv'
    <2>1. Active(p) /\ pc'[p] # "idle" /\ \A q \in Invocations \ {p} : ~Active(q)
      BY <1>0, <1>4, StepKeeps, KeptFacts
    <2>2. \A q \in Invocations \ {p} : pc'[q] = pc[q]
      <3>1. \E l, j : GotoWith(p, l, j)
        BY <1>0, <1>4, PgFollows, MyFollows, ProvisionFollows, ResolveFollows, RotateFollows,
           DeleteFollows DEF Step, Follows
      <3> QED
        BY <1>0, <3>1 DEF GotoWith
    <2>3. shown \subseteq shown'
      BY <1>0, <1>4, ShownKept
    <2>4. /\ Active(p)' => InHand(p)'
          /\ ~Active(p)' => \A e \in Engines, u \in Users :
                role'[e][u] = p => p \in shown' \/ Vouched(e, u, p)'
      BY <1>0, <1>4, Handed
    <2>5. \A q \in Invocations \ {p} : ~Active(q)' /\ (At(q, "idle")' => Unused(q)')
      BY <1>4, <2>1, <2>2, StaysUnused DEF KeptInv, Active, At
    <2>6. \A e \in Engines, u \in Users : \A q \in Invocations \ {p} : role'[e][u] = q =>
            q \in shown' \/ Vouched(e, u, q)'
      BY <1>4, <2>3, OthersKept
    <2>7. ~At(p, "idle")'
      BY <2>1 DEF At
    <2> QED
      BY <1>0, <2>4, <2>5, <2>6, <2>7 DEF KeptInv
  <1> QED
    BY <1>1, <1>2, <1>3, <1>4 DEF Next

LEMMA KeptInvariance ==
    ASSUME OnlyRefusals
    PROVE  Spec => []KeptInv
  <1>1. Init => KeptInv
    <2>1. ASSUME Init
          PROVE  KeptInv
      <3>1. RouteInv /\ \A p \in Invocations : At(p, "idle")
        BY <2>1, RouteInit DEF Init, At
      <3>2. \A p \in Invocations : ~Active(p)
        BY <3>1 DEF Active, At
      <3>3. LeftInv /\ References
        BY <2>1, <3>1, FirstStatesAssumption DEF LeftInv, References, Init, At
      <3>4. RollbackInv
        BY <3>2, <3>3 DEF RollbackInv, SerialInv, Alone
      <3>5. DropInv
        BY <3>1, <3>2 DEF DropInv, Alone, Cleared, At
      <3>6. \A p \in Invocations : Unused(p)
        BY <2>1, FirstStatesAssumption DEF Init, Unused
      <3> QED
        BY <3>2, <3>4, <3>5, <3>6 DEF KeptInv, Unused
    <2> QED
      BY <2>1
  <1>2. KeptInv /\ [Next]_vars => KeptInv'
    BY KeptInvInductive
  <1> QED
    BY <1>1, <1>2, PTL DEF Spec

\* Operators who wait for each other, nothing adopted, at most one call refused
\* and apps resolved by their records alone: no password that the tool
\* generated is live on a server without being recorded in the vault, printed on
\* a terminal, or still in the hands of the run that generated it.
THEOREM PasswordsAreKept ==
    ASSUME OnlyRefusals
    PROVE  Spec => []NoPasswordLost
  <1>1. KeptInv => NoPasswordLost
    BY DEF KeptInv, NoPasswordLost, Vouched
  <1> QED
    BY <1>1, KeptInvariance, PTL
=============================================================================
